----------------------------- MODULE TurnProofs -----------------------------
(***************************************************************************)
(* Theorems about ChatTurn: a turn's types, the knowledge base it uses and *)
(* the answer it leaves; and facts about numbers and texts they rest on.   *)
(***************************************************************************)
EXTENDS ChatTurn, FiniteSetTheorems, SequenceTheorems, WellFoundedInduction, TLAPS

(* Numbers.                                                                *)
LEMMA LessIsWellFounded == IsWellFoundedOn({ss \in Nat \X Nat : ss[1] < ss[2]}, Nat)
BY NatLessThanWellFounded DEF OpToRel

LEMMA Smallest ==
    ASSUME NEW T, T \subseteq Nat, T # {}
    PROVE  \E m \in T : \A k \in T : m <= k
<1>. DEFINE Less == {ss \in Nat \X Nat : ss[1] < ss[2]}
<1>1. PICK m \in T : \A k \in T : ~(<<k, m>> \in Less)
  <2>1. IsWellFoundedOn(Less, Nat)
    BY LessIsWellFounded
  <2>. HIDE DEF Less
  <2>. QED  BY <2>1, WFMin
<1>2. \A k \in T : ~(k < m)
  BY <1>1
<1>. QED  BY <1>2

LEMMA LesserOfTwo ==
    ASSUME NEW m \in Int, NEW n \in Int
    PROVE  Min({m, n}) = IF m <= n THEN m ELSE n
<1>1. CASE m <= n
  <2>1. Min({m, n}) = m
    BY <1>1 DEF Min
  <2>. QED  BY <1>1, <2>1
<1>2. CASE ~(m <= n)
  <2>1. Min({m, n}) = n
    BY <1>2 DEF Min
  <2>. QED  BY <1>2, <2>1
<1>. QED  BY <1>1, <1>2

LEMMA GreaterOfTwo ==
    ASSUME NEW m \in Int, NEW n \in Int
    PROVE  Max({m, n}) = IF m >= n THEN m ELSE n
<1>1. CASE m >= n
  <2>1. Max({m, n}) = m
    BY <1>1 DEF Max
  <2>. QED  BY <1>1, <2>1
<1>2. CASE ~(m >= n)
  <2>1. Max({m, n}) = n
    BY <1>2 DEF Max
  <2>. QED  BY <1>2, <2>1
<1>. QED  BY <1>1, <1>2

LEMMA MinIsSmallest ==
    ASSUME NEW T, T \subseteq Nat, T # {}
    PROVE  Min(T) \in T /\ \A k \in T : Min(T) <= k
<1>1. \E m \in T : \A k \in T : m <= k
  BY Smallest
<1>. QED  BY <1>1 DEF Min

LEMMA MaxIsLargest ==
    ASSUME NEW T, T \subseteq Nat, T # {}, NEW n \in Nat, \A k \in T : k <= n
    PROVE  Max(T) \in T /\ \A k \in T : Max(T) >= k
<1>. DEFINE Below == {n - k : k \in T}
<1>1. Below \subseteq Nat /\ Below # {}
  <2>1. ASSUME NEW k \in T PROVE n - k \in Nat
    <3>1. k \in Nat /\ k <= n
      OBVIOUS
    <3>. QED  BY <3>1
  <2>. QED  BY <2>1
<1>2. PICK d \in Below : \A e \in Below : d <= e
  <2>. HIDE DEF Below
  <2>. QED  BY <1>1, Smallest
<1>3. PICK m \in T : d = n - m
  BY <1>2
<1>4. \A k \in T : m >= k
  <2>1. ASSUME NEW k \in T PROVE m >= k
    <3>1. n - k \in Below
      BY <2>1
    <3>2. d <= n - k
      BY <1>2, <3>1
    <3>3. m \in Nat /\ k \in Nat
      BY <1>3
    <3>. QED  BY <1>3, <3>2, <3>3
  <2>. QED  BY <2>1
<1>. QED  BY <1>3, <1>4 DEF Max

-----------------------------------------------------------------------------
(* String.trim on texts.                                                   *)
Solid(text) == {i \in DOMAIN text : text[i] # Blank}

(* What a list holds.                                                      *)
Items(s) == {s[i] : i \in DOMAIN s}

LEMMA ItemsOfLists ==
    ASSUME NEW S
    PROVE  /\ Items(<<>>) = {}
           /\ \A s \in Seq(S) : Items(s) \subseteq S
           /\ \A s \in Seq(S), e \in S : Items(Append(s, e)) = Items(s) \cup {e}
           /\ \A s \in Seq(S) : s # <<>> => Items(s) = {Head(s)} \cup Items(Tail(s))
           /\ \A s, t \in Seq(S) : Items(s \o t) = Items(s) \cup Items(t)
<1>1. Items(<<>>) = {}
  BY DEF Items
<1>2. \A s \in Seq(S) : Items(s) \subseteq S
  BY ElementOfSeq, LenProperties DEF Items
<1>3. ASSUME NEW s \in Seq(S), NEW e \in S
      PROVE  Items(Append(s, e)) = Items(s) \cup {e}
  <2>1. DOMAIN s = 1..Len(s) /\ DOMAIN Append(s, e) = 1..(Len(s) + 1) /\ Len(s) \in Nat
    BY LenProperties, AppendProperties
  <2>2. \A i \in 1..Len(s) : Append(s, e)[i] = s[i]
    BY AppendProperties
  <2>3. Append(s, e)[Len(s) + 1] = e
    BY AppendProperties
  <2>. QED  BY <2>1, <2>2, <2>3 DEF Items
<1>4. ASSUME NEW s \in Seq(S), s # <<>>
      PROVE  Items(s) = {Head(s)} \cup Items(Tail(s))
  <2>1. /\ DOMAIN s = 1..Len(s) /\ DOMAIN Tail(s) = 1..(Len(s) - 1) /\ Len(s) \in Nat \ {0}
        /\ Head(s) = s[1] /\ \A i \in 1..(Len(s) - 1) : Tail(s)[i] = s[i + 1]
    BY <1>4, LenProperties, HeadTailProperties, EmptySeq
  <2>2. ASSUME NEW i \in 2..Len(s) PROVE s[i] \in Items(Tail(s))
    <3>1. i - 1 \in 1..(Len(s) - 1) /\ (i - 1) + 1 = i
      BY <2>1
    <3>2. Tail(s)[i - 1] = s[i]
      BY <2>1, <3>1
    <3>. QED  BY <2>1, <3>1, <3>2 DEF Items
  <2>3. ASSUME NEW i \in 1..(Len(s) - 1) PROVE Tail(s)[i] \in Items(s)
    <3>1. i + 1 \in 1..Len(s)
      BY <2>1
    <3>. QED  BY <2>1, <3>1 DEF Items
  <2>4. \A i \in 1..Len(s) : i = 1 \/ i \in 2..Len(s)
    BY <2>1
  <2>5. 1 \in 1..Len(s)
    BY <2>1
  <2>. QED  BY <2>1, <2>2, <2>3, <2>4, <2>5 DEF Items
<1>5. ASSUME NEW s \in Seq(S), NEW t \in Seq(S)
      PROVE  Items(s \o t) = Items(s) \cup Items(t)
  <2>1. /\ Len(s) \in Nat /\ Len(t) \in Nat
        /\ DOMAIN s = 1..Len(s) /\ DOMAIN t = 1..Len(t)
        /\ DOMAIN (s \o t) = 1..(Len(s) + Len(t))
        /\ \A i \in 1..(Len(s) + Len(t)) :
              (s \o t)[i] = IF i <= Len(s) THEN s[i] ELSE t[i - Len(s)]
    BY LenProperties, ConcatProperties
  <2>2. ASSUME NEW i \in 1..(Len(s) + Len(t)) PROVE (s \o t)[i] \in Items(s) \cup Items(t)
    <3>1. CASE i <= Len(s)
      <4>1. i \in 1..Len(s) /\ (s \o t)[i] = s[i]
        BY <2>1, <3>1
      <4>. QED  BY <2>1, <4>1 DEF Items
    <3>2. CASE ~(i <= Len(s))
      <4>1. i - Len(s) \in 1..Len(t) /\ (s \o t)[i] = t[i - Len(s)]
        BY <2>1, <3>2
      <4>. QED  BY <2>1, <4>1 DEF Items
    <3>. QED  BY <3>1, <3>2
  <2>3. ASSUME NEW i \in 1..Len(s) PROVE s[i] \in Items(s \o t)
    <3>1. i \in 1..(Len(s) + Len(t)) /\ (s \o t)[i] = s[i]
      BY <2>1
    <3>. QED  BY <2>1, <3>1 DEF Items
  <2>4. ASSUME NEW i \in 1..Len(t) PROVE t[i] \in Items(s \o t)
    <3>1. Len(s) + i \in 1..(Len(s) + Len(t)) /\ (s \o t)[Len(s) + i] = t[i]
      BY <2>1
    <3>. QED  BY <2>1, <3>1 DEF Items
  <2>5. \A e : e \in Items(s \o t) => e \in Items(s) \cup Items(t)
    BY <2>1, <2>2 DEF Items
  <2>6. \A e : e \in Items(s) \cup Items(t) => e \in Items(s \o t)
    BY <2>1, <2>3, <2>4 DEF Items
  <2>. QED  BY <2>5, <2>6
<1>. QED  BY <1>1, <1>2, <1>3, <1>4, <1>5

LEMMA TrimOfSolid ==
    ASSUME NEW P, NEW text \in Seq(P), Solid(text) # {}
    PROVE  /\ TrimText(text) = SubSeq(text, Min(Solid(text)), Max(Solid(text)))
           /\ Min(Solid(text)) \in Solid(text) /\ Max(Solid(text)) \in Solid(text)
           /\ \A k \in Solid(text) : Min(Solid(text)) <= k /\ k <= Max(Solid(text))
<1>1. Solid(text) \subseteq Nat /\ \A k \in Solid(text) : k <= Len(text)
  BY LenProperties DEF Solid
<1>2. Len(text) \in Nat
  BY LenProperties
<1>3. /\ Min(Solid(text)) \in Solid(text) /\ \A k \in Solid(text) : Min(Solid(text)) <= k
      /\ Max(Solid(text)) \in Solid(text) /\ \A k \in Solid(text) : Max(Solid(text)) >= k
  BY <1>1, <1>2, MinIsSmallest, MaxIsLargest
<1>4. \A k \in Solid(text) : k <= Max(Solid(text))
  BY <1>1, <1>3
<1>. QED  BY <1>3, <1>4 DEF TrimText, Solid

LEMMA TrimOfBlank ==
    ASSUME NEW text, Solid(text) = {}
    PROVE  TrimText(text) = <<>>
BY DEF TrimText, Solid

(* What is trimmed keeps all its pieces but blank ones.                    *)
LEMMA TrimKeeps ==
    ASSUME NEW P, NEW text \in Seq(P), Solid(text) # {}
    PROVE  /\ TrimText(text) \in Seq(P) /\ TrimText(text) # <<>>
           /\ \A i \in DOMAIN TrimText(text) :
                 \E j \in DOMAIN text : TrimText(text)[i] = text[j]
           /\ \A j \in DOMAIN text : text[j] # Blank =>
                 \E i \in DOMAIN TrimText(text) : TrimText(text)[i] = text[j]
<1>1. PICK a \in Solid(text), b \in Solid(text) :
         TrimText(text) = SubSeq(text, a, b) /\ \A k \in Solid(text) : a <= k /\ k <= b
  BY TrimOfSolid
<1>2. /\ a \in Nat /\ b \in Nat /\ a >= 1 /\ b <= Len(text) /\ a <= b /\ Len(text) \in Nat
      /\ DOMAIN text = 1..Len(text)
  BY <1>1, LenProperties DEF Solid
<1>3. \A i \in a..b : text[i] \in P
  BY <1>2, ElementOfSeq
<1>. DEFINE trimmed == SubSeq(text, a, b)
<1>4. /\ trimmed \in Seq(P) /\ Len(trimmed) = b - a + 1
      /\ \A i \in 1..(b - a + 1) : trimmed[i] = text[a + i - 1]
  BY <1>2, <1>3, SubSeqProperties
<1>. HIDE DEF trimmed
<1>5. trimmed # <<>> /\ DOMAIN trimmed = 1..(b - a + 1)
  BY <1>2, <1>4, LenProperties
<1>6. ASSUME NEW i \in DOMAIN trimmed PROVE \E j \in DOMAIN text : trimmed[i] = text[j]
  <2>1. a + i - 1 \in 1..Len(text)
    BY <1>2, <1>5
  <2>. QED  BY <1>2, <1>4, <1>5, <2>1
<1>7. ASSUME NEW j \in DOMAIN text, text[j] # Blank
      PROVE  \E i \in DOMAIN trimmed : trimmed[i] = text[j]
  <2>1. a <= j /\ j <= b
    BY <1>1, <1>7 DEF Solid
  <2>2. j - a + 1 \in 1..(b - a + 1) /\ a + (j - a + 1) - 1 = j
    BY <1>2, <1>7, <2>1
  <2>. QED  BY <1>4, <1>5, <2>2
<1>8. TrimText(text) = trimmed
  BY <1>1 DEF trimmed
<1>. QED  BY <1>4, <1>5, <1>6, <1>7, <1>8

(* A note after nothing but blanks is all that is left.                    *)
LEMMA TrimOfNote ==
    ASSUME NEW P, NEW text \in Seq(P), Solid(text) = {}, NEW note \in P, note # Blank
    PROVE  TrimText(text \o <<note>>) = <<note>> /\ text \o <<note>> \in Seq(P)
<1>. DEFINE long == text \o <<note>>
<1>1. <<note>> \in Seq(P) /\ Len(<<note>>) = 1 /\ <<note>>[1] = note
  OBVIOUS
<1>2. Len(text) \in Nat /\ DOMAIN text = 1..Len(text)
  BY LenProperties
<1>3. /\ long \in Seq(P) /\ Len(long) = Len(text) + 1
      /\ \A i \in 1..Len(text) : long[i] = text[i]
      /\ long[Len(text) + 1] = note
  <2>1. /\ long \in Seq(P) /\ Len(long) = Len(text) + Len(<<note>>)
        /\ \A i \in 1 .. Len(text) + Len(<<note>>) :
              long[i] = IF i <= Len(text) THEN text[i] ELSE <<note>>[i - Len(text)]
    BY <1>1, ConcatProperties
  <2>2. Len(text) + 1 - Len(text) = 1 /\ ~(Len(text) + 1 <= Len(text))
    BY <1>2
  <2>. HIDE DEF long
  <2>3. long[Len(text) + 1] = <<note>>[Len(text) + 1 - Len(text)]
    BY <1>1, <1>2, <2>1, <2>2
  <2>. QED  BY <1>1, <1>2, <2>1, <2>2, <2>3
<1>. HIDE DEF long
<1>4. DOMAIN long = 1..(Len(text) + 1)
  BY <1>3, LenProperties
<1>5. Solid(long) = {Len(text) + 1}
  <2>1. \A i \in 1..Len(text) : long[i] = Blank
    BY <1>2, <1>3 DEF Solid
  <2>2. Len(text) + 1 \in Solid(long)
    BY <1>2, <1>3, <1>4 DEF Solid
  <2>3. \A i \in Solid(long) : i = Len(text) + 1
    BY <1>2, <1>4, <2>1 DEF Solid
  <2>. QED  BY <2>2, <2>3
<1>6. TrimText(long) = SubSeq(long, Len(text) + 1, Len(text) + 1)
  BY <1>3, <1>5, TrimOfSolid
<1>7. /\ SubSeq(long, Len(text) + 1, Len(text) + 1) \in Seq(P)
      /\ Len(SubSeq(long, Len(text) + 1, Len(text) + 1)) = 1
      /\ SubSeq(long, Len(text) + 1, Len(text) + 1)[1] = note
  <2>1. \A i \in (Len(text) + 1)..(Len(text) + 1) : long[i] \in P
    BY <1>2, <1>3
  <2>. QED  BY <1>2, <1>3, <2>1, SubSeqProperties
<1>8. TrimText(long) = <<note>>
  <2>1. \A s \in Seq(P) : Len(s) = 1 /\ s[1] = note => s = <<note>>
    <3>1. ASSUME NEW s \in Seq(P), Len(s) = 1, s[1] = note PROVE s = <<note>>
      <4>1. \A i \in 1..Len(s) : s[i] = <<note>>[i]
        BY <1>1, <3>1
      <4>. QED  BY <1>1, <3>1, <4>1, SeqEqual
    <3>. QED  BY <3>1
  <2>. QED  BY <1>6, <1>7, <2>1
<1>. QED  BY <1>3, <1>8 DEF long

-----------------------------------------------------------------------------
(* The records a turn may hold.                                            *)
Pieces == (UNION {ToSet(chunk) : chunk \in Chunks}) \cup Notes \cup {Blank}
Convs  == [title : {"new", "named"} \cup Turns, kb : Kbs \cup {NoKb}]
TurnRecords ==
    [phase : Phases, requested : Kbs \cup {NoKb}, read : Convs, kb : Kbs \cup {NoKb},
     text : Seq(Pieces), chunks : 0..MaxChunks, shown : Seq(Pieces), degraded : BOOLEAN,
     row : {"none", "streaming", "completed"}, stored : Seq(Pieces), flagged : BOOLEAN,
     readable : SUBSET Kbs]

TurnTypes ==
    /\ conv \in Convs
    /\ acl \in [Kbs -> Scopes]
    /\ aclChanges \in 0..MaxAclChanges
    /\ turns \in [Turns -> TurnRecords]

Noted(text) == \E i \in DOMAIN text : text[i] \in Notes

(* What a turn knows of the knowledge bases, and of its answer.            *)
Preparing == {"requested", "current", "recommend", "prepare"}
KnowsKbs(t) ==
    /\ turns[t].phase \in Preparing => Readable \subseteq turns[t].readable
    /\ turns[t].phase = "prepare" /\ turns[t].kb # NoKb => turns[t].kb \in turns[t].readable
    /\ turns[t].row # "none" /\ turns[t].kb # NoKb => turns[t].kb \in turns[t].readable
    /\ turns[t].phase \in Preparing \cup {"idle"} <=>
          turns[t].row = "none" /\ turns[t].phase \notin {"failed", "lost"}

HasAnswer(t, text, flag) ==
    /\ text # <<>>
    /\ t \in StreamTurns => text = TrimText(turns[t].shown)
    /\ flag <=> Noted(text)

AnswerIsHonest(t) ==
    /\ turns[t].phase \in Preparing \cup {"idle"} =>
          turns[t].text = <<>> /\ turns[t].shown = <<>> /\ ~turns[t].degraded
    /\ turns[t].phase = "generate" =>
          /\ turns[t].text = turns[t].shown /\ ~turns[t].degraded
          /\ ~Noted(turns[t].text)
    /\ turns[t].phase = "answered" => HasAnswer(t, turns[t].text, turns[t].degraded)
    /\ turns[t].row = "completed" =>
          turns[t].phase = "done" /\ HasAnswer(t, turns[t].stored, turns[t].flagged)

TurnInv == TurnTypes /\ \A t \in Turns : KnowsKbs(t) /\ AnswerIsHonest(t)

LEMMA TurnTypesHold == TurnInv => TurnTypeOK
<1>. SUFFICES ASSUME TurnInv PROVE TurnTypeOK
  OBVIOUS
<1>1. turns \in [Turns -> TurnRecords] /\ conv \in Convs
  BY DEF TurnInv, TurnTypes
<1>2. \A t \in Turns :
         /\ turns[t].phase \in Phases
         /\ turns[t].requested \in Kbs \cup {NoKb} /\ turns[t].kb \in Kbs \cup {NoKb}
         /\ turns[t].chunks \in 0..MaxChunks
         /\ turns[t].row \in {"none", "streaming", "completed"}
         /\ turns[t].readable \in SUBSET Kbs
  BY <1>1 DEF TurnRecords
<1>3. conv.title \in {"new", "named"} \cup Turns /\ conv.kb \in Kbs \cup {NoKb}
  BY <1>1 DEF Convs
<1>. QED  BY <1>2, <1>3 DEF TurnInv, TurnTypes, TurnTypeOK

LEMMA TurnsBegin == TurnInit => TurnInv
<1>. SUFFICES ASSUME TurnInit PROVE TurnInv
  OBVIOUS
<1>1. NewTurn \in TurnRecords
  <2>1. <<>> \in Seq(Pieces)
    OBVIOUS
  <2>2. NotRead \in Convs
    BY DEF NotRead, Convs
  <2>3. 0 \in 0..MaxChunks
    BY TurnAssumption
  <2>4. "idle" \in Phases
    BY DEF Phases
  <2>. QED  BY <2>1, <2>2, <2>3, <2>4 DEF NewTurn, TurnRecords
<1>2. TurnTypes
  <2>1. turns \in [Turns -> TurnRecords]
    BY <1>1 DEF TurnInit
  <2>2. conv \in Convs
    BY DEF TurnInit, Convs
  <2>3. acl \in [Kbs -> Scopes] /\ aclChanges \in 0..MaxAclChanges
    BY TurnAssumption DEF TurnInit, Scopes
  <2>. QED  BY <2>1, <2>2, <2>3 DEF TurnTypes
<1>3. \A t \in Turns : KnowsKbs(t) /\ AnswerIsHonest(t)
  BY DEF TurnInit, NewTurn, KnowsKbs, AnswerIsHonest, Preparing
<1>. QED  BY <1>2, <1>3 DEF TurnInv

(* A turn that changes alone.                                              *)
Becomes(t, new) ==
    /\ new \in TurnRecords /\ turns' = [turns EXCEPT ![t] = new] /\ UNCHANGED acl
    /\ UNCHANGED <<conv, aclChanges>> \/ (conv' \in Convs /\ UNCHANGED aclChanges)

LEMMA OneTurn ==
    ASSUME TurnInv, NEW t \in Turns, NEW new, Becomes(t, new),
           KnowsKbs(t)', AnswerIsHonest(t)'
    PROVE  TurnInv'
<1>1. turns \in [Turns -> TurnRecords]
  BY DEF TurnInv, TurnTypes
<1>2. TurnTypes'
  BY <1>1 DEF TurnInv, TurnTypes, Becomes
<1>3. \A s \in Turns : s # t => turns'[s] = turns[s]
  BY <1>1 DEF Becomes
<1>4. ASSUME NEW s \in Turns, s # t PROVE KnowsKbs(s)' /\ AnswerIsHonest(s)'
  <2>1. turns'[s] = turns[s] /\ KnowsKbs(s) /\ AnswerIsHonest(s)
    BY <1>3, <1>4 DEF TurnInv
  <2>2. UNCHANGED Readable
    BY DEF Becomes, Readable, Offered, CheckKbAccess
  <2>. QED  BY <2>1, <2>2 DEF KnowsKbs, AnswerIsHonest, HasAnswer
<1>. QED  BY <1>2, <1>4 DEF TurnInv

LEMMA PiecesAreTexts ==
    ASSUME NEW chunk \in Chunks
    PROVE  chunk \in Seq(Pieces) /\ ~Noted(chunk)
<1>1. chunk \in Seq(ToSet(chunk)) /\ ToSet(chunk) \cap Notes = {}
  BY TurnAssumption
<1>2. ToSet(chunk) \subseteq Pieces
  BY DEF Pieces
<1>3. chunk \in Seq(Pieces)
  BY <1>1, <1>2, SeqMonotonic
<1>4. \A i \in DOMAIN chunk : chunk[i] \in ToSet(chunk)
  BY DEF ToSet
<1>. QED  BY <1>1, <1>3, <1>4 DEF Noted

LEMMA NotesOfConcat ==
    ASSUME NEW s \in Seq(Pieces), NEW u \in Seq(Pieces)
    PROVE  s \o u \in Seq(Pieces) /\ (Noted(s \o u) <=> Noted(s) \/ Noted(u))
<1>. DEFINE long == s \o u
<1>1. /\ long \in Seq(Pieces) /\ Len(long) = Len(s) + Len(u)
      /\ \A i \in 1 .. Len(s) + Len(u) : long[i] = IF i <= Len(s) THEN s[i] ELSE u[i - Len(s)]
  BY ConcatProperties
<1>2. /\ Len(s) \in Nat /\ DOMAIN s = 1..Len(s) /\ Len(u) \in Nat /\ DOMAIN u = 1..Len(u)
      /\ DOMAIN long = 1..(Len(s) + Len(u))
  BY <1>1, LenProperties
<1>. HIDE DEF long
<1>3. \A i \in DOMAIN long : (i \in DOMAIN s /\ long[i] = s[i]) \/ (i - Len(s) \in DOMAIN u /\ long[i] = u[i - Len(s)])
  BY <1>1, <1>2
<1>4. \A i \in DOMAIN s : i \in DOMAIN long /\ long[i] = s[i]
  BY <1>1, <1>2
<1>5. \A i \in DOMAIN u : i + Len(s) \in DOMAIN long /\ long[i + Len(s)] = u[i]
  <2>1. ASSUME NEW i \in DOMAIN u PROVE i + Len(s) \in DOMAIN long /\ long[i + Len(s)] = u[i]
    <3>1. i + Len(s) \in 1..Len(s) + Len(u) /\ ~(i + Len(s) <= Len(s)) /\ i + Len(s) - Len(s) = i
      BY <1>2
    <3>2. long[i + Len(s)] = u[i + Len(s) - Len(s)]
      BY <1>1, <3>1
    <3>. QED  BY <1>2, <3>1, <3>2
  <2>. QED  BY <2>1
<1>6. Noted(long) <=> Noted(s) \/ Noted(u)
  BY <1>3, <1>4, <1>5 DEF Noted
<1>. QED  BY <1>1, <1>6 DEF long

(* The trimmed text has a note if and only if the text has one.            *)
LEMMA NotesOfTrimmed ==
    ASSUME NEW text \in Seq(Pieces), Solid(text) # {}
    PROVE  /\ TrimText(text) \in Seq(Pieces) /\ TrimText(text) # <<>>
           /\ Noted(TrimText(text)) <=> Noted(text)
<1>1. \A i \in DOMAIN text : text[i] \in Notes => text[i] # Blank
  BY TurnAssumption
<1>. QED  BY <1>1, TrimKeeps DEF Noted

LEMMA TurnStarts ==
    ASSUME TurnInv, NEW t \in Turns, StartTurn(t)
    PROVE  TurnInv'
<1>1. PICK k \in Kbs \cup {NoKb} :
         turns' = [turns EXCEPT ![t] = [turns[t] EXCEPT !.phase = "requested", !.requested = k,
                                              !.read = conv, !.readable = Readable]]
  BY DEF StartTurn, Set
<1>. DEFINE new == [turns[t] EXCEPT !.phase = "requested", !.requested = k,
                                    !.read = conv, !.readable = Readable]
<1>2. turns[t] \in TurnRecords /\ turns \in [Turns -> TurnRecords] /\ conv \in Convs
  BY DEF TurnInv, TurnTypes
<1>3. Readable \in SUBSET Kbs
  BY DEF Readable, Offered
<1>4. /\ new \in TurnRecords /\ new.phase = "requested" /\ new.readable = Readable
      /\ new.row = turns[t].row /\ new.kb = turns[t].kb /\ new.text = turns[t].text
      /\ new.shown = turns[t].shown /\ new.degraded = turns[t].degraded
  BY <1>2, <1>3 DEF TurnRecords, Phases
<1>5. turns[t].phase = "idle" /\ UNCHANGED <<conv, acl, aclChanges>>
  BY DEF StartTurn
<1>. HIDE DEF new
<1>6. Becomes(t, new) /\ turns'[t] = new /\ UNCHANGED Readable
  BY <1>1, <1>2, <1>4, <1>5 DEF Becomes, new, Readable, Offered, CheckKbAccess
<1>7. KnowsKbs(t) /\ AnswerIsHonest(t)
  BY DEF TurnInv
<1>8. KnowsKbs(t)'
  BY <1>4, <1>5, <1>6, <1>7 DEF KnowsKbs, Preparing
<1>9. AnswerIsHonest(t)'
  BY <1>4, <1>5, <1>6, <1>7 DEF AnswerIsHonest, KnowsKbs, Preparing
<1>. QED  BY <1>6, <1>8, <1>9, OneTurn

(* The three ways to settle on a knowledge base.                           *)
LEMMA TurnFindsKb ==
    ASSUME TurnInv, NEW t \in Turns, TryRequested(t) \/ TryCurrent(t) \/ Recommend(t)
    PROVE  TurnInv'
<1>1. PICK k \in Kbs \cup {NoKb}, phase \in {"current", "recommend", "prepare"} :
         /\ turns' = [turns EXCEPT ![t] = [turns[t] EXCEPT !.kb = k, !.phase = phase]]
         /\ k # NoKb => k \in Readable
  <2>1. CASE TryRequested(t)
    <3>. DEFINE k == turns[t].requested
                ok == k # NoKb /\ CheckKbAccess(k)
    <3>1. k \in Kbs \cup {NoKb}
      BY DEF TurnInv, TurnTypes, TurnRecords
    <3>2. CASE ok
      BY <2>1, <3>1, <3>2 DEF TryRequested, Set, Readable
    <3>3. CASE ~ok
      BY <2>1, <3>3 DEF TryRequested, Set
    <3>. QED  BY <3>2, <3>3
  <2>2. CASE TryCurrent(t)
    <3>. DEFINE k == turns[t].read.kb
                ok == k # NoKb /\ CheckKbAccess(k)
    <3>1. k \in Kbs \cup {NoKb}
      BY DEF TurnInv, TurnTypes, TurnRecords, Convs
    <3>2. CASE ok
      BY <2>2, <3>1, <3>2 DEF TryCurrent, Set, Readable
    <3>3. CASE ~ok
      BY <2>2, <3>3 DEF TryCurrent, Set
    <3>. QED  BY <3>2, <3>3
  <2>3. CASE Recommend(t)
    <3>1. PICK k \in Offered \cup {NoKb} :
             turns' = [turns EXCEPT ![t] = [turns[t] EXCEPT !.kb = k, !.phase = "prepare"]]
      BY <2>3 DEF Recommend, Set
    <3>2. k \in Kbs \cup {NoKb} /\ (k # NoKb => k \in Readable)
      BY DEF Offered, Readable
    <3>. QED  BY <3>1, <3>2
  <2>. QED  BY <2>1, <2>2, <2>3
<1>. DEFINE new == [turns[t] EXCEPT !.kb = k, !.phase = phase]
<1>2. turns[t] \in TurnRecords /\ turns \in [Turns -> TurnRecords]
  BY DEF TurnInv, TurnTypes
<1>4. /\ new \in TurnRecords /\ new.phase = phase /\ new.readable = turns[t].readable
      /\ new.row = turns[t].row /\ new.kb = k /\ new.text = turns[t].text
      /\ new.shown = turns[t].shown /\ new.degraded = turns[t].degraded
  BY <1>2 DEF TurnRecords, Phases
<1>5. turns[t].phase \in Preparing /\ UNCHANGED <<conv, acl, aclChanges>>
  BY DEF TryRequested, TryCurrent, Recommend, Preparing
<1>. HIDE DEF new
<1>6. Becomes(t, new) /\ turns'[t] = new /\ UNCHANGED Readable
  BY <1>1, <1>2, <1>4, <1>5 DEF Becomes, new, Readable, Offered, CheckKbAccess
<1>7. KnowsKbs(t) /\ AnswerIsHonest(t)
  BY DEF TurnInv
<1>8. KnowsKbs(t)'
  BY <1>1, <1>4, <1>5, <1>6, <1>7 DEF KnowsKbs, Preparing
<1>9. AnswerIsHonest(t)'
  BY <1>4, <1>5, <1>6, <1>7 DEF AnswerIsHonest, KnowsKbs, Preparing
<1>. QED  BY <1>6, <1>8, <1>9, OneTurn

LEMMA TurnIsPrepared ==
    ASSUME TurnInv, NEW t \in Turns, PrepareTurn(t)
    PROVE  TurnInv'
<1>. DEFINE new == [turns[t] EXCEPT !.phase = "generate", !.row = "streaming",
                                    !.requested = NoKb, !.read = NotRead]
<1>2. turns[t] \in TurnRecords /\ turns \in [Turns -> TurnRecords]
  BY DEF TurnInv, TurnTypes
<1>3. NotRead \in Convs /\ "generate" \in Phases
  BY DEF NotRead, Convs, Phases
<1>4. /\ new \in TurnRecords /\ new.phase = "generate" /\ new.readable = turns[t].readable
      /\ new.row = "streaming" /\ new.kb = turns[t].kb /\ new.text = turns[t].text
      /\ new.shown = turns[t].shown /\ new.degraded = turns[t].degraded
  BY <1>2, <1>3 DEF TurnRecords
<1>5. turns[t].phase = "prepare" /\ UNCHANGED <<acl, aclChanges>> /\ turns' = [turns EXCEPT ![t] = new]
  BY DEF PrepareTurn, Set
<1>. HIDE DEF new
<1>6. conv' \in Convs
  <2>1. turns[t].read \in Convs /\ turns[t].kb \in Kbs \cup {NoKb}
    BY <1>2 DEF TurnRecords
  <2>2. turns[t].read.title \in {"new", "named"} \cup Turns /\ turns[t].read.kb \in Kbs \cup {NoKb}
    BY <2>1 DEF Convs
  <2>. QED  BY <2>1, <2>2 DEF PrepareTurn, Convs
<1>7. Becomes(t, new) /\ turns'[t] = new
  BY <1>2, <1>4, <1>5, <1>6 DEF Becomes
<1>8. KnowsKbs(t) /\ AnswerIsHonest(t)
  BY DEF TurnInv
<1>9. KnowsKbs(t)'
  BY <1>4, <1>5, <1>7, <1>8 DEF KnowsKbs, Preparing
<1>10. ~Noted(<<>>)
  BY DEF Noted
<1>11. AnswerIsHonest(t)'
  BY <1>4, <1>5, <1>7, <1>8, <1>10 DEF AnswerIsHonest, Preparing
<1>. QED  BY <1>7, <1>9, <1>11, OneTurn

(* What is taken from an event of the stream is a text without a note.     *)
LEMMA DeltasAreTexts ==
    ASSUME NEW chunk \in Chunks, NEW text \in Seq(Pieces)
    PROVE  /\ NormalizeStreamDelta(chunk, text) \in Seq(Pieces)
           /\ ~Noted(NormalizeStreamDelta(chunk, text))
<1>1. chunk \in Seq(Pieces) /\ ~Noted(chunk)
  BY PiecesAreTexts
<1>2. CASE text # <<>> /\ IsPrefix(text, chunk)
  <2>. DEFINE a == Len(text) + 1
              b == Len(chunk)
              delta == SubSeq(chunk, a, b)
  <2>1. a \in Nat /\ b \in Nat /\ a >= 1 /\ a <= b + 1 /\ DOMAIN chunk = 1..b
    <3>1. Len(text) <= Len(chunk)
      BY <1>2 DEF IsPrefix
    <3>. QED  BY <1>1, <3>1, LenProperties
  <2>2. \A i \in a..b : chunk[i] \in Pieces
    BY <1>1, <2>1, ElementOfSeq
  <2>3. /\ delta \in Seq(Pieces) /\ Len(delta) = b - a + 1
        /\ \A i \in 1..(b - a + 1) : delta[i] = chunk[a + i - 1]
    <3>. HIDE DEF a, b
    <3>1. Len(delta) = IF a <= b THEN b - a + 1 ELSE 0
      BY <1>1, <2>1, <2>2, SubSeqProperties
    <3>. QED  BY <1>1, <2>1, <2>2, <3>1, SubSeqProperties
  <2>4. NormalizeStreamDelta(chunk, text) = delta
    BY <1>2 DEF NormalizeStreamDelta
  <2>. HIDE DEF a, b, delta
  <2>5. \A i \in DOMAIN delta : \E j \in DOMAIN chunk : delta[i] = chunk[j]
    <3>1. DOMAIN delta = 1..(b - a + 1)
      BY <2>1, <2>3, LenProperties
    <3>2. ASSUME NEW i \in 1..(b - a + 1) PROVE a + i - 1 \in 1..b
      BY <2>1
    <3>. QED  BY <2>1, <2>3, <3>1, <3>2
  <2>. QED  BY <1>1, <2>3, <2>4, <2>5 DEF Noted
<1>3. CASE ~(text # <<>> /\ IsPrefix(text, chunk))
  BY <1>1, <1>3 DEF NormalizeStreamDelta
<1>. QED  BY <1>2, <1>3

LEMMA TurnStreams ==
    ASSUME TurnInv, NEW t \in Turns, NEW chunk \in Chunks, StreamChunk(t, chunk)
    PROVE  TurnInv'
<1>. DEFINE delta == NormalizeStreamDelta(chunk, turns[t].text)
            new   == [turns[t] EXCEPT !.text = @ \o delta, !.shown = @ \o delta,
                                      !.chunks = @ + 1]
<1>1. /\ turns' = [turns EXCEPT ![t] = new] /\ UNCHANGED <<conv, acl, aclChanges>>
      /\ turns[t].phase = "generate" /\ turns[t].chunks < MaxChunks
  BY DEF StreamChunk, Set
<1>2. turns[t] \in TurnRecords /\ turns \in [Turns -> TurnRecords]
  BY DEF TurnInv, TurnTypes
<1>3. turns[t].text \in Seq(Pieces) /\ turns[t].shown \in Seq(Pieces)
  BY <1>2 DEF TurnRecords
<1>4. delta \in Seq(Pieces) /\ ~Noted(delta)
  BY <1>3, DeltasAreTexts
<1>. HIDE DEF delta
<1>5. /\ turns[t].text \o delta \in Seq(Pieces) /\ turns[t].shown \o delta \in Seq(Pieces)
      /\ Noted(turns[t].text \o delta) <=> Noted(turns[t].text)
  BY <1>3, <1>4, NotesOfConcat
<1>6. turns[t].chunks + 1 \in 0..MaxChunks
  BY <1>1, <1>2, TurnAssumption DEF TurnRecords
<1>7. /\ new \in TurnRecords /\ new.phase = "generate" /\ new.readable = turns[t].readable
      /\ new.row = turns[t].row /\ new.kb = turns[t].kb /\ new.text = turns[t].text \o delta
      /\ new.shown = turns[t].shown \o delta /\ new.degraded = turns[t].degraded
  BY <1>1, <1>2, <1>5, <1>6 DEF TurnRecords
<1>. HIDE DEF new
<1>8. Becomes(t, new) /\ turns'[t] = new
  BY <1>1, <1>2, <1>7 DEF Becomes
<1>9. KnowsKbs(t) /\ AnswerIsHonest(t)
  BY DEF TurnInv
<1>10. KnowsKbs(t)'
  BY <1>1, <1>7, <1>8, <1>9 DEF KnowsKbs, Preparing
<1>11. AnswerIsHonest(t)'
  BY <1>1, <1>5, <1>7, <1>8, <1>9 DEF AnswerIsHonest, KnowsKbs, Preparing
<1>. QED  BY <1>8, <1>10, <1>11, OneTurn

(* How an answer ends: whole, with a notice, or replaced by the local one. *)
LEMMA AnswerEnds ==
    ASSUME NEW text \in Seq(Pieces), ~Noted(text), NEW failed \in BOOLEAN,
           NEW end, end = Ending(text, failed)
    PROVE  LET answer == TrimText(IF TrimText(text) = <<>> THEN end ELSE text \o end)
           IN  /\ end \in Seq(Pieces) /\ text \o end \in Seq(Pieces)
               /\ (failed => end # <<>>)
               /\ answer \in Seq(Pieces) /\ answer # <<>>
               /\ answer = TrimText(text \o end)
               /\ Noted(answer) <=> end # <<>>
<1>. DEFINE answer == TrimText(IF TrimText(text) = <<>> THEN end ELSE text \o end)
<1>1. \A note \in Notes : note \in Pieces /\ note # Blank
  BY TurnAssumption DEF Pieces
<1>2. <<>> \in Seq(Pieces) /\ Solid(<<>>) = {} /\ ~Noted(<<>>)
  BY DEF Solid, Noted
<1>3. TrimText(text) = <<>> <=> Solid(text) = {}
  BY TrimKeeps, TrimOfBlank
<1>4. ASSUME NEW note \in Notes PROVE <<note>> \in Seq(Pieces) /\ <<note>> # <<>> /\ Noted(<<note>>)
  <2>1. 1 \in DOMAIN <<note>> /\ <<note>>[1] = note
    OBVIOUS
  <2>. QED  BY <1>1, <2>1 DEF Noted
<1>5. CASE Solid(text) = {}
  <2>1. end = <<"fallback">> /\ "fallback" \in Notes
    BY <1>3, <1>5 DEF Ending, Notes
  <2>2. TrimText(text \o <<"fallback">>) = <<"fallback">> /\ text \o <<"fallback">> \in Seq(Pieces)
    BY <1>1, <1>5, <2>1, TrimOfNote
  <2>3. TrimText(<<>> \o <<"fallback">>) = <<"fallback">>
    BY <1>1, <1>2, <2>1, TrimOfNote
  <2>4. <<>> \o <<"fallback">> = <<"fallback">>
    BY <1>4, <2>1, ConcatEmptySeq
  <2>5. answer = <<"fallback">>
    BY <1>3, <1>5, <2>1, <2>3, <2>4
  <2>. HIDE DEF answer
  <2>6. answer = TrimText(text \o end)
    BY <2>1, <2>2, <2>5
  <2>7. answer \in Seq(Pieces) /\ answer # <<>> /\ Noted(answer) /\ end # <<>> /\ end \in Seq(Pieces)
    BY <1>4, <2>1, <2>5
  <2>. QED  BY <2>1, <2>2, <2>6, <2>7 DEF answer
<1>6. CASE Solid(text) # {}
  <2>1. answer = TrimText(text \o end)
    BY <1>3, <1>6
  <2>2. end = IF failed THEN <<"interrupted">> ELSE <<>>
    BY <1>3, <1>6 DEF Ending
  <2>3. end \in Seq(Pieces) /\ (end # <<>> <=> failed) /\ (Noted(end) <=> failed)
    <3>1. CASE failed
      BY <1>4, <2>2, <3>1 DEF Notes
    <3>2. CASE ~failed
      BY <1>2, <2>2, <3>2
    <3>. QED  BY <3>1, <3>2
  <2>4. text \o end \in Seq(Pieces) /\ (Noted(text \o end) <=> failed)
    BY <2>3, NotesOfConcat
  <2>5. Solid(text \o end) # {}
    <3>1. PICK i \in DOMAIN text : text[i] # Blank
      BY <1>6 DEF Solid
    <3>2. /\ DOMAIN text = 1..Len(text) /\ Len(text) \in Nat /\ Len(end) \in Nat
          /\ Len(text \o end) = Len(text) + Len(end)
          /\ (text \o end)[i] = text[i] /\ DOMAIN (text \o end) = 1..Len(text \o end)
      BY <2>3, <2>4, LenProperties, ConcatProperties
    <3>3. i \in DOMAIN (text \o end)
      BY <3>2
    <3>. QED  BY <3>1, <3>2, <3>3 DEF Solid
  <2>. HIDE DEF answer
  <2>6. answer \in Seq(Pieces) /\ answer # <<>> /\ (Noted(answer) <=> failed)
    BY <2>1, <2>4, <2>5, NotesOfTrimmed
  <2>. QED  BY <2>1, <2>3, <2>4, <2>6 DEF answer
<1>. QED  BY <1>5, <1>6

LEMMA TurnStreamEnds ==
    ASSUME TurnInv, NEW t \in Turns, StreamEnd(t)
    PROVE  TurnInv'
<1>. DEFINE text == turns[t].text
<1>1. PICK failed \in BOOLEAN :
        LET end == Ending(text, failed)
        IN  turns' = [turns EXCEPT ![t] = [turns[t] EXCEPT
                 !.text = TrimText(IF TrimText(text) = <<>> THEN end ELSE text \o end),
                 !.shown = @ \o end,
                 !.degraded = failed \/ end # <<>>, !.phase = "answered"]]
  BY DEF StreamEnd, Set
<1>. DEFINE end    == Ending(text, failed)
            answer == TrimText(IF TrimText(text) = <<>> THEN end ELSE text \o end)
            flag   == failed \/ end # <<>>
            new    == [turns[t] EXCEPT !.text = answer, !.shown = @ \o end,
                                       !.degraded = flag, !.phase = "answered"]
<1>2. turns[t] \in TurnRecords /\ turns \in [Turns -> TurnRecords]
  BY DEF TurnInv, TurnTypes
<1>3. /\ UNCHANGED <<conv, acl, aclChanges>> /\ turns' = [turns EXCEPT ![t] = new]
      /\ turns[t].phase = "generate"
  BY <1>1 DEF StreamEnd
<1>4. KnowsKbs(t) /\ AnswerIsHonest(t)
  BY DEF TurnInv
<1>5. text \in Seq(Pieces) /\ turns[t].shown = text /\ ~Noted(text)
  BY <1>2, <1>3, <1>4 DEF TurnRecords, AnswerIsHonest
<1>6. /\ text \o end \in Seq(Pieces) /\ (failed => end # <<>>)
      /\ answer \in Seq(Pieces) /\ answer # <<>> /\ answer = TrimText(text \o end)
      /\ Noted(answer) <=> end # <<>>
  <2>. HIDE DEF text
  <2>. QED  BY <1>5, AnswerEnds
<1>. HIDE DEF answer, end
<1>7. flag \in BOOLEAN /\ (flag <=> Noted(answer))
  BY <1>6
<1>. HIDE DEF flag
<1>8. /\ new \in TurnRecords /\ new.phase = "answered" /\ new.readable = turns[t].readable
      /\ new.row = turns[t].row /\ new.kb = turns[t].kb /\ new.text = answer
      /\ new.shown = text \o end /\ new.degraded = flag
  BY <1>2, <1>5, <1>6, <1>7 DEF TurnRecords, Phases
<1>. HIDE DEF new, text
<1>9. Becomes(t, new) /\ turns'[t] = new
  BY <1>2, <1>3, <1>8 DEF Becomes
<1>10. KnowsKbs(t)'
  BY <1>3, <1>4, <1>8, <1>9 DEF KnowsKbs, Preparing
<1>11. HasAnswer(t, turns[t].text, turns[t].degraded)'
  BY <1>6, <1>7, <1>8, <1>9 DEF HasAnswer
<1>12. AnswerIsHonest(t)'
  BY <1>3, <1>4, <1>8, <1>9, <1>11 DEF AnswerIsHonest, Preparing
<1>. QED  BY <1>9, <1>10, <1>12, OneTurn

LEMMA TurnIsAnswered ==
    ASSUME TurnInv, NEW t \in Turns, Answer(t)
    PROVE  TurnInv'
<1>1. PICK text \in Chunks \cup {<<>>} :
        LET end == Ending(text, FALSE)
        IN  turns' = [turns EXCEPT ![t] = [turns[t] EXCEPT !.text = TrimText(text) \o end,
                                     !.degraded = end # <<>>, !.phase = "answered"]]
  BY DEF Answer, Set
<1>. DEFINE end    == Ending(text, FALSE)
            answer == TrimText(text) \o end
            flag   == end # <<>>
            new    == [turns[t] EXCEPT !.text = answer, !.degraded = flag, !.phase = "answered"]
<1>2. turns[t] \in TurnRecords /\ turns \in [Turns -> TurnRecords]
  BY DEF TurnInv, TurnTypes
<1>3. /\ UNCHANGED <<conv, acl, aclChanges>> /\ turns' = [turns EXCEPT ![t] = new]
      /\ turns[t].phase = "generate" /\ t \notin StreamTurns
  BY <1>1 DEF Answer
<1>4. KnowsKbs(t) /\ AnswerIsHonest(t)
  BY DEF TurnInv
<1>5. text \in Seq(Pieces) /\ ~Noted(text)
  <2>1. <<>> \in Seq(Pieces) /\ ~Noted(<<>>)
    BY DEF Noted
  <2>. QED  BY <2>1, PiecesAreTexts
<1>6. answer \in Seq(Pieces) /\ answer # <<>> /\ (Noted(answer) <=> end # <<>>)
  <2>1. CASE Solid(text) = {}
    <3>1. TrimText(text) = <<>> /\ end = <<"fallback">>
      BY <2>1, TrimOfBlank DEF Ending
    <3>2. "fallback" \in Pieces
      BY DEF Pieces, Notes
    <3>3. <<"fallback">> \in Seq(Pieces) /\ <<"fallback">> # <<>>
      BY <3>2
    <3>4. answer = <<"fallback">>
      BY <3>1, <3>3, ConcatEmptySeq
    <3>5. 1 \in DOMAIN <<"fallback">> /\ <<"fallback">>[1] \in Notes
      BY DEF Notes
    <3>6. Noted(<<"fallback">>)
      BY <3>5 DEF Noted
    <3>. HIDE DEF answer
    <3>. QED  BY <3>1, <3>3, <3>4, <3>6
  <2>2. CASE Solid(text) # {}
    <3>1. /\ TrimText(text) \in Seq(Pieces) /\ TrimText(text) # <<>> /\ ~Noted(TrimText(text))
      BY <1>5, <2>2, NotesOfTrimmed
    <3>2. end = <<>>
      BY <3>1 DEF Ending
    <3>3. answer = TrimText(text)
      BY <3>1, <3>2, ConcatEmptySeq
    <3>. QED  BY <3>1, <3>2, <3>3
  <2>. QED  BY <2>1, <2>2
<1>7. flag \in BOOLEAN /\ (flag <=> Noted(answer))
  BY <1>6
<1>. HIDE DEF answer, flag
<1>8. /\ new \in TurnRecords /\ new.phase = "answered" /\ new.readable = turns[t].readable
      /\ new.row = turns[t].row /\ new.kb = turns[t].kb /\ new.text = answer
      /\ new.degraded = flag
  BY <1>2, <1>6, <1>7 DEF TurnRecords, Phases
<1>. HIDE DEF new
<1>9. Becomes(t, new) /\ turns'[t] = new
  BY <1>2, <1>3, <1>8 DEF Becomes
<1>10. KnowsKbs(t)'
  BY <1>3, <1>4, <1>8, <1>9 DEF KnowsKbs, Preparing
<1>11. HasAnswer(t, turns[t].text, turns[t].degraded)'
  BY <1>3, <1>6, <1>7, <1>8, <1>9 DEF HasAnswer
<1>12. AnswerIsHonest(t)'
  BY <1>3, <1>4, <1>8, <1>9, <1>11 DEF AnswerIsHonest, Preparing
<1>. QED  BY <1>9, <1>10, <1>12, OneTurn

LEMMA TurnIsFinalized ==
    ASSUME TurnInv, NEW t \in Turns, FinalizeAssistantMessage(t)
    PROVE  TurnInv'
<1>. DEFINE new == [turns[t] EXCEPT !.row = "completed", !.stored = turns[t].text,
                       !.flagged = turns[t].degraded, !.phase = "done",
                       !.text = <<>>, !.chunks = 0, !.degraded = FALSE]
<1>1. /\ turns' = [turns EXCEPT ![t] = new] /\ UNCHANGED <<conv, acl, aclChanges>>
      /\ turns[t].phase = "answered"
  BY DEF FinalizeAssistantMessage, Set
<1>2. turns[t] \in TurnRecords /\ turns \in [Turns -> TurnRecords]
  BY DEF TurnInv, TurnTypes
<1>3. turns[t].text \in Seq(Pieces) /\ turns[t].degraded \in BOOLEAN /\ <<>> \in Seq(Pieces)
  BY <1>2 DEF TurnRecords
<1>4. 0 \in 0..MaxChunks /\ "done" \in Phases
  BY TurnAssumption DEF Phases
<1>5. /\ new \in TurnRecords /\ new.phase = "done" /\ new.readable = turns[t].readable
      /\ new.row = "completed" /\ new.kb = turns[t].kb /\ new.shown = turns[t].shown
      /\ new.stored = turns[t].text /\ new.flagged = turns[t].degraded
  BY <1>2, <1>3, <1>4 DEF TurnRecords
<1>. HIDE DEF new
<1>6. Becomes(t, new) /\ turns'[t] = new
  BY <1>1, <1>2, <1>5 DEF Becomes
<1>7. KnowsKbs(t) /\ AnswerIsHonest(t)
  BY DEF TurnInv
<1>8. KnowsKbs(t)'
  BY <1>1, <1>5, <1>6, <1>7 DEF KnowsKbs, Preparing
<1>9. HasAnswer(t, turns[t].text, turns[t].degraded)
  BY <1>1, <1>7 DEF AnswerIsHonest
<1>10. HasAnswer(t, turns[t].stored, turns[t].flagged)'
  BY <1>5, <1>6, <1>9 DEF HasAnswer
<1>11. AnswerIsHonest(t)'
  BY <1>5, <1>6, <1>10 DEF AnswerIsHonest, Preparing
<1>. QED  BY <1>6, <1>8, <1>11, OneTurn

(* A turn that gives up, by itself or with the process.                    *)
LEMMA GivenUp ==
    ASSUME TurnInv, NEW t \in Turns, Running(t), NEW phase \in {"failed", "lost"},
           turns'[t] = [turns[t] EXCEPT !.phase = phase], UNCHANGED acl
    PROVE  turns'[t] \in TurnRecords /\ KnowsKbs(t)' /\ AnswerIsHonest(t)'
<1>1. turns[t] \in TurnRecords /\ KnowsKbs(t) /\ AnswerIsHonest(t)
  BY DEF TurnInv, TurnTypes
<1>. DEFINE new == [turns[t] EXCEPT !.phase = phase]
<1>2. /\ new \in TurnRecords /\ new.phase = phase /\ new.readable = turns[t].readable
      /\ new.row = turns[t].row /\ new.kb = turns[t].kb
  BY <1>1 DEF TurnRecords, Phases
<1>. HIDE DEF new
<1>3. turns'[t] = new
  BY DEF new
<1>4. KnowsKbs(t)'
  BY <1>1, <1>2, <1>3 DEF KnowsKbs, Preparing
<1>5. turns[t].row # "completed"
  BY <1>1 DEF AnswerIsHonest, Running
<1>6. AnswerIsHonest(t)'
  BY <1>2, <1>3, <1>5 DEF AnswerIsHonest, Preparing
<1>. QED  BY <1>2, <1>3, <1>4, <1>6

LEMMA TurnGivesUp ==
    ASSUME TurnInv, NEW t \in Turns, TurnFails(t)
    PROVE  TurnInv'
<1>. DEFINE new == [turns[t] EXCEPT !.phase = "failed"]
<1>1. turns' = [turns EXCEPT ![t] = new] /\ UNCHANGED <<conv, acl, aclChanges>> /\ Running(t)
  BY DEF TurnFails, Set, Running
<1>2. turns'[t] = new
  BY <1>1 DEF TurnInv, TurnTypes
<1>3. turns'[t] \in TurnRecords /\ KnowsKbs(t)' /\ AnswerIsHonest(t)'
  BY <1>1, <1>2, GivenUp
<1>. HIDE DEF new
<1>4. Becomes(t, new)
  BY <1>1, <1>2, <1>3 DEF Becomes
<1>. QED  BY <1>3, <1>4, OneTurn

LEMMA TurnsAreLost ==
    ASSUME TurnInv, RestartLosesTurns
    PROVE  TurnInv'
<1>1. turns \in [Turns -> TurnRecords]
  BY DEF TurnInv, TurnTypes
<1>2. /\ turns' = [t \in Turns |-> IF Running(t) THEN [turns[t] EXCEPT !.phase = "lost"] ELSE turns[t]]
      /\ UNCHANGED <<conv, acl, aclChanges>>
  BY DEF RestartLosesTurns
<1>3. ASSUME NEW t \in Turns
      PROVE  turns'[t] \in TurnRecords /\ KnowsKbs(t)' /\ AnswerIsHonest(t)'
  <2>1. CASE Running(t)
    <3>1. turns'[t] = [turns[t] EXCEPT !.phase = "lost"]
      BY <1>2, <2>1
    <3>. QED  BY <1>2, <2>1, <3>1, GivenUp
  <2>2. CASE ~Running(t)
    <3>1. turns'[t] = turns[t] /\ UNCHANGED Readable
      BY <1>2, <2>2 DEF Readable, Offered, CheckKbAccess
    <3>2. KnowsKbs(t) /\ AnswerIsHonest(t)
      BY DEF TurnInv
    <3>. QED  BY <1>1, <3>1, <3>2 DEF KnowsKbs, AnswerIsHonest, HasAnswer
  <2>. QED  BY <2>1, <2>2
<1>4. turns' \in [Turns -> TurnRecords]
  BY <1>2, <1>3
<1>5. TurnTypes'
  BY <1>2, <1>4 DEF TurnInv, TurnTypes
<1>. QED  BY <1>3, <1>5 DEF TurnInv

(* The owner's change of who may read a knowledge base.                    *)
LEMMA AccessChanges ==
    ASSUME TurnInv, NEW k \in Kbs, ChangeAccess(k)
    PROVE  TurnInv'
<1>1. turns \in [Turns -> TurnRecords] /\ acl \in [Kbs -> Scopes]
  BY DEF TurnInv, TurnTypes
<1>2. PICK scope \in Scopes \ {"own"} :
          /\ acl' = [acl EXCEPT ![k] = scope]
          /\ turns' = [t \in Turns |->
                IF Running(t) /\ turns[t].row = "none"
                THEN [turns[t] EXCEPT !.readable = @ \cup
                         (IF scope \in {"public", "listed", "internal"} THEN {k} ELSE {})]
                ELSE turns[t]]
  BY DEF ChangeAccess
<1>. DEFINE opened == IF scope \in {"public", "listed", "internal"} THEN {k} ELSE {}
<1>3. opened \subseteq Kbs /\ Readable' \subseteq Readable \cup opened
  BY <1>1, <1>2 DEF Readable, Offered, CheckKbAccess
<1>4. ASSUME NEW t \in Turns
      PROVE  turns'[t] \in TurnRecords /\ KnowsKbs(t)' /\ AnswerIsHonest(t)'
  <2>1. turns[t] \in TurnRecords /\ KnowsKbs(t) /\ AnswerIsHonest(t)
    BY DEF TurnInv, TurnTypes
  <2>2. CASE Running(t) /\ turns[t].row = "none"
    <3>. DEFINE new == [turns[t] EXCEPT !.readable = @ \cup opened]
    <3>1. turns'[t] = new
      BY <1>2, <2>2
    <3>. HIDE DEF opened
    <3>2. /\ new \in TurnRecords /\ new.phase = turns[t].phase
          /\ new.readable = turns[t].readable \cup opened
          /\ new.row = turns[t].row /\ new.kb = turns[t].kb /\ new.text = turns[t].text
          /\ new.shown = turns[t].shown /\ new.degraded = turns[t].degraded
      BY <1>3, <2>1 DEF TurnRecords
    <3>. HIDE DEF new
    <3>3. KnowsKbs(t)'
      BY <1>3, <2>1, <3>1, <3>2 DEF KnowsKbs, Preparing
    <3>4. AnswerIsHonest(t)'
      BY <2>1, <2>2, <3>1, <3>2 DEF AnswerIsHonest, HasAnswer, Preparing
    <3>. QED  BY <3>1, <3>2, <3>3, <3>4
  <2>3. CASE ~(Running(t) /\ turns[t].row = "none")
    <3>1. turns'[t] = turns[t]
      BY <1>2, <2>3
    <3>2. turns[t].phase \notin Preparing
      BY <2>1, <2>3 DEF KnowsKbs, Running, Preparing
    <3>3. KnowsKbs(t)'
      BY <2>1, <3>1, <3>2 DEF KnowsKbs, Preparing
    <3>. QED  BY <2>1, <3>1, <3>3 DEF AnswerIsHonest, HasAnswer
  <2>. QED  BY <2>2, <2>3
<1>5. turns' \in [Turns -> TurnRecords]
  BY <1>2, <1>4
<1>6. acl' \in [Kbs -> Scopes]
  BY <1>1, <1>2
<1>7. aclChanges' \in 0..MaxAclChanges /\ UNCHANGED conv
  <2>1. aclChanges \in 0..MaxAclChanges /\ aclChanges < MaxAclChanges /\ aclChanges' = aclChanges + 1
    BY DEF ChangeAccess, TurnInv, TurnTypes
  <2>. QED  BY <2>1, TurnAssumption DEF ChangeAccess
<1>8. TurnTypes'
  BY <1>5, <1>6, <1>7 DEF TurnInv, TurnTypes
<1>. QED  BY <1>4, <1>8 DEF TurnInv

LEMMA TurnsGoOn ==
    ASSUME TurnInv, [TurnNext]_turnVars
    PROVE  TurnInv'
<1>1. CASE UNCHANGED turnVars
  <2>1. /\ UNCHANGED <<conv, acl, turns, aclChanges>> /\ UNCHANGED Readable
    BY <1>1 DEF turnVars, Readable, Offered, CheckKbAccess
  <2>. QED  BY <2>1 DEF TurnInv, TurnTypes, KnowsKbs, AnswerIsHonest, HasAnswer
<1>2. ASSUME NEW t \in Turns, TurnStep(t)
      PROVE  TurnInv'
  <2>1. ASSUME NEW chunk \in Chunks, StreamChunk(t, chunk) PROVE TurnInv'
    BY <2>1, TurnStreams
  <2>. QED  BY <1>2, <2>1, TurnFindsKb, TurnIsPrepared, TurnStreamEnds, TurnIsAnswered,
               TurnIsFinalized DEF TurnStep, TurnWork, StreamStep
<1>. QED  BY <1>1, <1>2, TurnStarts, TurnGivesUp, TurnsAreLost, AccessChanges DEF TurnNext

(* Every step of a conversation keeps what its turns know and what they    *)
(* have said (prepareConversationTurn to finalizeAssistantMessage).        *)
THEOREM TurnsKeepTheirWord == TurnSpec => []TurnInv
BY TurnsBegin, TurnsGoOn, PTL DEF TurnSpec

(* Overlapping turns, access that changes under them and a conversation    *)
(* that names any knowledge base at all: a turn only searches one its user *)
(* could read at some moment while it was prepared (resolveKnowledgeBaseId).*)
THEOREM KnowledgeIsAlwaysChecked == TurnSpec => []KnowledgeIsChecked
<1>1. TurnInv => KnowledgeIsChecked
  BY DEF TurnInv, KnowsKbs, KnowledgeIsChecked
<1>. QED  BY <1>1, TurnsKeepTheirWord, PTL

(* For every stream, cumulative or not, broken off or blank: what the      *)
(* reader was shown is what is stored, it is never empty, and it is        *)
(* flagged exactly when a notice or the local answer is in it              *)
(* (generateTurnReply, finalizeAssistantMessage).                          *)
THEOREM CompletedTurnsStayHonest == TurnSpec => []CompletedTurnsAreHonest
<1>1. TurnInv => CompletedTurnsAreHonest
  BY DEF TurnInv, AnswerIsHonest, HasAnswer, Noted, CompletedTurnsAreHonest
<1>. QED  BY <1>1, TurnsKeepTheirWord, PTL
=============================================================================
