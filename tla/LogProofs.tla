----------------------------- MODULE LogProofs ------------------------------
(***************************************************************************)
(* Proofs about the logger: no line is forgotten (LogQueue), old files are *)
(* kept for their time (LogArchive), their types, and why the breaker opens*)
(* (CircuitBreaker), for any lines, sizes, faults, loggers, thresholds and *)
(* periods.                                                                *)
(***************************************************************************)
EXTENDS MCLogging, CircuitBreaker, TurnProofs

LogFlushOK ==
    /\ Flushing => chain # <<>>
    /\ ~Flushing => awaited = {} /\ ~failed
    /\ \A x \in awaited : buffer[x] # <<>> /\ buffer[x][Len(buffer[x])] = writing[x]
    /\ \A x \in Streams \ awaited : failed \/ Elements(writing[x]) \subseteq Elements(file[x])

TimerOK == timer # "none" => combined # <<>>

StopOnce == phase = "running" => \A i \in DOMAIN chain : chain[i] # "stop"

DueOK ==
    \A line \in due :
        \/ Out(line)
        \/ /\ phase = "stopping"
           /\ \/ line \in Elements(writing["combined"])
              \/ /\ line \in Elements(combined)
                 /\ Flushing => Head(chain) # "stop"

Waits(x) == IF x = "combined" THEN combined ELSE errors

Earlier(log, a, b) == \A i, j \in DOMAIN log : log[i] = a /\ log[j] = b => i < j
Ordered(log, s) == \A i, j \in DOMAIN s : i < j => Earlier(log, s[i], s[j])
Before(log, s, t) == \A i \in DOMAIN s, j \in DOMAIN t : Earlier(log, s[i], t[j])
LogHas(log, s) == Elements(s) \subseteq Elements(log)

InLine(log, out, batches, wait) ==
    /\ LogHas(log, out) /\ Ordered(log, out)
    /\ LogHas(log, wait) /\ Ordered(log, wait)
    /\ Before(log, out, wait)
    /\ \A k \in DOMAIN batches :
          /\ LogHas(log, batches[k]) /\ Ordered(log, batches[k])
          /\ Before(log, out, batches[k]) /\ Before(log, batches[k], wait)
    /\ \A k, m \in DOMAIN batches : k < m => Before(log, batches[k], batches[m])

QueueInv ==
    /\ TypeOK /\ MemoryIsBounded
    /\ LogFlushOK /\ TimerOK /\ StopOnce /\ DueOK
    /\ QueueIsWatched /\ ErrorLinesSurvive
    /\ \A x \in Streams : InLine(logged, file[x], buffer[x], Waits(x))

ArchiveJobs ==
    [pc : {"asleep", "archive", "read", "open", "write", "unlink", "list", "clean", "delete", "over"},
     todo : SUBSET LogFiles, file : LogFiles \cup {NoFile}]
TimeIsOver(f) == f + ArchiveAfter + CleanAfter < day
JobOK(job) ==
    /\ job.pc \in {"read", "open", "write", "unlink", "delete"} => job.file \in LogFiles
    /\ job.pc \in {"read", "open", "write"} => job.file + ArchiveAfter < day
    /\ job.pc = "delete" => TimeIsOver(job.file)
    /\ job.pc = "unlink" => \/ archives[job.file].holds = "whole" \/ job.file \in overwritten
                            \/ TimeIsOver(job.file)
ArchiveInv ==
    /\ ArchiveTypeOK
    /\ \A f \in LogFiles : Archived(f) => f + ArchiveAfter < archives[f].at
    /\ \A l \in Loggers : JobOK(jobs[l])
    /\ LinesAreKept
-----------------------------------------------------------------------------
(* Lists of lines.                                                         *)
LEMMA ElementsOfLists ==
    ASSUME NEW S
    PROVE  /\ Elements(<<>>) = {}
           /\ \A s \in Seq(S) : Elements(s) \subseteq S
           /\ \A s \in Seq(S), e \in S : Elements(Append(s, e)) = Elements(s) \cup {e}
           /\ \A s \in Seq(S) : s # <<>> => Elements(s) = {Head(s)} \cup Elements(Tail(s))
           /\ \A s, t \in Seq(S) : Elements(s \o t) = Elements(s) \cup Elements(t)
BY ItemsOfLists DEF Elements, Items

(* What has been logged earlier stays earlier.                             *)
LEMMA LogGrows ==
    ASSUME NEW S, NEW log \in Seq(S), NEW e \in S, e \notin Elements(log)
    PROVE  LET longer == Append(log, e)
           IN  /\ Elements(longer) = Elements(log) \cup {e}
               /\ \A a, b \in Elements(log) : Earlier(log, a, b) => Earlier(longer, a, b)
               /\ \A a \in Elements(log) : Earlier(longer, a, e)
<1>. DEFINE longer == Append(log, e)
<1>1. /\ Len(log) \in Nat /\ DOMAIN log = 1..Len(log)
      /\ DOMAIN longer = 1..(Len(log) + 1)
      /\ \A i \in 1..Len(log) : longer[i] = log[i]
      /\ longer[Len(log) + 1] = e
  BY LenProperties, AppendProperties
<1>2. Elements(longer) = Elements(log) \cup {e}
  BY ElementsOfLists
<1>3. \A i \in 1..Len(log) : log[i] # e
  BY <1>1 DEF Elements
<1>. HIDE DEF longer
<1>4. ASSUME NEW a \in Elements(log), NEW i \in DOMAIN longer, longer[i] = a
      PROVE  i \in 1..Len(log) /\ log[i] = a
  <2>1. a # e
    OBVIOUS
  <2>2. i # Len(log) + 1
    BY <1>1, <1>4, <2>1
  <2>3. i \in 1..Len(log)
    BY <1>1, <2>2
  <2>. QED  BY <1>1, <1>4, <2>3
<1>5. ASSUME NEW a \in Elements(log), NEW b \in Elements(log), Earlier(log, a, b)
      PROVE  Earlier(longer, a, b)
  BY <1>1, <1>4, <1>5 DEF Earlier
<1>6. ASSUME NEW a \in Elements(log)
      PROVE  Earlier(longer, a, e)
  <2>1. ASSUME NEW i \in DOMAIN longer, NEW j \in DOMAIN longer, longer[i] = a, longer[j] = e
        PROVE  i < j
    <3>1. i \in 1..Len(log)
      BY <1>4, <2>1
    <3>2. j \notin 1..Len(log)
      BY <1>1, <1>3, <2>1
    <3>3. j = Len(log) + 1
      BY <1>1, <3>2
    <3>. QED  BY <1>1, <3>1, <3>3
  <2>. QED  BY <2>1 DEF Earlier
<1>. QED  BY <1>2, <1>5, <1>6 DEF longer

LEMMA OrderStays ==
    ASSUME NEW S, NEW log \in Seq(S), NEW e \in S, e \notin Elements(log),
           NEW s, NEW t, LogHas(log, s), LogHas(log, t)
    PROVE  LET longer == Append(log, e)
           IN  /\ LogHas(longer, s)
               /\ Ordered(log, s) => Ordered(longer, s)
               /\ Before(log, s, t) => Before(longer, s, t)
<1>. DEFINE longer == Append(log, e)
<1>1. /\ Elements(longer) = Elements(log) \cup {e}
      /\ \A a, b \in Elements(log) : Earlier(log, a, b) => Earlier(longer, a, b)
  BY LogGrows
<1>2. /\ \A i \in DOMAIN s : s[i] \in Elements(log)
      /\ \A i \in DOMAIN t : t[i] \in Elements(log)
  BY DEF LogHas, Elements
<1>. HIDE DEF longer
<1>3. LogHas(longer, s)
  BY <1>1 DEF LogHas
<1>4. Ordered(log, s) => Ordered(longer, s)
  BY <1>1, <1>2 DEF Ordered
<1>5. Before(log, s, t) => Before(longer, s, t)
  BY <1>1, <1>2 DEF Before
<1>. QED  BY <1>3, <1>4, <1>5 DEF longer

(* A new line goes to the end of what waits.                               *)
LEMMA NewLineIsLast ==
    ASSUME NEW S, NEW log \in Seq(S), NEW e \in S, e \notin Elements(log),
           NEW out, NEW batches, NEW wait \in Seq(S), InLine(log, out, batches, wait)
    PROVE  InLine(Append(log, e), out, batches, Append(wait, e))
<1>. DEFINE longer == Append(log, e)  more == Append(wait, e)
<1>1. /\ e \in Elements(longer)
      /\ \A a \in Elements(log) : Earlier(longer, a, e)
  BY LogGrows
<1>2. /\ LogHas(longer, out) /\ Ordered(longer, out) /\ LogHas(longer, wait) /\ Ordered(longer, wait)
      /\ Before(longer, out, wait)
  BY OrderStays DEF InLine
<1>3. \A k \in DOMAIN batches :
         /\ LogHas(longer, batches[k]) /\ Ordered(longer, batches[k])
         /\ Before(longer, out, batches[k]) /\ Before(longer, batches[k], wait)
  BY OrderStays DEF InLine
<1>4. \A k, m \in DOMAIN batches : k < m => Before(longer, batches[k], batches[m])
  BY OrderStays DEF InLine
<1>5. /\ Len(wait) \in Nat /\ DOMAIN wait = 1..Len(wait) /\ DOMAIN more = 1..(Len(wait) + 1)
      /\ \A i \in 1..Len(wait) : more[i] = wait[i]
      /\ more[Len(wait) + 1] = e
      /\ Elements(more) = Elements(wait) \cup {e}
  BY LenProperties, AppendProperties, ElementsOfLists
<1>. HIDE DEF longer, more
<1>6. LogHas(longer, more)
  BY <1>1, <1>2, <1>5 DEF LogHas
<1>7. ASSUME NEW s, LogHas(log, s), Before(longer, s, wait)
      PROVE  Before(longer, s, more)
  <2>1. ASSUME NEW i \in DOMAIN s, NEW j \in DOMAIN more PROVE Earlier(longer, s[i], more[j])
    <3>1. s[i] \in Elements(log)
      BY <1>7 DEF LogHas, Elements
    <3>2. CASE j \in 1..Len(wait)
      BY <1>5, <1>7, <3>2 DEF Before
    <3>3. CASE j = Len(wait) + 1
      BY <1>1, <1>5, <3>1, <3>3
    <3>. QED  BY <1>5, <3>2, <3>3
  <2>. QED  BY <2>1 DEF Before
<1>8. Ordered(longer, more)
  <2>1. ASSUME NEW i \in DOMAIN more, NEW j \in DOMAIN more, i < j
        PROVE  Earlier(longer, more[i], more[j])
    <3>1. i \in 1..Len(wait)
      BY <1>5, <2>1
    <3>2. wait[i] \in Elements(log) /\ more[i] = wait[i]
      BY <1>5, <3>1 DEF InLine, LogHas, Elements
    <3>3. CASE j \in 1..Len(wait)
      BY <1>2, <1>5, <2>1, <3>1, <3>3 DEF Ordered
    <3>4. CASE j = Len(wait) + 1
      BY <1>1, <1>5, <3>2, <3>4
    <3>. QED  BY <1>5, <3>3, <3>4
  <2>. QED  BY <2>1 DEF Ordered
<1>9. LogHas(log, out) /\ \A k \in DOMAIN batches : LogHas(log, batches[k])
  BY DEF InLine
<1>10. Before(longer, out, more) /\ \A k \in DOMAIN batches : Before(longer, batches[k], more)
  BY <1>2, <1>3, <1>7, <1>9
<1>11. InLine(longer, out, batches, more)
  BY <1>2, <1>3, <1>4, <1>6, <1>8, <1>10 DEF InLine
<1>. QED  BY <1>11 DEF longer, more

LEMMA LineStaysInLine ==
    ASSUME NEW S, NEW log \in Seq(S), NEW e \in S, e \notin Elements(log),
           NEW out, NEW batches, NEW wait, InLine(log, out, batches, wait)
    PROVE  InLine(Append(log, e), out, batches, wait)
<1>. DEFINE longer == Append(log, e)
<1>2. /\ LogHas(longer, out) /\ Ordered(longer, out) /\ LogHas(longer, wait) /\ Ordered(longer, wait)
      /\ Before(longer, out, wait)
  BY OrderStays DEF InLine
<1>3. \A k \in DOMAIN batches :
         /\ LogHas(longer, batches[k]) /\ Ordered(longer, batches[k])
         /\ Before(longer, out, batches[k]) /\ Before(longer, batches[k], wait)
  BY OrderStays DEF InLine
<1>4. \A k, m \in DOMAIN batches : k < m => Before(longer, batches[k], batches[m])
  BY OrderStays DEF InLine
<1>. HIDE DEF longer
<1>5. InLine(longer, out, batches, wait)
  BY <1>2, <1>3, <1>4 DEF InLine
<1>. QED  BY <1>5 DEF longer

(* The oldest of the lines that wait is dropped.                           *)
LEMMA OldestIsDropped ==
    ASSUME NEW S, NEW log, NEW out, NEW batches, NEW wait \in Seq(S), wait # <<>>,
           InLine(log, out, batches, wait)
    PROVE  InLine(log, out, batches, Tail(wait))
<1>. DEFINE rest == Tail(wait)
<1>1. /\ Len(wait) \in Nat \ {0} /\ DOMAIN wait = 1..Len(wait)
      /\ DOMAIN rest = 1..(Len(wait) - 1)
      /\ \A i \in 1..(Len(wait) - 1) : rest[i] = wait[i + 1]
      /\ Elements(wait) = {Head(wait)} \cup Elements(rest)
  BY LenProperties, HeadTailProperties, EmptySeq, ElementsOfLists
<1>. HIDE DEF rest
<1>2. ASSUME NEW i \in DOMAIN rest
      PROVE  i \in Int /\ i + 1 \in DOMAIN wait /\ rest[i] = wait[i + 1]
  BY <1>1
<1>3. LogHas(log, rest)
  BY <1>1 DEF InLine, LogHas
<1>4. Ordered(log, rest)
  <2>1. ASSUME NEW i \in DOMAIN rest, NEW j \in DOMAIN rest, i < j
        PROVE  Earlier(log, rest[i], rest[j])
    <3>1. i + 1 < j + 1
      BY <1>2, <2>1
    <3>. QED  BY <1>2, <3>1 DEF InLine, Ordered
  <2>. QED  BY <2>1 DEF Ordered
<1>5. \A s : Before(log, s, wait) => Before(log, s, rest)
  BY <1>2 DEF Before
<1>6. InLine(log, out, batches, rest)
  BY <1>3, <1>4, <1>5 DEF InLine
<1>. QED  BY <1>6 DEF rest

(* What waits becomes a batch of the stream.                               *)
LEMMA BatchIsTaken ==
    ASSUME NEW S, NEW log, NEW out, NEW batches \in Seq(S), NEW wait \in S,
           InLine(log, out, batches, wait)
    PROVE  InLine(log, out, Append(batches, wait), <<>>)
<1>. DEFINE more == Append(batches, wait)
<1>1. /\ Len(batches) \in Nat /\ DOMAIN batches = 1..Len(batches)
      /\ DOMAIN more = 1..(Len(batches) + 1)
      /\ \A k \in 1..Len(batches) : more[k] = batches[k]
      /\ more[Len(batches) + 1] = wait
  BY LenProperties, AppendProperties
<1>2. Elements(<<>>) = {} /\ DOMAIN <<>> = {}
  BY ElementsOfLists
<1>3. LogHas(log, <<>>) /\ Ordered(log, <<>>) /\ \A s : Before(log, s, <<>>)
  BY <1>2 DEF LogHas, Ordered, Before
<1>. HIDE DEF more
<1>4. ASSUME NEW k \in DOMAIN more
      PROVE  LogHas(log, more[k]) /\ Ordered(log, more[k]) /\ Before(log, out, more[k])
  BY <1>1 DEF InLine
<1>5. ASSUME NEW k \in DOMAIN more, NEW m \in DOMAIN more, k < m
      PROVE  Before(log, more[k], more[m])
  <2>1. k \in DOMAIN batches /\ more[k] = batches[k]
    BY <1>1, <1>5
  <2>2. CASE m \in DOMAIN batches
    BY <1>1, <1>5, <2>1, <2>2 DEF InLine
  <2>3. CASE m = Len(batches) + 1
    BY <1>1, <2>1, <2>3 DEF InLine
  <2>. QED  BY <1>1, <2>2, <2>3
<1>6. InLine(log, out, more, <<>>)
  BY <1>3, <1>4, <1>5 DEF InLine
<1>. QED  BY <1>6 DEF more

(* The oldest batch reaches the file.                                      *)
LEMMA BatchIsWritten ==
    ASSUME NEW S, NEW log, NEW out \in Seq(S), NEW batches \in Seq(Seq(S)), batches # <<>>, NEW wait,
           InLine(log, out, batches, wait)
    PROVE  InLine(log, out \o Head(batches), Tail(batches), wait)
<1>. DEFINE first == Head(batches)  longer == out \o first  rest == Tail(batches)
<1>1. /\ Len(batches) \in Nat \ {0} /\ DOMAIN batches = 1..Len(batches)
      /\ DOMAIN rest = 1..(Len(batches) - 1)
      /\ \A k \in 1..(Len(batches) - 1) : rest[k] = batches[k + 1]
      /\ first = batches[1]
  BY LenProperties, HeadTailProperties, EmptySeq
<1>2. first \in Seq(S)
  BY <1>1, ElementOfSeq
<1>. HIDE DEF first
<1>3. /\ Len(out) \in Nat /\ Len(first) \in Nat
      /\ DOMAIN out = 1..Len(out) /\ DOMAIN first = 1..Len(first)
      /\ DOMAIN longer = 1..(Len(out) + Len(first))
      /\ \A i \in 1..(Len(out) + Len(first)) :
            longer[i] = IF i <= Len(out) THEN out[i] ELSE first[i - Len(out)]
      /\ Elements(longer) = Elements(out) \cup Elements(first)
  BY <1>2, LenProperties, ConcatProperties, ElementsOfLists
<1>. HIDE DEF longer, rest
<1>4. /\ LogHas(log, first) /\ Ordered(log, first) /\ Before(log, out, first)
      /\ Before(log, first, wait)
      /\ \A k \in DOMAIN rest : /\ k + 1 \in DOMAIN batches /\ k \in Int /\ rest[k] = batches[k + 1]
                                /\ Before(log, first, rest[k])
  <2>1. 1 \in DOMAIN batches
    BY <1>1
  <2>2. ASSUME NEW k \in DOMAIN rest
        PROVE  /\ k + 1 \in DOMAIN batches /\ k \in Int /\ rest[k] = batches[k + 1]
               /\ 1 < k + 1
    BY <1>1
  <2>. QED  BY <1>1, <2>1, <2>2 DEF InLine
<1>5. ASSUME NEW i \in DOMAIN longer
      PROVE  \/ i \in DOMAIN out /\ longer[i] = out[i] /\ i <= Len(out)
             \/ i - Len(out) \in DOMAIN first /\ longer[i] = first[i - Len(out)] /\ ~(i <= Len(out))
  <2>1. CASE i <= Len(out)
    BY <1>3, <2>1
  <2>2. CASE ~(i <= Len(out))
    <3>1. i - Len(out) \in 1..Len(first)
      BY <1>3, <2>2
    <3>. QED  BY <1>3, <2>2, <3>1
  <2>. QED  BY <2>1, <2>2
<1>6. Ordered(log, longer)
  <2>1. ASSUME NEW i \in DOMAIN longer, NEW j \in DOMAIN longer, i < j
        PROVE  Earlier(log, longer[i], longer[j])
    <3>1. i \in Int /\ j \in Int
      BY <1>3
    <3>2. CASE i <= Len(out) /\ j <= Len(out)
      BY <1>5, <2>1, <3>2 DEF InLine, Ordered
    <3>3. CASE i <= Len(out) /\ ~(j <= Len(out))
      BY <1>4, <1>5, <3>3 DEF Before
    <3>4. CASE ~(i <= Len(out))
      <4>1. ~(j <= Len(out)) /\ i - Len(out) < j - Len(out)
        BY <1>3, <2>1, <3>1, <3>4
      <4>. QED  BY <1>4, <1>5, <3>4, <4>1 DEF Ordered
    <3>. QED  BY <3>2, <3>3, <3>4
  <2>. QED  BY <2>1 DEF Ordered
<1>7. ASSUME NEW t, Before(log, out, t), Before(log, first, t)
      PROVE  Before(log, longer, t)
  BY <1>5, <1>7 DEF Before
<1>8. LogHas(log, longer)
  BY <1>3, <1>4 DEF InLine, LogHas
<1>9. Before(log, longer, wait) /\ \A k \in DOMAIN rest : Before(log, longer, rest[k])
  BY <1>4, <1>7 DEF InLine
<1>10. ASSUME NEW k \in DOMAIN rest, NEW m \in DOMAIN rest, k < m
       PROVE  Before(log, rest[k], rest[m])
  <2>1. k + 1 < m + 1
    BY <1>4, <1>10
  <2>. QED  BY <1>4, <2>1 DEF InLine
<1>11. InLine(log, longer, rest, wait)
  BY <1>4, <1>6, <1>8, <1>9, <1>10 DEF InLine
<1>. QED  BY <1>11 DEF first, longer, rest

LEMMA BatchesAreLost ==
    ASSUME NEW log, NEW out, NEW batches, NEW wait, InLine(log, out, batches, wait)
    PROVE  InLine(log, out, <<>>, wait)
<1>1. DOMAIN <<>> = {}
  OBVIOUS
<1>. QED  BY <1>1 DEF InLine

-----------------------------------------------------------------------------
(* The chain of flushes grows at its end.                                  *)
LEMMA ChainGrows ==
    ASSUME chain \in Seq({"flush", "rotate", "stop"}), NEW kind \in {"flush", "rotate", "stop"},
           chain' = Append(chain, kind), UNCHANGED writing, LogFlushOK
    PROVE  /\ chain' \in Seq({"flush", "rotate", "stop"}) /\ chain' # <<>>
           /\ Flushing' => Flushing /\ Len(chain') > 1 /\ Head(chain') = Head(chain)
           /\ kind # "stop" /\ (\A i \in DOMAIN chain : chain[i] # "stop")
                 => \A i \in DOMAIN chain' : chain'[i] # "stop"
<1>. DEFINE S == {"flush", "rotate", "stop"}
<1>1. /\ Len(chain) \in Nat /\ Len(chain') = Len(chain) + 1
      /\ DOMAIN chain = 1..Len(chain) /\ DOMAIN chain' = 1..(Len(chain) + 1)
      /\ \A i \in 1..Len(chain) : chain'[i] = chain[i]
      /\ chain'[Len(chain) + 1] = kind /\ chain' \in Seq(S) /\ chain' # <<>>
  BY LenProperties, AppendProperties
<1>2. ASSUME Flushing' PROVE Flushing /\ Len(chain') > 1 /\ Head(chain') = Head(chain)
  <2>1. Flushing /\ chain # <<>>
    BY <1>2 DEF Flushing, LogFlushOK, Idle
  <2>2. Len(chain) >= 1
    BY <1>1, <2>1, EmptySeq
  <2>3. Head(chain) = chain[1] /\ Head(chain') = chain'[1]
    BY <1>1, <2>1, HeadTailProperties
  <2>4. 1 \in 1..Len(chain) /\ Len(chain') > 1
    BY <1>1, <2>2
  <2>. QED  BY <1>1, <2>1, <2>3, <2>4
<1>3. ASSUME kind # "stop", \A i \in DOMAIN chain : chain[i] # "stop"
      PROVE  \A i \in DOMAIN chain' : chain'[i] # "stop"
  <2>1. ASSUME NEW i \in DOMAIN chain' PROVE chain'[i] # "stop"
    <3>1. i \in 1..Len(chain) \/ i = Len(chain) + 1
      BY <1>1
    <3>. QED  BY <1>1, <1>3, <3>1
  <2>. QED  BY <2>1
<1>. QED  BY <1>1, <1>2, <1>3

LEMMA TwoStreams ==
    ASSUME NEW S, NEW a \in S, NEW b \in S
    PROVE  LET both == [combined |-> a, error |-> b]
           IN  both \in [Streams -> S] /\ both["combined"] = a /\ both["error"] = b
BY DEF Streams

(* A flush leaves the chain.                                               *)
LEMMA ChainShrinks ==
    ASSUME chain \in Seq({"flush", "rotate", "stop"}), chain # <<>>, Follow(Head(chain)), TypeOK
    PROVE  /\ chain' \in Seq({"flush", "rotate", "stop"}) /\ Len(chain') = Len(chain) - 1
           /\ Len(chain) > 1 => chain' # <<>>
           /\ (\A i \in DOMAIN chain : chain[i] # "stop") => \A i \in DOMAIN chain' : chain'[i] # "stop"
           /\ stream' \in [Streams -> {"open", "broken", "ended"}]
           /\ phase' \in {"running", "stopping", "ended", "exited"}
           /\ phase' = IF Head(chain) = "stop" THEN "ended" ELSE phase
<1>. DEFINE S == {"flush", "rotate", "stop"}
<1>1. /\ Len(chain) \in Nat \ {0} /\ chain' \in Seq(S) /\ Len(chain') = Len(chain) - 1
      /\ DOMAIN chain = 1..Len(chain) /\ DOMAIN chain' = 1..(Len(chain) - 1)
      /\ \A i \in 1..(Len(chain) - 1) : chain'[i] = chain[i + 1]
      /\ Head(chain) \in S
  BY LenProperties, HeadTailProperties, EmptySeq DEF Follow
<1>2. Len(chain) > 1 => chain' # <<>>
  BY <1>1, EmptySeq
<1>3. ASSUME \A i \in DOMAIN chain : chain[i] # "stop", NEW i \in DOMAIN chain'
      PROVE  chain'[i] # "stop"
  <2>1. i + 1 \in 1..Len(chain)
    BY <1>1
  <2>. QED  BY <1>1, <1>3, <2>1
<1>4. stream' \in [Streams -> {"open", "broken", "ended"}]
  <2>1. CASE Head(chain) = "flush"
    BY <2>1 DEF Follow, TypeOK
  <2>2. CASE Head(chain) = "rotate"
    BY <2>2 DEF Follow, TypeOK
  <2>3. CASE Head(chain) = "stop"
    BY <2>3 DEF Follow, TypeOK
  <2>. QED  BY <1>1, <2>1, <2>2, <2>3
<1>5. /\ phase' \in {"running", "stopping", "ended", "exited"}
      /\ phase' = IF Head(chain) = "stop" THEN "ended" ELSE phase
  BY DEF Follow, TypeOK
<1>. QED  BY <1>1, <1>2, <1>3, <1>4, <1>5

LEMMA QueueBegins == Init => QueueInv
<1>. SUFFICES ASSUME Init PROVE QueueInv
  OBVIOUS
<1>1. DOMAIN <<>> = {} /\ Elements(<<>>) = {} /\ Len(<<>>) = 0
  BY ElementsOfLists, EmptySeq
<1>2. TypeOK
  <2>1. <<>> \in Seq(Lines) /\ <<>> \in Seq(ErrorLines) /\ <<>> \in Seq({"flush", "rotate", "stop"})
        /\ <<>> \in Seq(Seq(Lines))
    BY EmptySeq
  <2>2. Idle \in [Streams -> Seq(Lines)]
    BY <2>1, TwoStreams DEF Idle
  <2>3. /\ stream \in [Streams -> {"open", "broken", "ended"}]
        /\ buffer \in [Streams -> Seq(Seq(Lines))] /\ file \in [Streams -> Seq(Lines)]
    BY <2>1 DEF Init
  <2>4. faults \in 0..MaxFaults /\ rotations \in 0..MaxRotations
    BY LogAssumption DEF Init
  <2>. QED  BY <2>1, <2>2, <2>3, <2>4 DEF Init, TypeOK
<1>3. LogFlushOK /\ TimerOK /\ StopOnce /\ DueOK /\ QueueIsWatched
  BY <1>1 DEF Init, LogFlushOK, TimerOK, StopOnce, DueOK, QueueIsWatched, Flushing, Idle, Streams
<1>4. ErrorLinesSurvive /\ MemoryIsBounded
  BY <1>1, LogAssumption DEF Init, ErrorLinesSurvive, MemoryIsBounded
<1>5. \A x \in Streams : InLine(logged, file[x], buffer[x], Waits(x))
  BY <1>1 DEF Init, InLine, Waits, LogHas, Ordered, Before
<1>. QED  BY <1>2, <1>3, <1>4, <1>5 DEF QueueInv

(* enqueueToMemory                                                         *)
LEMMA LineIsQueued ==
    ASSUME QueueInv, NEW line \in Lines, Enqueue(line)
    PROVE  QueueInv'
<1>. DEFINE kept == IF MakesRoom THEN Tail(combined) ELSE combined
<1>1. /\ TypeOK /\ MemoryIsBounded /\ LogFlushOK /\ TimerOK /\ StopOnce /\ DueOK
      /\ QueueIsWatched /\ ErrorLinesSurvive
      /\ \A x \in Streams : InLine(logged, file[x], buffer[x], Waits(x))
  BY DEF QueueInv
<1>2. /\ combined \in Seq(Lines) /\ errors \in Seq(ErrorLines) /\ errors \in Seq(Lines)
      /\ logged \in Seq(Lines) /\ line \notin Elements(logged)
      /\ Len(combined) \in Nat /\ Len(errors) \in Nat
      /\ chain \in Seq({"flush", "rotate", "stop"})
  <2>1. errors \in Seq(ErrorLines) /\ ErrorLines \subseteq Lines
    BY <1>1, LogAssumption DEF TypeOK
  <2>2. errors \in Seq(Lines)
    BY <2>1
  <2>. QED  BY <1>1, <2>1, <2>2, LenProperties DEF TypeOK, Enqueue
<1>3. MakesRoom => combined # <<>> /\ Len(Tail(combined)) = Len(combined) - 1
                   /\ Tail(combined) \in Seq(Lines)
  <2>1. MakesRoom => Len(combined) > 0
    BY <1>2 DEF MakesRoom
  <2>. QED  BY <1>2, <2>1, EmptySeq, HeadTailProperties
<1>4. /\ kept \in Seq(Lines) /\ combined' = Append(kept, line)
      /\ errors' = (IF line \in ErrorLines THEN Append(errors, line) ELSE errors)
      /\ logged' = Append(logged, line)
      /\ dropped \subseteq dropped' /\ dropped' \subseteq dropped \cup Elements(combined)
      /\ Elements(combined) \subseteq Elements(kept) \cup dropped'
      /\ UNCHANGED <<flushVars, streamVars, console, phase, due, boundVars>>
      /\ phase # "exited"
  <2>1. CASE MakesRoom
    <3>1. Elements(combined) = {Head(combined)} \cup Elements(Tail(combined))
      BY <1>2, <1>3, <2>1, ElementsOfLists
    <3>. QED  BY <1>3, <2>1, <3>1 DEF Enqueue, Push
  <2>2. CASE ~MakesRoom
    BY <1>2, <2>2 DEF Enqueue, Push
  <2>. QED  BY <2>1, <2>2
<1>5. \/ chain' = Append(chain, "flush") /\ timer' = timer
      \/ chain' = chain /\ timer' = IF timer = "none" THEN "armed" ELSE timer
  BY DEF Enqueue, Schedule
<1>6. combined' # <<>> /\ combined' \in Seq(Lines)
      /\ Elements(combined') = Elements(kept) \cup {line}
  <2>. HIDE DEF kept
  <2>. QED  BY <1>4, AppendProperties, ElementsOfLists
<1>7. errors' \in Seq(ErrorLines) /\ Elements(errors) \subseteq Elements(errors')
      /\ (line \in ErrorLines => line \in Elements(errors'))
  BY <1>2, <1>4, ElementsOfLists
<1>8. Elements(logged') = Elements(logged) \cup {line} /\ logged' \in Seq(Lines)
  BY <1>2, <1>4, LogGrows
<1>9. /\ chain' \in Seq({"flush", "rotate", "stop"})
      /\ chain # <<>> => chain' # <<>> /\ Head(chain') = Head(chain) /\ Len(chain') >= Len(chain)
      /\ StopOnce'
  <2>1. CASE chain' = chain
    <3>1. Len(chain) \in Nat /\ Len(chain) >= Len(chain)
      BY <1>2, LenProperties
    <3>2. UNCHANGED <<chain, phase>>
      BY <1>4, <2>1
    <3>3. StopOnce'
      BY <1>1, <3>2 DEF StopOnce
    <3>. QED  BY <1>2, <3>1, <3>2, <3>3
  <2>2. CASE chain' = Append(chain, "flush")
    <3>1. /\ Len(chain) \in Nat /\ Len(chain') = Len(chain) + 1
          /\ chain # <<>> => Head(chain') = Head(chain)
      BY <1>2, <2>2
    <3>2. UNCHANGED writing
      BY <1>4 DEF flushVars
    <3>3. /\ chain' \in Seq({"flush", "rotate", "stop"}) /\ chain' # <<>>
          /\ (\A i \in DOMAIN chain : chain[i] # "stop")
                => \A i \in DOMAIN chain' : chain'[i] # "stop"
      BY <1>1, <1>2, <2>2, <3>2, ChainGrows
    <3>4. StopOnce'
      BY <1>1, <1>4, <3>3 DEF StopOnce
    <3>5. Len(chain') >= Len(chain)
      BY <3>1
    <3>. QED  BY <3>1, <3>3, <3>4, <3>5
  <2>. QED  BY <1>5, <2>1, <2>2
<1>. HIDE DEF kept
<1>10. TypeOK'
  <2>1. dropped' \in SUBSET Lines
    BY <1>1, <1>2, <1>4, ElementsOfLists DEF TypeOK
  <2>2. timer' \in {"none", "armed", "fired"}
    BY <1>1, <1>5 DEF TypeOK
  <2>. QED  BY <1>1, <1>4, <1>6, <1>7, <1>8, <1>9, <2>1, <2>2
            DEF TypeOK, flushVars, streamVars, boundVars
<1>11. Flushing' = Flushing
  BY <1>4 DEF Flushing, flushVars, Idle
<1>12. LogFlushOK'
  BY <1>1, <1>4, <1>9, <1>11 DEF LogFlushOK, flushVars, streamVars
<1>13. TimerOK'
  BY <1>6 DEF TimerOK
<1>14. QueueIsWatched'
  <2>1. CASE chain' = Append(chain, "flush")
    <3>1. chain' # <<>> /\ (Flushing' => Len(chain') > 1)
      BY <1>1, <1>2, <1>4, <2>1, ChainGrows DEF flushVars
    <3>. QED  BY <3>1 DEF QueueIsWatched
  <2>2. CASE chain' = chain /\ timer' = IF timer = "none" THEN "armed" ELSE timer
    <3>1. CASE timer \in {"none", "armed"}
      BY <2>2, <3>1 DEF QueueIsWatched
    <3>2. CASE timer = "fired"
      <4>1. combined # <<>>
        BY <1>1, <3>2 DEF TimerOK
      <4>2. chain # <<>> /\ (Flushing => Len(chain) > 1)
        BY <1>1, <1>4, <3>2, <4>1 DEF QueueIsWatched
      <4>. QED  BY <1>11, <2>2, <4>2 DEF QueueIsWatched
    <3>. QED  BY <1>1, <3>1, <3>2 DEF TypeOK
  <2>. QED  BY <1>5, <2>1, <2>2
<1>15. DueOK'
  <2>1. ASSUME NEW l \in due'
        PROVE  \/ Out(l)'
               \/ /\ phase' = "stopping"
                  /\ \/ l \in Elements(writing'["combined"])
                     \/ l \in Elements(combined') /\ (Flushing' => Head(chain') # "stop")
    <3>1. \/ Out(l)
          \/ /\ phase = "stopping"
             /\ \/ l \in Elements(writing["combined"])
                \/ l \in Elements(combined) /\ (Flushing => Head(chain) # "stop")
      BY <1>1, <1>4 DEF DueOK
    <3>2. UNCHANGED <<writing, phase, file, console>>
      BY <1>4 DEF flushVars, streamVars
    <3>3. Out(l) => Out(l)'
      BY <1>4, <3>2 DEF Out
    <3>4. l \in Elements(combined) => l \in Elements(combined') \/ Out(l)'
      BY <1>4, <1>6 DEF Out
    <3>5. Flushing => chain # <<>>
      BY <1>1 DEF LogFlushOK
    <3>. QED  BY <1>9, <1>11, <3>1, <3>2, <3>3, <3>4, <3>5
  <2>. QED  BY <2>1 DEF DueOK
<1>16. ErrorLinesSurvive'
  <2>1. UNCHANGED <<writing, file, console>>
    BY <1>4 DEF flushVars, streamVars
  <2>. QED  BY <1>1, <1>7, <1>8, <2>1 DEF ErrorLinesSurvive
<1>17. MemoryIsBounded'
  <2>1. Len(combined') = Len(kept) + 1 /\ Len(errors') \in Nat /\ Len(errors') >= Len(errors)
    BY <1>2, <1>4, AppendProperties, LenProperties
  <2>2. CASE MakesRoom
    <3>1. Len(kept) = Len(combined) - 1
      BY <1>3, <2>2 DEF kept
    <3>. QED  BY <1>1, <1>2, <2>1, <3>1, LogAssumption DEF MemoryIsBounded
  <2>3. CASE ~MakesRoom
    <3>1. kept = combined
      BY <2>3 DEF kept
    <3>2. Len(combined) + Len(errors) < MaxQueueSize \/ Len(combined) <= Len(errors)
      BY <1>2, <2>3, LogAssumption DEF MakesRoom, Full
    <3>. QED  BY <1>2, <2>1, <3>1, <3>2, LogAssumption DEF MemoryIsBounded
  <2>. QED  BY <2>2, <2>3
<1>18. ASSUME NEW x \in Streams
       PROVE  InLine(logged', file'[x], buffer'[x], Waits(x)')
  <2>1. UNCHANGED <<file, buffer>> /\ x \in {"combined", "error"}
    BY <1>4 DEF streamVars, Streams
  <2>2. CASE x = "combined"
    <3>1. InLine(logged, file[x], buffer[x], combined)
      BY <1>1, <2>2 DEF Waits, Streams
    <3>2. InLine(logged, file[x], buffer[x], kept)
      BY <1>2, <1>3, <3>1, OldestIsDropped DEF kept
    <3>3. InLine(logged', file[x], buffer[x], combined')
      BY <1>2, <1>4, <3>2, NewLineIsLast
    <3>. QED  BY <2>1, <2>2, <3>3 DEF Waits
  <2>3. CASE x = "error"
    <3>1. InLine(logged, file[x], buffer[x], errors)
      BY <1>1, <2>3 DEF Waits, Streams
    <3>2. InLine(logged', file[x], buffer[x], errors')
      BY <1>2, <1>4, <3>1, NewLineIsLast, LineStaysInLine
    <3>. QED  BY <2>1, <2>3, <3>2 DEF Waits
  <2>. QED  BY <2>1, <2>2, <2>3
<1>. QED  BY <1>9, <1>10, <1>12, <1>13, <1>14, <1>15, <1>16, <1>17, <1>18 DEF QueueInv

(* A flush is asked for.                                                   *)
LEMMA FlushIsAsked ==
    ASSUME QueueInv, NEW kind \in {"flush", "rotate", "stop"}, chain' = Append(chain, kind),
           UNCHANGED <<logged, combined, errors, dropped, flushVars, streamVars, console>>,
           timer' \in {"none", "armed", "fired"}, timer' # "none" => timer # "none",
           phase' \in {"running", "stopping", "ended", "exited"}, due' \subseteq Lines,
           faults' \in 0..MaxFaults, rotations' \in 0..MaxRotations,
           phase # "exited"
    PROVE  /\ TypeOK' /\ MemoryIsBounded' /\ LogFlushOK' /\ TimerOK'
           /\ QueueIsWatched' /\ ErrorLinesSurvive'
           /\ \A x \in Streams : InLine(logged', file'[x], buffer'[x], Waits(x)')
<1>1. /\ TypeOK /\ MemoryIsBounded /\ LogFlushOK /\ TimerOK
      /\ QueueIsWatched /\ ErrorLinesSurvive
      /\ \A x \in Streams : InLine(logged, file[x], buffer[x], Waits(x))
  BY DEF QueueInv
<1>2. UNCHANGED <<writing, awaited, failed, stream, buffer, file>>
  BY DEF flushVars, streamVars
<1>3. /\ chain' \in Seq({"flush", "rotate", "stop"}) /\ chain' # <<>>
      /\ Flushing' => Flushing /\ Len(chain') > 1
  BY <1>1, <1>2, ChainGrows DEF TypeOK
<1>4. TypeOK'
  BY <1>1, <1>2, <1>3 DEF TypeOK
<1>5. MemoryIsBounded'
  BY <1>1 DEF MemoryIsBounded
<1>6. LogFlushOK'
  <2>1. Flushing' = Flushing
    BY <1>2 DEF Flushing, Idle
  <2>. QED  BY <1>1, <1>2, <1>3, <2>1 DEF LogFlushOK
<1>7. TimerOK' /\ QueueIsWatched'
  BY <1>1, <1>3 DEF TimerOK, QueueIsWatched
<1>8. ErrorLinesSurvive'
  BY <1>1, <1>2 DEF ErrorLinesSurvive
<1>9. \A x \in Streams : InLine(logged', file'[x], buffer'[x], Waits(x)')
  BY <1>1, <1>2 DEF Waits
<1>. QED  BY <1>4, <1>5, <1>6, <1>7, <1>8, <1>9

(* The write timer, the hourly change of files                             *)
LEMMA TimerOrRotation ==
    ASSUME QueueInv, TimerFires \/ Rotate
    PROVE  QueueInv'
<1>1. PICK kind \in {"flush", "rotate"} :
         /\ chain' = Append(chain, kind)
         /\ timer' \in {"none", "armed", "fired"} /\ (timer' # "none" => timer # "none")
         /\ faults' \in 0..MaxFaults /\ rotations' \in 0..MaxRotations
  <2>1. TypeOK
    BY DEF QueueInv
  <2>2. CASE TimerFires
    BY <2>1, <2>2 DEF TimerFires, TypeOK, boundVars
  <2>3. CASE Rotate
    <3>1. rotations' \in 0..MaxRotations
      BY <2>1, <2>3, LogAssumption DEF Rotate, TypeOK
    <3>. QED  BY <2>1, <2>3, <3>1 DEF Rotate, TypeOK, queueVars
  <2>. QED  BY <2>2, <2>3
<1>2. /\ UNCHANGED <<logged, combined, errors, dropped, flushVars, streamVars, console, phase, due>>
      /\ phase # "exited"
  BY DEF TimerFires, Rotate, queueVars
<1>3. TypeOK /\ LogFlushOK /\ StopOnce /\ DueOK
  BY DEF QueueInv
<1>4. /\ phase' \in {"running", "stopping", "ended", "exited"} /\ due' \subseteq Lines
      /\ kind \in {"flush", "rotate", "stop"} /\ kind # "stop"
  BY <1>2, <1>3 DEF TypeOK
<1>5. /\ TypeOK' /\ MemoryIsBounded' /\ LogFlushOK' /\ TimerOK'
      /\ QueueIsWatched' /\ ErrorLinesSurvive'
      /\ \A x \in Streams : InLine(logged', file'[x], buffer'[x], Waits(x)')
  BY <1>1, <1>2, <1>4, FlushIsAsked
<1>6. UNCHANGED writing
  BY <1>2 DEF flushVars
<1>7. /\ Flushing' => Flushing /\ Head(chain') = Head(chain)
      /\ (\A i \in DOMAIN chain : chain[i] # "stop") => \A i \in DOMAIN chain' : chain'[i] # "stop"
  BY <1>1, <1>3, <1>4, <1>6, ChainGrows DEF TypeOK
<1>8. StopOnce'
  BY <1>2, <1>3, <1>7 DEF StopOnce
<1>9. DueOK'
  <2>1. UNCHANGED <<due, phase, writing, combined, file, console, dropped>>
    BY <1>2, <1>6 DEF streamVars
  <2>. QED  BY <1>3, <1>7, <2>1 DEF DueOK, Out
<1>. QED  BY <1>5, <1>8, <1>9 DEF QueueInv

(* onModuleDestroy: what is due waits, or is being written.                *)
LEMMA StopBegins ==
    ASSUME QueueInv, Stop
    PROVE  QueueInv'
<1>1. /\ chain' = Append(chain, "stop") /\ timer' = "none" /\ phase = "running"
      /\ phase' = "stopping"
      /\ due' = Elements(combined) \cup Elements(writing["combined"])
      /\ UNCHANGED <<logged, combined, errors, dropped, flushVars, streamVars, console, boundVars>>
  BY DEF Stop
<1>2. TypeOK /\ LogFlushOK /\ StopOnce
  BY DEF QueueInv
<1>3. due' \subseteq Lines
  <2>1. combined \in Seq(Lines) /\ writing["combined"] \in Seq(Lines)
    BY <1>2 DEF TypeOK, Streams
  <2>. QED  BY <1>1, <2>1, ElementsOfLists
<1>4. faults' \in 0..MaxFaults /\ rotations' \in 0..MaxRotations
  BY <1>1, <1>2 DEF boundVars, TypeOK
<1>5. /\ TypeOK' /\ MemoryIsBounded' /\ LogFlushOK' /\ TimerOK'
      /\ QueueIsWatched' /\ ErrorLinesSurvive'
      /\ \A x \in Streams : InLine(logged', file'[x], buffer'[x], Waits(x)')
  BY <1>1, <1>3, <1>4, FlushIsAsked
<1>6. UNCHANGED writing
  BY <1>1 DEF flushVars
<1>7. Flushing' => Flushing /\ Head(chain') = Head(chain)
  BY <1>1, <1>2, <1>6, ChainGrows DEF TypeOK
<1>8. StopOnce'
  BY <1>1 DEF StopOnce
<1>9. DueOK'
  <2>1. Flushing' => Head(chain') # "stop"
    <3>1. ASSUME Flushing' PROVE Head(chain') # "stop"
      <4>1. chain # <<>> /\ Head(chain') = Head(chain)
        BY <1>2, <1>7, <3>1 DEF LogFlushOK
      <4>2. Head(chain) = chain[1] /\ 1 \in DOMAIN chain
        BY <1>2, <4>1, HeadTailProperties, LenProperties, EmptySeq DEF TypeOK
      <4>. QED  BY <1>1, <1>2, <4>1, <4>2 DEF StopOnce
    <3>. QED  BY <3>1
  <2>2. combined' = combined
    BY <1>1
  <2>. QED  BY <1>1, <1>6, <2>1, <2>2 DEF DueOK
<1>. QED  BY <1>5, <1>8, <1>9 DEF QueueInv

(* What the end of a flush does, whatever was flushed.                     *)
LEMMA FlushIsOver ==
    ASSUME QueueInv, phase # "exited", chain # <<>>, Follow(Head(chain)),
           writing' = Idle, awaited' = {}, failed' = FALSE,
           UNCHANGED <<logged, queueVars, buffer, file, due, boundVars>>,
           console \subseteq console', console' \subseteq Lines,
           \A x \in Streams : Elements(writing[x]) \subseteq Elements(file[x]) \cup console',
           Flushing \/ combined = <<>>
    PROVE  QueueInv'
<1>1. /\ TypeOK /\ MemoryIsBounded /\ LogFlushOK /\ TimerOK /\ StopOnce /\ DueOK
      /\ QueueIsWatched /\ ErrorLinesSurvive
      /\ \A x \in Streams : InLine(logged, file[x], buffer[x], Waits(x))
  BY DEF QueueInv
<1>2. UNCHANGED <<logged, combined, errors, timer, dropped, buffer, file, due, faults, rotations>>
  BY DEF queueVars, boundVars
<1>3. /\ chain' \in Seq({"flush", "rotate", "stop"})
      /\ Len(chain) > 1 => chain' # <<>>
      /\ (\A i \in DOMAIN chain : chain[i] # "stop") => \A i \in DOMAIN chain' : chain'[i] # "stop"
      /\ stream' \in [Streams -> {"open", "broken", "ended"}]
      /\ phase' \in {"running", "stopping", "ended", "exited"}
      /\ phase' = IF Head(chain) = "stop" THEN "ended" ELSE phase
  BY <1>1, ChainShrinks DEF TypeOK
<1>4. Elements(<<>>) = {} /\ ~Flushing' /\ \A x \in Streams : writing'[x] = <<>>
  BY ElementsOfLists DEF Flushing, Idle, Streams
<1>5. TypeOK'
  <2>1. Idle \in [Streams -> Seq(Lines)]
    BY TwoStreams, EmptySeq DEF Idle
  <2>. QED  BY <1>1, <1>2, <1>3, <2>1 DEF TypeOK
<1>6. MemoryIsBounded' /\ TimerOK'
  BY <1>1, <1>2 DEF MemoryIsBounded, TimerOK
<1>7. LogFlushOK'
  BY <1>4 DEF LogFlushOK
<1>8. StopOnce'
  BY <1>1, <1>3 DEF StopOnce
<1>9. QueueIsWatched'
  BY <1>1, <1>2, <1>3, <1>4 DEF QueueIsWatched
<1>10. ErrorLinesSurvive'
  BY <1>1, <1>2 DEF ErrorLinesSurvive, Streams
<1>11. DueOK'
  <2>1. ASSUME NEW l \in due'
        PROVE  Out(l)' \/ (phase' = "stopping" /\ l \in Elements(combined'))
    <3>1. \/ Out(l)
          \/ /\ phase = "stopping"
             /\ \/ l \in Elements(writing["combined"])
                \/ l \in Elements(combined) /\ (Flushing => Head(chain) # "stop")
      BY <1>1, <1>2 DEF DueOK
    <3>2. Out(l) \/ l \in Elements(writing["combined"]) => Out(l)'
      BY <1>2 DEF Out, Streams
    <3>3. ASSUME phase = "stopping", l \in Elements(combined), Flushing => Head(chain) # "stop"
          PROVE  phase' = "stopping"
      BY <1>3, <1>4, <3>3
    <3>. QED  BY <1>2, <3>1, <3>2, <3>3
  <2>. QED  BY <1>4, <2>1 DEF DueOK
<1>12. \A x \in Streams : InLine(logged', file'[x], buffer'[x], Waits(x)')
  BY <1>1, <1>2 DEF Waits
<1>. QED  BY <1>5, <1>6, <1>7, <1>8, <1>9, <1>10, <1>11, <1>12 DEF QueueInv

(* doFlush, when there is nothing to write                                 *)
LEMMA NothingIsFlushed ==
    ASSUME QueueInv, FlushNothing
    PROVE  QueueInv'
<1>1. TypeOK /\ LogFlushOK
  BY DEF QueueInv
<1>2. writing' = Idle /\ awaited' = {} /\ failed' = FALSE /\ writing = Idle
  BY <1>1 DEF FlushNothing, Flushing, LogFlushOK, flushVars, TypeOK
<1>3. \A x \in Streams : Elements(writing[x]) = {}
  BY <1>2, ElementsOfLists DEF Idle, Streams
<1>4. console' = console /\ console' \subseteq Lines
  BY <1>1 DEF FlushNothing, TypeOK
<1>5. /\ phase # "exited" /\ chain # <<>> /\ Follow(Head(chain)) /\ combined = <<>>
      /\ UNCHANGED <<logged, queueVars, buffer, file, due, boundVars>>
  BY DEF FlushNothing
<1>. QED  BY <1>2, <1>3, <1>4, <1>5, FlushIsOver

(* doFlush, when its writes are over: the batch is on disk or printed      *)
LEMMA FlushReturns ==
    ASSUME QueueInv, FlushEnd
    PROVE  QueueInv'
<1>1. TypeOK /\ LogFlushOK
  BY DEF QueueInv
<1>2. /\ phase # "exited" /\ Flushing /\ Follow(Head(chain))
      /\ writing' = Idle /\ awaited' = {} /\ failed' = FALSE
      /\ UNCHANGED <<logged, queueVars, buffer, file, due, boundVars>>
  BY DEF FlushEnd
<1>3. chain # <<>>
  BY <1>1, <1>2 DEF LogFlushOK
<1>4. Elements(writing["combined"]) \subseteq Lines /\ Elements(writing["error"]) \subseteq Lines
  <2>1. writing["combined"] \in Seq(Lines) /\ writing["error"] \in Seq(Lines)
    BY <1>1 DEF TypeOK, Streams
  <2>. QED  BY <2>1, ElementsOfLists
<1>5. console \subseteq console' /\ console' \subseteq Lines
  BY <1>1, <1>4 DEF FlushEnd, TypeOK
<1>6. \A x \in Streams : Elements(writing[x]) \subseteq Elements(file[x]) \cup console'
  <2>1. CASE failed
    BY <2>1 DEF FlushEnd, Streams
  <2>2. CASE ~failed
    BY <1>1, <2>2 DEF FlushEnd, LogFlushOK
  <2>. QED  BY <2>1, <2>2
<1>. QED  BY <1>2, <1>3, <1>5, <1>6, FlushIsOver

(* The process ends, or nothing happens.                                   *)
LEMMA QueueRests ==
    ASSUME QueueInv, Exit \/ UNCHANGED vars
    PROVE  QueueInv'
<1>1. /\ TypeOK /\ MemoryIsBounded /\ LogFlushOK /\ TimerOK /\ StopOnce /\ DueOK
      /\ QueueIsWatched /\ ErrorLinesSurvive
      /\ \A x \in Streams : InLine(logged, file[x], buffer[x], Waits(x))
  BY DEF QueueInv
<1>2. /\ UNCHANGED <<logged, combined, errors, timer, dropped, chain, writing, awaited, failed,
                     stream, buffer, file, console, due, faults, rotations>>
      /\ phase' = phase \/ (phase = "ended" /\ phase' = "exited")
  BY DEF Exit, vars, queueVars, flushVars, streamVars, boundVars
<1>3. TypeOK' /\ MemoryIsBounded' /\ TimerOK' /\ StopOnce' /\ DueOK'
  BY <1>1, <1>2 DEF TypeOK, MemoryIsBounded, TimerOK, StopOnce, DueOK, Flushing, Idle, Out
<1>4. LogFlushOK' /\ QueueIsWatched'
  BY <1>1, <1>2 DEF LogFlushOK, QueueIsWatched, Flushing, Idle
<1>5. ErrorLinesSurvive'
  BY <1>1, <1>2 DEF ErrorLinesSurvive
<1>6. \A x \in Streams : InLine(logged', file'[x], buffer'[x], Waits(x)')
  BY <1>1, <1>2 DEF Waits
<1>. QED  BY <1>3, <1>4, <1>5, <1>6 DEF QueueInv

LEMMA NothingWaits ==
    ASSUME NEW log, NEW out, NEW batches, NEW wait, InLine(log, out, batches, wait)
    PROVE  InLine(log, out, batches, <<>>)
<1>1. DOMAIN <<>> = {} /\ Elements(<<>>) = {}
  BY ElementsOfLists
<1>. QED  BY <1>1 DEF InLine, LogHas, Ordered, Before

LEMMA LastOfList ==
    ASSUME NEW S, NEW s \in Seq(S), NEW e \in S
    PROVE  /\ LET longer == Append(s, e) IN longer # <<>> /\ longer[Len(longer)] = e
           /\ s # <<>> /\ Len(s) # 1 => LET rest == Tail(s)
                                      IN  rest # <<>> /\ rest[Len(rest)] = s[Len(s)]
<1>. DEFINE longer == Append(s, e)  rest == Tail(s)
<1>1. longer # <<>> /\ Len(longer) = Len(s) + 1 /\ longer[Len(s) + 1] = e
  BY AppendProperties
<1>2. longer # <<>> /\ longer[Len(longer)] = e
  <2>. HIDE DEF longer
  <2>. QED  BY <1>1
<1>3. ASSUME s # <<>>, Len(s) # 1
      PROVE  rest # <<>> /\ rest[Len(rest)] = s[Len(s)]
  <2>1. /\ Len(rest) = Len(s) - 1 /\ rest \in Seq(S)
        /\ \A i \in 1..Len(rest) : rest[i] = s[i + 1]
    BY <1>3, HeadTailProperties
  <2>0. Len(s) \in Nat /\ Len(s) > 1
    <3>1. Len(s) \in Nat \ {0}
      BY <1>3, EmptySeq
    <3>. QED  BY <1>3, <3>1
  <2>. HIDE DEF rest
  <2>2. Len(rest) \in 1..Len(rest) /\ Len(rest) + 1 = Len(s)
    BY <2>0, <2>1
  <2>3. rest[Len(rest)] = s[Len(s)]
    BY <2>1, <2>2
  <2>. QED  BY <2>0, <2>1, <2>3, EmptySeq
<1>. QED  BY <1>2, <1>3

(* doFlush takes what waits and begins to write it.                        *)
LEMMA FlushBegins ==
    ASSUME QueueInv, FlushStart
    PROVE  QueueInv'
<1>1. /\ TypeOK /\ MemoryIsBounded /\ LogFlushOK /\ TimerOK /\ StopOnce /\ DueOK
      /\ QueueIsWatched /\ ErrorLinesSurvive
      /\ \A x \in Streams : InLine(logged, file[x], buffer[x], Waits(x))
  BY DEF QueueInv
<1>2. /\ chain # <<>> /\ ~Flushing /\ (combined # <<>> \/ errors # <<>>)
      /\ combined' = <<>> /\ errors' = <<>> /\ timer' = "none"
      /\ UNCHANGED <<logged, dropped, chain, stream, file, console, phase, due, boundVars>>
      /\ writing' = [combined |-> combined, error |-> errors]
  BY DEF FlushStart
<1>3. writing = Idle /\ awaited = {} /\ ~failed
  BY <1>1 DEF FlushStart, LogFlushOK, Flushing
<1>4. combined \in Seq(Lines) /\ errors \in Seq(Lines) /\ \A x \in Streams : Waits(x) \in Seq(Lines)
  <2>1. combined \in Seq(Lines) /\ errors \in Seq(ErrorLines) /\ ErrorLines \subseteq Lines
    BY <1>1, LogAssumption DEF TypeOK
  <2>2. errors \in Seq(Lines)
    BY <2>1
  <2>. QED  BY <2>1, <2>2 DEF Waits
<1>5. /\ writing' \in [Streams -> Seq(Lines)]
      /\ writing'["combined"] = combined /\ writing'["error"] = errors
      /\ \A x \in Streams : writing'[x] = Waits(x)
  <2>1. /\ writing' \in [Streams -> Seq(Lines)]
        /\ writing'["combined"] = combined /\ writing'["error"] = errors
    BY <1>2, <1>4, TwoStreams
  <2>. QED  BY <2>1 DEF Streams, Waits
<1>6. Elements(<<>>) = {} /\ Len(<<>>) = 0
  BY ElementsOfLists, EmptySeq
<1>. DEFINE batch  == [combined |-> combined, error |-> errors]
            needed == {x \in Streams : batch[x] # <<>>}
            open   == {x \in needed : stream[x] = "open"}
<1>7. /\ awaited' = open /\ failed' = (open # needed)
      /\ buffer' = [x \in Streams |-> IF x \in open THEN Append(buffer[x], batch[x]) ELSE buffer[x]]
  BY DEF FlushStart
<1>8. \A x \in Streams : batch[x] = Waits(x)
  BY <1>2, <1>5
<1>. HIDE DEF batch
<1>9. /\ awaited' \subseteq Streams /\ failed' \in BOOLEAN
      /\ \A x \in Streams :
            /\ buffer'[x] = IF x \in awaited' THEN Append(buffer[x], Waits(x)) ELSE buffer[x]
            /\ x \in awaited' \/ failed' \/ Waits(x) = <<>>
  BY <1>7, <1>8
<1>10. buffer' \in [Streams -> Seq(Seq(Lines))]
  <2>1. \A x \in Streams : buffer[x] \in Seq(Seq(Lines)) /\ batch[x] \in Seq(Lines)
    BY <1>1, <1>4, <1>8 DEF TypeOK
  <2>2. ASSUME NEW x \in Streams
        PROVE  (IF x \in open THEN Append(buffer[x], batch[x]) ELSE buffer[x]) \in Seq(Seq(Lines))
    <3>. HIDE DEF open
    <3>. QED  BY <2>1, AppendProperties
  <2>. QED  BY <1>7, <2>2
<1>11. TypeOK'
  BY <1>1, <1>2, <1>5, <1>9, <1>10, EmptySeq DEF TypeOK, boundVars
<1>12. MemoryIsBounded' /\ TimerOK' /\ QueueIsWatched' /\ StopOnce'
  BY <1>1, <1>2, <1>6, LogAssumption DEF MemoryIsBounded, TimerOK, QueueIsWatched, StopOnce
<1>13. LogFlushOK'
  <2>1. Flushing'
    <3>1. Idle["combined"] = <<>> /\ Idle["error"] = <<>>
      BY DEF Idle
    <3>2. writing'["combined"] # <<>> \/ writing'["error"] # <<>>
      BY <1>5 DEF FlushStart
    <3>. QED  BY <3>1, <3>2 DEF Flushing, Idle
  <2>2. ASSUME NEW x \in awaited'
        PROVE  buffer'[x] # <<>> /\ buffer'[x][Len(buffer'[x])] = writing'[x]
    <3>1. /\ buffer'[x] = Append(buffer[x], Waits(x)) /\ writing'[x] = Waits(x)
          /\ buffer[x] \in Seq(Seq(Lines)) /\ Waits(x) \in Seq(Lines)
      BY <1>1, <1>4, <1>5, <1>9 DEF TypeOK
    <3>. QED  BY <3>1, LastOfList
  <2>3. ASSUME NEW x \in Streams, x \notin awaited', ~failed'
        PROVE  Elements(writing'[x]) \subseteq Elements(file'[x])
    BY <1>5, <1>6, <1>9, <2>3
  <2>. QED  BY <1>2, <2>1, <2>2, <2>3 DEF LogFlushOK
<1>14. DueOK'
  <2>1. Elements(writing["combined"]) = {}
    BY <1>3, <1>6 DEF Idle
  <2>2. UNCHANGED <<due, phase, file, console, dropped>>
    BY <1>2
  <2>. QED  BY <1>1, <1>5, <2>1, <2>2 DEF DueOK, Out
<1>15. ErrorLinesSurvive'
  <2>1. Elements(writing["error"]) = {}
    BY <1>3, <1>6 DEF Idle
  <2>. QED  BY <1>1, <1>2, <1>5, <2>1 DEF ErrorLinesSurvive
<1>16. ASSUME NEW x \in Streams
       PROVE  InLine(logged', file'[x], buffer'[x], Waits(x)')
  <2>1. /\ Waits(x)' = <<>> /\ UNCHANGED <<logged, file>>
        /\ InLine(logged, file[x], buffer[x], Waits(x))
        /\ buffer[x] \in Seq(Seq(Lines)) /\ Waits(x) \in Seq(Lines)
    BY <1>1, <1>2, <1>4 DEF Waits, TypeOK
  <2>2. CASE x \in awaited'
    <3>1. InLine(logged, file[x], Append(buffer[x], Waits(x)), <<>>)
      BY <2>1, BatchIsTaken
    <3>. QED  BY <1>9, <2>1, <2>2, <3>1
  <2>3. CASE x \notin awaited'
    <3>1. InLine(logged, file[x], buffer[x], <<>>)
      BY <2>1, NothingWaits
    <3>. QED  BY <1>9, <2>1, <2>3, <3>1
  <2>. QED  BY <2>2, <2>3
<1>. QED  BY <1>11, <1>12, <1>13, <1>14, <1>15, <1>16 DEF QueueInv

(* A batch reaches the disk.                                               *)
LEMMA BatchReachesDisk ==
    ASSUME QueueInv, NEW x \in Streams, WriteDone(x)
    PROVE  QueueInv'
<1>1. /\ TypeOK /\ MemoryIsBounded /\ LogFlushOK /\ TimerOK /\ StopOnce /\ DueOK
      /\ QueueIsWatched /\ ErrorLinesSurvive
      /\ \A y \in Streams : InLine(logged, file[y], buffer[y], Waits(y))
  BY DEF QueueInv
<1>. DEFINE first == Head(buffer[x])  rest == Tail(buffer[x])
<1>2. /\ buffer[x] # <<>> /\ buffer[x] \in Seq(Seq(Lines)) /\ file[x] \in Seq(Lines)
      /\ \A y \in Streams : /\ file'[y] = IF y = x THEN file[x] \o first ELSE file[y]
                            /\ buffer'[y] = IF y = x THEN rest ELSE buffer[y]
      /\ awaited' = IF Len(buffer[x]) = 1 THEN awaited \ {x} ELSE awaited
      /\ UNCHANGED <<logged, combined, errors, timer, dropped, chain, writing, failed, stream,
                     console, phase, due, faults, rotations>>
  BY <1>1 DEF WriteDone, TypeOK, queueVars, boundVars
<1>3. /\ Len(buffer[x]) \in Nat \ {0} /\ first \in Seq(Lines) /\ rest \in Seq(Seq(Lines))
      /\ first = buffer[x][1] /\ Len(rest) = Len(buffer[x]) - 1
      /\ \A k \in 1..(Len(buffer[x]) - 1) : rest[k] = buffer[x][k + 1]
  BY <1>2, LenProperties, HeadTailProperties, EmptySeq
<1>4. /\ file[x] \o first \in Seq(Lines)
      /\ Elements(file[x] \o first) = Elements(file[x]) \cup Elements(first)
  BY <1>2, <1>3, ConcatProperties, ElementsOfLists
<1>5. TypeOK'
  <2>1. file' \in [Streams -> Seq(Lines)]
    BY <1>1, <1>2, <1>4 DEF WriteDone, TypeOK
  <2>2. buffer' \in [Streams -> Seq(Seq(Lines))]
    BY <1>1, <1>2, <1>3 DEF WriteDone, TypeOK
  <2>3. awaited' \in SUBSET Streams
    BY <1>1, <1>2 DEF TypeOK
  <2>. QED  BY <1>1, <1>2, <2>1, <2>2, <2>3 DEF TypeOK
<1>6. MemoryIsBounded' /\ TimerOK' /\ QueueIsWatched' /\ StopOnce'
  BY <1>1, <1>2 DEF MemoryIsBounded, TimerOK, QueueIsWatched, StopOnce, Flushing, Idle
<1>. HIDE DEF first, rest
<1>7. \A y \in Streams : Elements(file[y]) \subseteq Elements(file'[y])
  BY <1>2, <1>4
<1>8. LogFlushOK'
  <2>1. Flushing' = Flushing /\ awaited' \subseteq awaited
    BY <1>2 DEF Flushing, Idle
  <2>2. ASSUME NEW y \in awaited'
        PROVE  buffer'[y] # <<>> /\ buffer'[y][Len(buffer'[y])] = writing[y]
    <3>1. y \in Streams /\ y \in awaited /\ buffer[y] # <<>> /\ buffer[y][Len(buffer[y])] = writing[y]
      BY <1>1, <2>1 DEF LogFlushOK, TypeOK
    <3>2. CASE y = x
      <4>1. Len(buffer[x]) # 1
        BY <1>2, <3>2
      <4>2. rest # <<>> /\ rest[Len(rest)] = buffer[x][Len(buffer[x])]
        BY <1>2, <1>3, <4>1, LastOfList DEF rest
      <4>. QED  BY <1>2, <3>1, <3>2, <4>2
    <3>3. CASE y # x
      BY <1>2, <3>1, <3>3
    <3>. QED  BY <3>2, <3>3
  <2>3. ASSUME NEW y \in Streams, y \notin awaited', ~failed
        PROVE  Elements(writing[y]) \subseteq Elements(file'[y])
    <3>1. CASE y \in awaited
      <4>1. y = x /\ Len(buffer[x]) = 1
        BY <1>2, <2>3, <3>1
      <4>2. first = writing[x]
        BY <1>1, <1>3, <3>1, <4>1 DEF LogFlushOK
      <4>. QED  BY <1>2, <1>4, <4>1, <4>2
    <3>2. CASE y \notin awaited
      BY <1>1, <1>7, <2>3, <3>2 DEF LogFlushOK
    <3>. QED  BY <3>1, <3>2
  <2>. QED  BY <1>1, <1>2, <2>1, <2>2, <2>3 DEF LogFlushOK
<1>9. DueOK'
  <2>1. \A l : Out(l) => Out(l)'
    BY <1>2, <1>7 DEF Out, Streams
  <2>2. Flushing' = Flushing /\ UNCHANGED <<due, phase, writing, combined, chain>>
    BY <1>2 DEF Flushing, Idle
  <2>. QED  BY <1>1, <2>1, <2>2 DEF DueOK
<1>10. ErrorLinesSurvive'
  <2>1. Elements(file["error"]) \subseteq Elements(file'["error"])
    BY <1>7 DEF Streams
  <2>. QED  BY <1>1, <1>2, <2>1 DEF ErrorLinesSurvive
<1>11. ASSUME NEW y \in Streams
       PROVE  InLine(logged', file'[y], buffer'[y], Waits(y)')
  <2>1. InLine(logged, file[y], buffer[y], Waits(y)) /\ Waits(y)' = Waits(y)
    BY <1>1, <1>2 DEF Waits
  <2>2. CASE y = x
    <3>1. InLine(logged, file[x] \o Head(buffer[x]), Tail(buffer[x]), Waits(x))
      BY <1>2, <2>1, <2>2, BatchIsWritten
    <3>. QED  BY <1>2, <2>1, <2>2, <3>1 DEF first, rest
  <2>3. CASE y # x
    BY <1>2, <2>1, <2>3
  <2>. QED  BY <2>2, <2>3
<1>. QED  BY <1>5, <1>6, <1>8, <1>9, <1>10, <1>11 DEF QueueInv

(* A stream fails.                                                         *)
LEMMA StreamIsLost ==
    ASSUME QueueInv, NEW x \in Streams, StreamBreaks(x)
    PROVE  QueueInv'
<1>1. /\ TypeOK /\ MemoryIsBounded /\ LogFlushOK /\ TimerOK /\ StopOnce /\ DueOK
      /\ QueueIsWatched /\ ErrorLinesSurvive
      /\ \A y \in Streams : InLine(logged, file[y], buffer[y], Waits(y))
  BY DEF QueueInv
<1>2. /\ \A y \in Streams : buffer'[y] = IF y = x THEN <<>> ELSE buffer[y]
      /\ failed' = (failed \/ x \in awaited) /\ awaited' = awaited \ {x}
      /\ UNCHANGED <<logged, combined, errors, timer, dropped, chain, writing, file,
                     console, phase, due, rotations>>
  BY <1>1 DEF StreamBreaks, TypeOK, queueVars
<1>3. TypeOK'
  <2>1. faults' \in 0..MaxFaults
    BY <1>1, LogAssumption DEF StreamBreaks, TypeOK
  <2>2. buffer' \in [Streams -> Seq(Seq(Lines))] /\ stream' \in [Streams -> {"open", "broken", "ended"}]
    BY <1>1, EmptySeq DEF StreamBreaks, TypeOK
  <2>3. awaited' \in SUBSET Streams /\ failed' \in BOOLEAN
    BY <1>1, <1>2 DEF TypeOK
  <2>. QED  BY <1>1, <1>2, <2>1, <2>2, <2>3 DEF TypeOK
<1>4. MemoryIsBounded' /\ TimerOK' /\ QueueIsWatched' /\ StopOnce'
  BY <1>1, <1>2 DEF MemoryIsBounded, TimerOK, QueueIsWatched, StopOnce, Flushing, Idle
<1>5. Flushing' = Flushing
  BY <1>2 DEF Flushing, Idle
<1>6. LogFlushOK'
  <2>1. awaited \subseteq Streams
    BY <1>1 DEF TypeOK
  <2>. QED  BY <1>1, <1>2, <1>5, <2>1 DEF LogFlushOK
<1>7. DueOK'
  BY <1>1, <1>2, <1>5 DEF DueOK, Out
<1>8. ErrorLinesSurvive'
  BY <1>1, <1>2 DEF ErrorLinesSurvive
<1>9. ASSUME NEW y \in Streams
      PROVE  InLine(logged', file'[y], buffer'[y], Waits(y)')
  <2>1. InLine(logged, file[y], buffer[y], Waits(y)) /\ Waits(y)' = Waits(y)
    BY <1>1, <1>2 DEF Waits
  <2>2. InLine(logged, file[y], <<>>, Waits(y))
    BY <2>1, BatchesAreLost
  <2>. QED  BY <1>2, <2>1, <2>2
<1>. QED  BY <1>3, <1>4, <1>6, <1>7, <1>8, <1>9 DEF QueueInv

LEMMA QueueGoesOn ==
    ASSUME QueueInv, [Next]_vars
    PROVE  QueueInv'
<1>1. ASSUME NEW line \in Lines, Enqueue(line) PROVE QueueInv'
  BY <1>1, LineIsQueued
<1>2. ASSUME NEW x \in Streams, WriteDone(x) PROVE QueueInv'
  BY <1>2, BatchReachesDisk
<1>3. ASSUME NEW x \in Streams, StreamBreaks(x) PROVE QueueInv'
  BY <1>3, StreamIsLost
<1>4. CASE TimerFires \/ Rotate
  BY <1>4, TimerOrRotation
<1>5. CASE FlushNothing
  BY <1>5, NothingIsFlushed
<1>6. CASE FlushStart
  BY <1>6, FlushBegins
<1>7. CASE FlushEnd
  BY <1>7, FlushReturns
<1>8. CASE Stop
  BY <1>8, StopBegins
<1>9. CASE Exit \/ UNCHANGED vars
  BY <1>9, QueueRests
<1>. QED  BY <1>1, <1>2, <1>3, <1>4, <1>5, <1>6, <1>7, <1>8, <1>9 DEF Next

LEMMA QueueInvHolds == Spec => []QueueInv
<1>1. Init => QueueInv
  BY QueueBegins
<1>2. QueueInv /\ [Next]_vars => QueueInv'
  BY QueueGoesOn
<1>. QED  BY <1>1, <1>2, PTL DEF Spec

(* Whatever is dropped from a full queue, rotated, stopped or lost with a  *)
(* stream, an error line waits, is being written, is on disk or was        *)
(* printed; a line that waits has a timer or a flush to come; and what     *)
(* waited when onModuleDestroy was called is out when the streams end.     *)
THEOREM NoLineIsEverForgotten == Spec => []NoLineIsForgotten
<1>1. QueueInv => NoLineIsForgotten
  <2>1. QueueInv => StopFlushesAll
    BY DEF QueueInv, DueOK, StopFlushesAll
  <2>. QED  BY <2>1 DEF QueueInv, NoLineIsForgotten
<1>. QED  BY <1>1, QueueInvHolds, PTL

(* Both files hold lines in the order in which they were logged, and none  *)
(* twice, however the flushes, their batches in the streams' buffers and   *)
(* the failures of the streams follow each other.                          *)
THEOREM FilesAlwaysKeepTheOrder == Spec => []FilesKeepTheOrder
<1>1. QueueInv => FilesKeepTheOrder
  <2>1. SUFFICES ASSUME QueueInv, NEW x \in Streams,
                        NEW i \in DOMAIN file[x], NEW j \in DOMAIN file[x], i < j
                 PROVE  Position(file[x][i]) < Position(file[x][j])
    BY DEF FilesKeepTheOrder
  <2>2. LogHas(logged, file[x]) /\ Ordered(logged, file[x])
    BY <2>1 DEF QueueInv, InLine
  <2>3. Earlier(logged, file[x][i], file[x][j])
    BY <2>1, <2>2 DEF Ordered
  <2>4. ASSUME NEW k \in DOMAIN file[x]
        PROVE  /\ Position(file[x][k]) \in DOMAIN logged
               /\ logged[Position(file[x][k])] = file[x][k]
    <3>1. \E m \in DOMAIN logged : logged[m] = file[x][k]
      BY <2>2 DEF LogHas, Elements
    <3>. QED  BY <3>1 DEF Position
  <2>. QED  BY <2>3, <2>4 DEF Earlier
<1>. QED  BY <1>1, QueueInvHolds, PTL
-----------------------------------------------------------------------------

(* The archive job.                                                        *)
LEMMA ArchiveBegins == ArchiveInit => ArchiveInv
<1>. SUFFICES ASSUME ArchiveInit PROVE ArchiveInv
  OBVIOUS
<1>1. 0 \in LogFiles
  BY ArchiveAssumption DEF LogFiles
<1>2. JobOver = [pc |-> "over", todo |-> {}, file |-> NoFile]
  BY DEF JobOver, Asleep
<1>3. ArchiveTypeOK
  BY <1>1, <1>2 DEF ArchiveInit, ArchiveTypeOK, NoArchive
<1>4. \A f \in LogFiles : ~Archived(f)
  BY DEF ArchiveInit, Archived, NoArchive
<1>5. \A l \in Loggers : JobOK(jobs[l])
  BY <1>2 DEF ArchiveInit, JobOK
<1>6. LinesAreKept
  BY DEF ArchiveInit, LinesAreKept
<1>. QED  BY <1>3, <1>4, <1>5, <1>6 DEF ArchiveInv

(* What any step of a job has to keep, for the other jobs and the files.   *)
LEMMA JobsAgree ==
    ASSUME ArchiveInv, NEW l \in Loggers, day' = day,
           \A m \in Loggers \ {l} : jobs'[m] = jobs[m],
           \A f \in LogFiles : archives[f].holds = "whole" =>
              archives'[f].holds = "whole" \/ f \in overwritten' \/ TimeIsOver(f),
           overwritten \subseteq overwritten',
           JobOK(jobs[l])'
    PROVE  \A m \in Loggers : JobOK(jobs[m])'
<1>1. \A m \in Loggers : JobOK(jobs[m])
  BY DEF ArchiveInv
<1>2. ASSUME NEW m \in Loggers, m # l
      PROVE  JobOK(jobs[m])'
  BY <1>1 DEF JobOK, TimeIsOver
<1>. QED  BY <1>1, <1>2

(* The steps that only read.                                               *)
LEMMA JobLooks ==
    ASSUME ArchiveInv, NEW l \in Loggers,
           jobs' \in [Loggers -> ArchiveJobs], \A m \in Loggers \ {l} : jobs'[m] = jobs[m],
           JobOK(jobs[l])',
           UNCHANGED <<day, archives, overwritten>>,
           logs' \subseteq logs,
           \A f \in logs \ logs' : archives[f].holds = "whole" \/ f \in overwritten \/ TimeIsOver(f)
    PROVE  ArchiveInv'
<1>1. /\ ArchiveTypeOK /\ LinesAreKept
      /\ \A f \in LogFiles : Archived(f) => f + ArchiveAfter < archives[f].at
  BY DEF ArchiveInv
<1>3. \A m \in Loggers : JobOK(jobs[m])'
  BY JobsAgree
<1>4. ArchiveTypeOK'
  BY <1>1 DEF ArchiveTypeOK, ArchiveJobs
<1>5. (\A f \in LogFiles : Archived(f) => f + ArchiveAfter < archives[f].at)'
  BY <1>1 DEF Archived
<1>6. LinesAreKept'
  <2>1. ASSUME NEW f \in 0..day
        PROVE  \/ f \in logs' \/ archives[f].holds = "whole"
               \/ f \in overwritten
               \/ day > f + ArchiveAfter + CleanAfter
    <3>1. f \in logs \/ archives[f].holds = "whole" \/ f \in overwritten
             \/ day > f + ArchiveAfter + CleanAfter
      BY <1>1 DEF LinesAreKept
    <3>2. TimeIsOver(f) => day > f + ArchiveAfter + CleanAfter
      BY <1>1, ArchiveAssumption DEF TimeIsOver, ArchiveTypeOK, LogFiles
    <3>. QED  BY <3>1, <3>2
  <2>. QED  BY <2>1 DEF LinesAreKept
<1>. QED  BY <1>1, <1>3, <1>4, <1>5, <1>6 DEF ArchiveInv

(* The steps that write or delete the archive of a file.                   *)
LEMMA JobWrites ==
    ASSUME ArchiveInv, NEW l \in Loggers, NEW f \in LogFiles, NEW archive,
           jobs' \in [Loggers -> ArchiveJobs], \A m \in Loggers \ {l} : jobs'[m] = jobs[m],
           JobOK(jobs[l])',
           archives' = [archives EXCEPT ![f] = archive],
           archive \in [holds : {"none", "part", "whole"}, at : LogFiles],
           archive.holds = "none" \/ f + ArchiveAfter < archive.at,
           archives[f].holds = "whole" =>
              archive.holds = "whole" \/ f \in overwritten' \/ TimeIsOver(f),
           overwritten \subseteq overwritten', overwritten' \subseteq LogFiles,
           UNCHANGED <<day, logs>>
    PROVE  ArchiveInv'
<1>1. /\ ArchiveTypeOK /\ LinesAreKept
      /\ \A g \in LogFiles : Archived(g) => g + ArchiveAfter < archives[g].at
      /\ \A g \in LogFiles : archives'[g] = IF g = f THEN archive ELSE archives[g]
  BY DEF ArchiveInv, ArchiveTypeOK
<1>2. \A m \in Loggers : JobOK(jobs[m])'
  BY <1>1, JobsAgree
<1>3. ArchiveTypeOK'
  BY <1>1 DEF ArchiveTypeOK, ArchiveJobs
<1>4. (\A g \in LogFiles : Archived(g) => g + ArchiveAfter < archives[g].at)'
  BY <1>1 DEF Archived
<1>5. LinesAreKept'
  <2>1. ASSUME NEW g \in 0..day
        PROVE  \/ g \in logs \/ archives'[g].holds = "whole"
               \/ g \in overwritten'
               \/ day > g + ArchiveAfter + CleanAfter
    <3>1. g \in logs \/ archives[g].holds = "whole" \/ g \in overwritten
             \/ day > g + ArchiveAfter + CleanAfter
      BY <1>1 DEF LinesAreKept
    <3>2. TimeIsOver(g) => day > g + ArchiveAfter + CleanAfter
      BY <1>1, ArchiveAssumption DEF TimeIsOver, ArchiveTypeOK, LogFiles
    <3>3. g \in LogFiles
      BY <1>1, ArchiveAssumption DEF ArchiveTypeOK, LogFiles
    <3>. QED  BY <1>1, <3>1, <3>2, <3>3
  <2>. QED  BY <2>1 DEF LinesAreKept
<1>. QED  BY <1>2, <1>3, <1>4, <1>5 DEF ArchiveInv

LEMMA OneJobMoves ==
    ASSUME ArchiveTypeOK, NEW l \in Loggers, NEW job \in ArchiveJobs,
           jobs' = [jobs EXCEPT ![l] = job]
    PROVE  /\ jobs' \in [Loggers -> ArchiveJobs] /\ jobs'[l] = job
           /\ \A m \in Loggers \ {l} : jobs'[m] = jobs[m]
BY DEF ArchiveTypeOK, ArchiveJobs

LEMMA JobPasses ==
    ASSUME ArchiveTypeOK, NEW l \in Loggers,
           NEW pc \in {"archive", "open", "write", "unlink", "list"}, JobGoes(l, pc)
    PROVE  /\ jobs' \in [Loggers -> ArchiveJobs]
           /\ jobs'[l].pc = pc /\ jobs'[l].file = jobs[l].file
           /\ \A m \in Loggers \ {l} : jobs'[m] = jobs[m]
<1>. DEFINE job == [jobs[l] EXCEPT !.pc = pc]
<1>1. jobs[l] \in ArchiveJobs
  BY DEF ArchiveTypeOK, ArchiveJobs
<1>2. job \in ArchiveJobs /\ job.pc = pc /\ job.file = jobs[l].file
  BY <1>1 DEF ArchiveJobs
<1>3. jobs' = [jobs EXCEPT ![l] = job]
  BY DEF JobGoes
<1>. HIDE DEF job
<1>. QED  BY <1>2, <1>3, OneJobMoves

LEMMA NextJob ==
    ASSUME ArchiveTypeOK, NEW l \in Loggers, NEW pc \in {"archive", "clean"}, NextOf(l, pc)
    PROVE  /\ jobs' \in [Loggers -> ArchiveJobs]
           /\ JobOK(jobs[l])'
           /\ \A m \in Loggers \ {l} : jobs'[m] = jobs[m]
<1>. DEFINE job == [pc |-> pc, todo |-> jobs[l].todo \ {jobs[l].file}, file |-> NoFile]
<1>1. jobs[l] \in ArchiveJobs
  BY DEF ArchiveTypeOK, ArchiveJobs
<1>2. job \in ArchiveJobs /\ job.pc = pc
  BY <1>1 DEF ArchiveJobs
<1>3. jobs' = [jobs EXCEPT ![l] = job]
  BY DEF NextOf
<1>. HIDE DEF job
<1>4. /\ jobs' \in [Loggers -> ArchiveJobs] /\ jobs'[l].pc = pc
      /\ \A m \in Loggers \ {l} : jobs'[m] = jobs[m]
  BY <1>2, <1>3, OneJobMoves
<1>5. JobOK(jobs[l])'
  BY <1>4 DEF JobOK
<1>. QED  BY <1>4, <1>5

(* runArchiveAndClean and its two lists of files                           *)
LEMMA JobListsFiles ==
    ASSUME ArchiveInv, NEW l \in Loggers, RunArchiveAndClean(l) \/ ListArchives(l)
    PROVE  ArchiveInv'
<1>1. ArchiveTypeOK /\ UNCHANGED <<day, logs, archives, overwritten>>
  BY DEF ArchiveInv, RunArchiveAndClean, ListArchives
<1>2. PICK job \in ArchiveJobs : /\ job.pc \in {"archive", "clean"}
                                 /\ jobs' = [jobs EXCEPT ![l] = job]
  <2>1. CASE RunArchiveAndClean(l)
    <3>1. [pc |-> "archive", todo |-> logs, file |-> NoFile] \in ArchiveJobs
      BY <1>1 DEF ArchiveJobs, ArchiveTypeOK
    <3>. QED  BY <2>1, <3>1 DEF RunArchiveAndClean
  <2>2. CASE ListArchives(l)
    <3>1. [pc |-> "clean", todo |-> {f \in LogFiles : Archived(f)}, file |-> NoFile] \in ArchiveJobs
      BY DEF ArchiveJobs
    <3>. QED  BY <2>2, <3>1 DEF ListArchives
  <2>. QED  BY <2>1, <2>2
<1>3. /\ jobs' \in [Loggers -> ArchiveJobs] /\ jobs'[l] = job
      /\ \A m \in Loggers \ {l} : jobs'[m] = jobs[m]
  BY <1>1, <1>2, OneJobMoves
<1>4. JobOK(jobs[l])'
  BY <1>2, <1>3 DEF JobOK
<1>. QED  BY <1>1, <1>3, <1>4, JobLooks

(* archiveOldLogs looks at the next log.                                   *)
LEMMA JobLooksAtLog ==
    ASSUME ArchiveInv, NEW l \in Loggers, ArchiveOldLogs(l)
    PROVE  ArchiveInv'
<1>1. ArchiveTypeOK /\ UNCHANGED <<day, logs, archives, overwritten>>
  BY DEF ArchiveInv, ArchiveOldLogs
<1>2. jobs[l] \in ArchiveJobs /\ jobs[l].pc = "archive"
  BY <1>1 DEF ArchiveTypeOK, ArchiveJobs, ArchiveOldLogs, JobAt
<1>. DEFINE todo == jobs[l].todo  f == Min(todo)
            young == [jobs[l] EXCEPT !.todo = @ \ {f}]
            one == [jobs EXCEPT ![l].pc = "read"]
            old == [[jobs[l] EXCEPT !.pc = "read"] EXCEPT !.file = f]
<1>3. CASE JobGoes(l, "list")
  <2>1. /\ jobs' \in [Loggers -> ArchiveJobs] /\ jobs'[l].pc = "list"
        /\ \A m \in Loggers \ {l} : jobs'[m] = jobs[m]
    BY <1>1, <1>3, JobPasses
  <2>2. JobOK(jobs[l])'
    BY <2>1 DEF JobOK
  <2>. QED  BY <1>1, <2>1, <2>2, JobLooks
<1>4. CASE jobs' = [jobs EXCEPT ![l].todo = @ \ {f}]
  <2>1. young \in ArchiveJobs /\ young.pc = "archive"
    BY <1>2 DEF ArchiveJobs
  <2>2. jobs' = [jobs EXCEPT ![l] = young]
    BY <1>4
  <2>. HIDE DEF young
  <2>3. /\ jobs' \in [Loggers -> ArchiveJobs] /\ jobs'[l] = young
        /\ \A m \in Loggers \ {l} : jobs'[m] = jobs[m]
    BY <1>1, <2>1, <2>2, OneJobMoves
  <2>4. JobOK(jobs[l])'
    BY <2>1, <2>3 DEF JobOK
  <2>. QED  BY <1>1, <2>3, <2>4, JobLooks
<1>5. CASE /\ jobs' = [jobs EXCEPT ![l].pc = "read", ![l].file = f]
           /\ todo # {} /\ f < day - ArchiveAfter
  <2>1. f \in LogFiles
    <3>1. todo \subseteq LogFiles /\ LogFiles \subseteq Nat
      BY <1>2, ArchiveAssumption DEF ArchiveJobs, LogFiles
    <3>2. todo \subseteq Nat
      BY <3>1
    <3>3. Min(todo) \in todo
      BY <1>5, <3>2, MinIsSmallest
    <3>. QED  BY <3>1, <3>3
  <2>. HIDE DEF f
  <2>2. old \in ArchiveJobs /\ old.pc = "read" /\ old.file = f
    BY <1>2, <2>1 DEF ArchiveJobs
  <2>3. jobs' = [jobs EXCEPT ![l] = old]
    <3>1. one[l] = [jobs[l] EXCEPT !.pc = "read"] /\ one = [jobs EXCEPT ![l] = [jobs[l] EXCEPT !.pc = "read"]]
      BY <1>1 DEF ArchiveTypeOK
    <3>2. jobs' = [one EXCEPT ![l].file = f]
      BY <1>5
    <3>3. jobs' = [one EXCEPT ![l] = old]
      BY <3>1, <3>2
    <3>. QED  BY <3>1, <3>3
  <2>. HIDE DEF old
  <2>4. /\ jobs' \in [Loggers -> ArchiveJobs] /\ jobs'[l] = old
        /\ \A m \in Loggers \ {l} : jobs'[m] = jobs[m]
    BY <1>1, <2>2, <2>3, OneJobMoves
  <2>5. f + ArchiveAfter < day
    BY <1>1, <1>5, <2>1, ArchiveAssumption DEF ArchiveTypeOK, LogFiles
  <2>6. JobOK(jobs[l])'
    BY <1>1, <2>1, <2>2, <2>4, <2>5 DEF JobOK
  <2>. QED  BY <1>1, <2>4, <2>6, JobLooks
<1>. QED  BY <1>3, <1>4, <1>5 DEF ArchiveOldLogs

(* The job reads a log, gives one up, or unlinks it.                       *)
LEMMA JobReadsLog ==
    ASSUME ArchiveInv, NEW l \in Loggers, ReadLog(l) \/ WriteArchiveFails(l) \/ UnlinkLog(l)
    PROVE  ArchiveInv'
<1>1. /\ ArchiveTypeOK /\ JobOK(jobs[l])
      /\ UNCHANGED <<day, archives, overwritten>>
  BY DEF ArchiveInv, ReadLog, WriteArchiveFails, UnlinkLog
<1>2. CASE JobGoes(l, "open") /\ JobAt(l, "read") /\ logs' = logs
  <2>1. /\ jobs' \in [Loggers -> ArchiveJobs] /\ jobs'[l].pc = "open" /\ jobs'[l].file = jobs[l].file
        /\ \A m \in Loggers \ {l} : jobs'[m] = jobs[m]
    BY <1>1, <1>2, JobPasses
  <2>2. JobOK(jobs[l])'
    BY <1>1, <1>2, <2>1 DEF JobOK, JobAt
  <2>. QED  BY <1>1, <1>2, <2>1, <2>2, JobLooks
<1>3. CASE /\ NextOf(l, "archive")
           /\ \/ logs' = logs
              \/ logs' = logs \ {jobs[l].file} /\ JobAt(l, "unlink")
  <2>1. /\ jobs' \in [Loggers -> ArchiveJobs] /\ JobOK(jobs[l])'
        /\ \A m \in Loggers \ {l} : jobs'[m] = jobs[m]
    BY <1>1, <1>3, NextJob
  <2>2. logs' \subseteq logs
    BY <1>3
  <2>3. \A f \in logs \ logs' : archives[f].holds = "whole" \/ f \in overwritten \/ TimeIsOver(f)
    BY <1>1, <1>3 DEF JobOK, JobAt
  <2>. QED  BY <1>1, <2>1, <2>2, <2>3, JobLooks
<1>. QED  BY <1>2, <1>3 DEF ReadLog, WriteArchiveFails, UnlinkLog

(* writeFile empties the archive and fills it.                             *)
LEMMA JobWritesArchive ==
    ASSUME ArchiveInv, NEW l \in Loggers, OpenArchive(l) \/ WriteArchive(l)
    PROVE  ArchiveInv'
<1>. DEFINE f == jobs[l].file
            archive == [holds |-> IF OpenArchive(l) THEN "part" ELSE "whole", at |-> day]
<1>1. /\ ArchiveTypeOK /\ JobOK(jobs[l]) /\ UNCHANGED <<day, logs>>
  BY DEF ArchiveInv, OpenArchive, WriteArchive
<1>2. f \in LogFiles /\ f + ArchiveAfter < day /\ day \in LogFiles
  BY <1>1 DEF OpenArchive, WriteArchive, JobAt, JobOK, ArchiveTypeOK
<1>3. PICK pc \in {"write", "unlink"}, holds \in {"part", "whole"} :
         /\ JobGoes(l, pc)
         /\ archives' = [archives EXCEPT ![f] = [holds |-> holds, at |-> day]]
         /\ pc = "unlink" => holds = "whole"
         /\ overwritten \subseteq overwritten' /\ overwritten' \subseteq overwritten \cup {f}
         /\ archives[f].holds = "whole" => holds = "whole" \/ f \in overwritten'
  <2>1. CASE OpenArchive(l)
    <3>1. JobGoes(l, "write") /\ archives' = [archives EXCEPT ![f] = [holds |-> "part", at |-> day]]
      BY <2>1 DEF OpenArchive
    <3>2. overwritten' = overwritten \cup (IF archives[f].holds = "whole" THEN {f} ELSE {})
      BY <2>1 DEF OpenArchive
    <3>. QED  BY <3>1, <3>2
  <2>2. CASE WriteArchive(l)
    <3>1. JobGoes(l, "unlink") /\ archives' = [archives EXCEPT ![f] = [holds |-> "whole", at |-> day]]
          /\ overwritten' = overwritten
      BY <2>2 DEF WriteArchive
    <3>. QED  BY <3>1
  <2>. QED  BY <2>1, <2>2
<1>4. /\ jobs' \in [Loggers -> ArchiveJobs] /\ jobs'[l].pc = pc /\ jobs'[l].file = f
      /\ \A m \in Loggers \ {l} : jobs'[m] = jobs[m]
  BY <1>1, <1>3, JobPasses
<1>5. /\ [holds |-> holds, at |-> day] \in [holds : {"none", "part", "whole"}, at : LogFiles]
      /\ [holds |-> holds, at |-> day].holds = holds /\ [holds |-> holds, at |-> day].at = day
  BY <1>2
<1>6. archives'[f].holds = holds
  BY <1>1, <1>2, <1>3 DEF ArchiveTypeOK
<1>7. JobOK(jobs[l])'
  BY <1>1, <1>2, <1>3, <1>4, <1>6 DEF JobOK
<1>8. overwritten' \subseteq LogFiles
  BY <1>1, <1>2, <1>3 DEF ArchiveTypeOK
<1>. HIDE DEF f
<1>. QED  BY <1>1, <1>2, <1>3, <1>4, <1>5, <1>7, <1>8, JobWrites

(* cleanExpiredLogs looks at the next archive.                             *)
LEMMA JobLooksAtArchive ==
    ASSUME ArchiveInv, NEW l \in Loggers, CleanExpiredLogs(l)
    PROVE  ArchiveInv'
<1>1. /\ ArchiveTypeOK /\ UNCHANGED <<day, logs, archives, overwritten>>
      /\ \A g \in LogFiles : Archived(g) => g + ArchiveAfter < archives[g].at
  BY DEF ArchiveInv, CleanExpiredLogs
<1>2. jobs[l] \in ArchiveJobs /\ jobs[l].pc = "clean"
  BY <1>1 DEF ArchiveTypeOK, ArchiveJobs, CleanExpiredLogs, JobAt
<1>. DEFINE todo == jobs[l].todo  f == Min(todo)
            young == [jobs[l] EXCEPT !.todo = @ \ {f}]
            one == [jobs EXCEPT ![l].pc = "delete"]
            old == [[jobs[l] EXCEPT !.pc = "delete"] EXCEPT !.file = f]
<1>3. CASE jobs' = [jobs EXCEPT ![l] = JobOver]
  <2>1. JobOver \in ArchiveJobs /\ JobOver.pc = "over"
    BY DEF JobOver, Asleep, ArchiveJobs
  <2>2. /\ jobs' \in [Loggers -> ArchiveJobs] /\ jobs'[l] = JobOver
        /\ \A m \in Loggers \ {l} : jobs'[m] = jobs[m]
    BY <1>1, <1>3, <2>1, OneJobMoves
  <2>3. JobOK(jobs[l])'
    BY <2>1, <2>2 DEF JobOK
  <2>. QED  BY <1>1, <2>2, <2>3, JobLooks
<1>4. CASE jobs' = [jobs EXCEPT ![l].todo = @ \ {f}]
  <2>1. young \in ArchiveJobs /\ young.pc = "clean"
    BY <1>2 DEF ArchiveJobs
  <2>2. jobs' = [jobs EXCEPT ![l] = young]
    BY <1>4
  <2>. HIDE DEF young
  <2>3. /\ jobs' \in [Loggers -> ArchiveJobs] /\ jobs'[l] = young
        /\ \A m \in Loggers \ {l} : jobs'[m] = jobs[m]
    BY <1>1, <2>1, <2>2, OneJobMoves
  <2>4. JobOK(jobs[l])'
    BY <2>1, <2>3 DEF JobOK
  <2>. QED  BY <1>1, <2>3, <2>4, JobLooks
<1>5. CASE /\ jobs' = [jobs EXCEPT ![l].pc = "delete", ![l].file = f]
           /\ todo # {} /\ Archived(f) /\ Expired(f)
  <2>1. f \in LogFiles
    <3>1. todo \subseteq LogFiles /\ LogFiles \subseteq Nat
      BY <1>2, ArchiveAssumption DEF ArchiveJobs, LogFiles
    <3>2. todo \subseteq Nat
      BY <3>1
    <3>3. Min(todo) \in todo
      BY <1>5, <3>2, MinIsSmallest
    <3>. QED  BY <3>1, <3>3
  <2>. HIDE DEF f
  <2>2. old \in ArchiveJobs /\ old.pc = "delete" /\ old.file = f
    BY <1>2, <2>1 DEF ArchiveJobs
  <2>3. jobs' = [jobs EXCEPT ![l] = old]
    <3>1. one[l] = [jobs[l] EXCEPT !.pc = "delete"] /\ one = [jobs EXCEPT ![l] = [jobs[l] EXCEPT !.pc = "delete"]]
      BY <1>1 DEF ArchiveTypeOK
    <3>2. jobs' = [one EXCEPT ![l].file = f]
      BY <1>5
    <3>3. jobs' = [one EXCEPT ![l] = old]
      BY <3>1, <3>2
    <3>. QED  BY <3>1, <3>3
  <2>. HIDE DEF old
  <2>4. /\ jobs' \in [Loggers -> ArchiveJobs] /\ jobs'[l] = old
        /\ \A m \in Loggers \ {l} : jobs'[m] = jobs[m]
    BY <1>1, <2>2, <2>3, OneJobMoves
  <2>5. TimeIsOver(f)
    <3>1. archives[f].at \in Int /\ day \in Int /\ f \in Int
      BY <1>1, <2>1, ArchiveAssumption DEF ArchiveTypeOK, LogFiles
    <3>2. f + ArchiveAfter < archives[f].at /\ archives[f].at < day - CleanAfter
      BY <1>1, <1>5, <2>1 DEF Expired
    <3>. QED  BY <3>1, <3>2, ArchiveAssumption DEF TimeIsOver
  <2>6. JobOK(jobs[l])'
    BY <1>1, <2>1, <2>2, <2>4, <2>5 DEF JobOK, TimeIsOver
  <2>. QED  BY <1>1, <2>4, <2>6, JobLooks
<1>. QED  BY <1>3, <1>4, <1>5 DEF CleanExpiredLogs

(* An archive is deleted when its time is over.                            *)
LEMMA JobDeletesArchive ==
    ASSUME ArchiveInv, NEW l \in Loggers, DeleteArchive(l)
    PROVE  ArchiveInv'
<1>. DEFINE f == jobs[l].file
<1>1. /\ ArchiveTypeOK /\ JobOK(jobs[l]) /\ NextOf(l, "clean")
      /\ archives' = [archives EXCEPT ![f] = NoArchive]
      /\ UNCHANGED <<day, logs, overwritten>>
  BY DEF ArchiveInv, DeleteArchive
<1>2. f \in LogFiles /\ TimeIsOver(f)
  BY <1>1 DEF DeleteArchive, JobAt, JobOK
<1>3. /\ jobs' \in [Loggers -> ArchiveJobs] /\ JobOK(jobs[l])'
      /\ \A m \in Loggers \ {l} : jobs'[m] = jobs[m]
  BY <1>1, NextJob
<1>4. NoArchive \in [holds : {"none", "part", "whole"}, at : LogFiles] /\ NoArchive.holds = "none"
  BY ArchiveAssumption DEF NoArchive, LogFiles
<1>5. overwritten \subseteq overwritten' /\ overwritten' \subseteq LogFiles
  BY <1>1 DEF ArchiveTypeOK
<1>. HIDE DEF f
<1>. QED  BY <1>1, <1>2, <1>3, <1>4, <1>5, JobWrites

(* A new day, a restart, or nothing                                        *)
LEMMA JobsBeginAgain ==
    ASSUME ArchiveInv, NextMorning \/ RestartLoggers \/ UNCHANGED archiveVars
    PROVE  ArchiveInv'
<1>1. /\ ArchiveTypeOK /\ LinesAreKept
      /\ \A f \in LogFiles : Archived(f) => f + ArchiveAfter < archives[f].at
      /\ \A l \in Loggers : JobOK(jobs[l])
  BY DEF ArchiveInv
<1>2. UNCHANGED <<archives, overwritten>>
  BY DEF NextMorning, RestartLoggers, archiveVars
<1>3. /\ Asleep \in ArchiveJobs /\ JobOver \in ArchiveJobs
      /\ Asleep.pc = "asleep" /\ JobOver.pc = "over"
  BY DEF Asleep, JobOver, ArchiveJobs
<1>4. jobs' \in [Loggers -> ArchiveJobs] /\ \A l \in Loggers : JobOK(jobs[l])'
  <2>1. CASE UNCHANGED archiveVars
    BY <1>1, <2>1 DEF archiveVars, JobOK, TimeIsOver, ArchiveTypeOK, ArchiveJobs
  <2>2. CASE NextMorning \/ RestartLoggers
    <3>1. PICK job \in {Asleep, JobOver} : jobs' = [l \in Loggers |-> job]
      BY <2>2 DEF NextMorning, RestartLoggers
    <3>2. job \in ArchiveJobs /\ job.pc \in {"asleep", "over"}
      BY <1>3, <3>1
    <3>3. jobs' \in [Loggers -> ArchiveJobs] /\ \A l \in Loggers : jobs'[l].pc \in {"asleep", "over"}
      BY <3>1, <3>2
    <3>. QED  BY <3>3 DEF JobOK
  <2>. QED  BY <2>1, <2>2
<1>5. /\ day \in LogFiles /\ day' \in LogFiles /\ logs' \subseteq LogFiles
      /\ \/ day' = day /\ logs' = logs
         \/ day' = day + 1 /\ logs' = logs \cup {day + 1}
  <2>1. day \in LogFiles /\ logs \subseteq LogFiles
    BY <1>1 DEF ArchiveTypeOK
  <2>2. CASE NextMorning
    <3>1. day + 1 \in LogFiles
      BY <2>1, <2>2, ArchiveAssumption DEF NextMorning, LogFiles
    <3>. QED  BY <2>1, <2>2, <3>1 DEF NextMorning
  <2>3. CASE RestartLoggers \/ UNCHANGED archiveVars
    BY <2>1, <2>3 DEF RestartLoggers, archiveVars
  <2>. QED  BY <2>2, <2>3
<1>6. ArchiveTypeOK'
  BY <1>1, <1>2, <1>4, <1>5 DEF ArchiveTypeOK, ArchiveJobs
<1>7. (\A f \in LogFiles : Archived(f) => f + ArchiveAfter < archives[f].at)'
  BY <1>1, <1>2 DEF Archived
<1>8. LinesAreKept'
  <2>1. day \in Nat /\ day' \in Nat /\ (day' = day \/ day' = day + 1)
    BY <1>5, ArchiveAssumption DEF LogFiles
  <2>2. ASSUME NEW f \in 0..day'
        PROVE  \/ f \in logs' \/ archives[f].holds = "whole"
               \/ f \in overwritten
               \/ day' > f + ArchiveAfter + CleanAfter
    <3>1. CASE f \in 0..day
      <4>1. \/ f \in logs \/ archives[f].holds = "whole" \/ f \in overwritten
            \/ day > f + ArchiveAfter + CleanAfter
        BY <1>1, <3>1 DEF LinesAreKept
      <4>2. day > f + ArchiveAfter + CleanAfter => day' > f + ArchiveAfter + CleanAfter
        BY <2>1, <3>1, ArchiveAssumption
      <4>. QED  BY <1>5, <4>1, <4>2
    <3>2. CASE f \notin 0..day
      <4>1. f = day + 1 /\ day' = day + 1
        BY <2>1, <2>2, <3>2
      <4>2. day' # day
        BY <2>1, <4>1
      <4>. QED  BY <1>5, <4>1, <4>2
    <3>. QED  BY <3>1, <3>2
  <2>. QED  BY <1>2, <2>2 DEF LinesAreKept
<1>. QED  BY <1>4, <1>6, <1>7, <1>8 DEF ArchiveInv

LEMMA ArchiveGoesOn ==
    ASSUME ArchiveInv, [ArchiveNext]_archiveVars
    PROVE  ArchiveInv'
<1>1. CASE NextMorning \/ RestartLoggers \/ UNCHANGED archiveVars
  BY <1>1, JobsBeginAgain
<1>2. ASSUME NEW l \in Loggers, ArchiveStep(l) PROVE ArchiveInv'
  BY <1>2, JobListsFiles, JobLooksAtLog, JobReadsLog, JobWritesArchive, JobLooksAtArchive,
     JobDeletesArchive DEF ArchiveStep
<1>. QED  BY <1>1, <1>2 DEF ArchiveNext

LEMMA ArchiveInvHolds == ArchiveSpec => []ArchiveInv
<1>1. ArchiveInit => ArchiveInv
  BY ArchiveBegins
<1>2. ArchiveInv /\ [ArchiveNext]_archiveVars => ArchiveInv'
  BY ArchiveGoesOn
<1>. QED  BY <1>1, <1>2, PTL DEF ArchiveSpec

(* Two jobs on the same directory, a full disk and restarts take no day's  *)
(* lines away before both periods are over, except where one job writes    *)
(* over an archive that the other had finished.                            *)
THEOREM LinesAreAlwaysKept == ArchiveSpec => []LinesAreKept
<1>1. ArchiveInv => LinesAreKept
  BY DEF ArchiveInv
<1>. QED  BY <1>1, ArchiveInvHolds, PTL
-----------------------------------------------------------------------------

(* The queue's lines, counters and bounded memory and the archive jobs'    *)
(* files and days have their types, whichever of the two runs: no list or  *)
(* counter leaves its range (LoggerService, LoggerArchiveService).         *)
THEOREM LoggingIsTyped == LoggingSpec => []LoggingTypeOK
<1>. DEFINE Inv == QueueInv /\ ArchiveInv
<1>1. LoggingInit => Inv
  BY QueueBegins, ArchiveBegins DEF LoggingInit
<1>2. Inv /\ [LoggingNext]_loggingVars => Inv'
  <2>1. LoggingNext \/ UNCHANGED loggingVars => [Next]_vars /\ [ArchiveNext]_archiveVars
    BY DEF LoggingNext, loggingVars
  <2>2. QueueInv /\ [Next]_vars => QueueInv'
    BY QueueGoesOn
  <2>3. ArchiveInv /\ [ArchiveNext]_archiveVars => ArchiveInv'
    BY ArchiveGoesOn
  <2>. QED  BY <2>1, <2>2, <2>3
<1>3. Inv => LoggingTypeOK
  BY DEF LoggingTypeOK, QueueInv, ArchiveInv
<1>. HIDE DEF Inv
<1>. QED  BY <1>1, <1>2, <1>3, PTL DEF LoggingSpec

-----------------------------------------------------------------------------
(* The breaker's types                                                     *)
CounterType  == [value : 0..Threshold, left : 0..Endless, spoilt : BOOLEAN]
CircuitType  == [left : 0..Cooldown, age : 0..Cooldown]
OwnCountType == [count : 0..Threshold, age : 0..(Window + 1), open : BOOLEAN,
                 openAge : 0..Cooldown, late : BOOLEAN]
RefusalType  == [step : Steps, count : 0..Threshold, age : 0..Cooldown]

LEMMA BreakerNumbers ==
    /\ Threshold \in Nat \ {0, 1} /\ Window \in Nat \ {0} /\ Cooldown \in Nat \ {0}
    /\ Endless = Window + 1
    /\ 0 \in 0..Threshold /\ 0 \in 0..Endless /\ Window \in 0..Endless /\ Endless \in 0..Endless
    /\ 0 \in 0..Cooldown /\ Cooldown \in 0..Cooldown /\ 0 \in 0..(Window + 1) /\ 0 \in 0..Window
    /\ \A top \in Nat, n \in Nat : Capped(n, top) \in 0..top
    /\ \A top \in Nat : \A n \in 0..top : Capped(n + 1, top) \in 0..top
<1>1. Threshold \in Nat \ {0, 1} /\ Window \in Nat \ {0} /\ Cooldown \in Nat \ {0}
  BY BreakerAssumption
<1>2. \A top \in Nat, n \in Nat : Capped(n, top) \in 0..top
  BY DEF Capped
<1>3. \A top \in Nat : \A n \in 0..top : Capped(n + 1, top) \in 0..top
  BY <1>2
<1>. QED  BY <1>1, <1>2, <1>3 DEF Endless

LEMMA OneLess == \A top \in Nat : \A n \in 0..top : n # 0 => n - 1 \in 0..top
OBVIOUS

LEMMA EndlessIsLong == Endless \notin {0, 1} /\ Endless \in Nat
BY BreakerAssumption DEF Endless

LEMMA BreakerTypes ==
    BreakerTypeOK <=> /\ redisReady \in BOOLEAN
                      /\ counter \in CounterType /\ circuit \in CircuitType
                      /\ ownCount \in OwnCountType
                      /\ refusal \in [Refusals -> RefusalType]
                      /\ recent \in [0..Window -> 0..Threshold]
BY DEF BreakerTypeOK, CounterType, CircuitType, OwnCountType, RefusalType

LEMMA NothingIsTyped ==
    /\ NoCounter \in CounterType /\ NoCircuit \in CircuitType
    /\ ClosedMemory \in OwnCountType /\ NoRefusal \in RefusalType
<1>1. NoCounter \in CounterType /\ NoCircuit \in CircuitType
  BY BreakerNumbers DEF NoCounter, CounterType, NoCircuit, CircuitType
<1>2. ClosedMemory \in OwnCountType
  BY BreakerNumbers DEF ClosedMemory, OwnCountType
<1>3. NoRefusal \in RefusalType
  BY BreakerNumbers DEF NoRefusal, RefusalType, Steps
<1>. QED  BY <1>1, <1>2, <1>3

LEMMA BreakerBegins == BreakerInit => BreakerTypeOK
<1>. SUFFICES ASSUME BreakerInit PROVE BreakerTypeOK
  OBVIOUS
<1>1. refusal \in [Refusals -> RefusalType]
  BY NothingIsTyped DEF BreakerInit
<1>2. recent \in [0..Window -> 0..Threshold]
  BY BreakerNumbers DEF BreakerInit
<1>. QED  BY <1>1, <1>2, NothingIsTyped, BreakerTypes DEF BreakerInit

LEMMA OwnCountIsTyped ==
    ASSUME ownCount \in OwnCountType, NEW late \in BOOLEAN, RecordInMemory(late)
    PROVE  ownCount' \in OwnCountType
<1>. DEFINE fresh == ownCount.age > Window
            count == Capped(IF fresh THEN 1 ELSE ownCount.count + 1, Threshold)
            age == IF fresh THEN 0 ELSE ownCount.age
            open == ownCount.open \/ count >= Threshold
            openAge == IF count >= Threshold THEN 0 ELSE ownCount.openAge
            lately == late \/ (~fresh /\ ownCount.late)
<1>1. ownCount.count \in 0..Threshold /\ ownCount.age \in 0..(Window + 1)
      /\ ownCount.openAge \in 0..Cooldown /\ ownCount.open \in BOOLEAN /\ ownCount.late \in BOOLEAN
  BY DEF OwnCountType
<1>2. count \in 0..Threshold
  <2>1. (IF fresh THEN 1 ELSE ownCount.count + 1) \in Nat
    BY <1>1
  <2>. QED  BY <2>1, BreakerNumbers
<1>3. age \in 0..(Window + 1) /\ openAge \in 0..Cooldown
  BY <1>1, BreakerNumbers
<1>4. open \in BOOLEAN /\ lately \in BOOLEAN
  BY <1>1
<1>5. ownCount' = [count |-> count, age |-> age, open |-> open, openAge |-> openAge, late |-> lately]
  BY DEF RecordInMemory
<1>. HIDE DEF count, age, open, openAge, lately
<1>. QED  BY <1>2, <1>3, <1>4, <1>5 DEF OwnCountType

(* What a step of a refusal does to it, and only to it                     *)
LEMMA OnlyOneMoves ==
    ASSUME BreakerTypeOK, NEW r \in Refusals, Refusal(r)
    PROVE  /\ refusal' \in [Refusals -> RefusalType]
           /\ \A s \in Refusals : s # r => refusal'[s] = refusal[s]
           /\ refusal'[r].age = refusal[r].age \/ refusal'[r].step = "none"
<1>1. refusal \in [Refusals -> RefusalType] /\ counter \in CounterType
  BY BreakerTypes
<1>2. /\ refusal[r] \in RefusalType
      /\ refusal[r].step \in Steps /\ refusal[r].count \in 0..Threshold /\ refusal[r].age \in 0..Cooldown
  BY <1>1 DEF RefusalType
<1>3. ASSUME NEW step \in Steps, NEW count \in 0..Threshold,
             refusal' = [refusal EXCEPT ![r] = [step |-> step, count |-> count, age |-> refusal[r].age]]
      PROVE  /\ refusal' \in [Refusals -> RefusalType]
             /\ \A s \in Refusals : s # r => refusal'[s] = refusal[s]
             /\ refusal'[r].age = refusal[r].age
  <2>1. [step |-> step, count |-> count, age |-> refusal[r].age] \in RefusalType
    BY <1>2 DEF RefusalType
  <2>. QED  BY <1>1, <1>3, <2>1
<1>4. ASSUME NEW step \in Steps, NEW count \in 0..Threshold,
             refusal' = [refusal EXCEPT ![r].step = step, ![r].count = count]
      PROVE  refusal' = [refusal EXCEPT ![r] = [step |-> step, count |-> count, age |-> refusal[r].age]]
  <2>. DEFINE one == [refusal EXCEPT ![r].step = step]
  <2>1. one[r] = [step |-> step, count |-> refusal[r].count, age |-> refusal[r].age]
    BY <1>1, <1>2 DEF RefusalType
  <2>2. one = [refusal EXCEPT ![r] = one[r]] /\ refusal' = [one EXCEPT ![r].count = count]
    BY <1>1, <1>4
  <2>. HIDE DEF one
  <2>3. refusal' = [one EXCEPT ![r] = [step |-> step, count |-> count, age |-> refusal[r].age]]
    <3>1. [one[r] EXCEPT !.count = count] = [step |-> step, count |-> count, age |-> refusal[r].age]
      BY <2>1
    <3>. QED  BY <2>2, <3>1
  <2>. QED  BY <1>1, <2>2, <2>3
<1>5. ASSUME Done(r) PROVE /\ refusal' \in [Refusals -> RefusalType]
                           /\ \A s \in Refusals : s # r => refusal'[s] = refusal[s]
                           /\ refusal'[r].step = "none"
  BY <1>1, <1>5, NothingIsTyped DEF Done, NoRefusal
<1>6. ASSUME refusal' = refusal PROVE /\ refusal' \in [Refusals -> RefusalType]
                                      /\ \A s \in Refusals : s # r => refusal'[s] = refusal[s]
                                      /\ refusal'[r].age = refusal[r].age
  BY <1>1, <1>6
<1>7. ASSUME NEW step \in Steps, Goto(r, step)
      PROVE  /\ refusal' \in [Refusals -> RefusalType]
             /\ \A s \in Refusals : s # r => refusal'[s] = refusal[s]
             /\ refusal'[r].age = refusal[r].age
  BY <1>3, <1>4, <1>7, BreakerNumbers DEF Goto
<1>8. \A count : After(count) \in Steps
  BY DEF After, Steps
<1>9. {"incr", "expire", "set", "check", "del_circuit", "del_counter"} \subseteq Steps
  BY DEF Steps
<1>10. CASE RefuseWithRedis(r) \/ RefuseWithoutRedis(r) \/ RecordFails(r)
  BY <1>7, <1>9, <1>10 DEF RefuseWithRedis, RefuseWithoutRedis, RecordFails
<1>11. CASE \E answered \in BOOLEAN : Increment(r, answered)
  <2>. DEFINE count == Capped(counter.value + 1, Threshold)
  <2>1. count \in 0..Threshold
    <3>1. counter.value \in 0..Threshold
      BY <1>1 DEF CounterType
    <3>. QED  BY <3>1, BreakerNumbers
  <2>2. \/ refusal' = refusal
        \/ refusal' = [refusal EXCEPT ![r].step = "expire", ![r].count = count]
        \/ Goto(r, After(count))
    BY <1>11 DEF Increment, Again
  <2>. HIDE DEF count
  <2>. QED  BY <1>3, <1>4, <1>6, <1>7, <1>8, <1>9, <2>1, <2>2
<1>12. CASE \E answered \in BOOLEAN : ExpireCounter(r, answered)
  BY <1>6, <1>7, <1>8, <1>12 DEF ExpireCounter, Again
<1>13. CASE \E answered \in BOOLEAN : OpenCircuit(r, answered) \/ DeleteCircuit(r, answered)
  BY <1>6, <1>7, <1>9, <1>13 DEF OpenCircuit, DeleteCircuit, Again
<1>14. CASE \E answered \in BOOLEAN : DeleteCounter(r, answered)
  BY <1>5, <1>6, <1>14 DEF DeleteCounter, Again
<1>15. CASE CheckCircuit(r) \/ DeletionFails(r)
  BY <1>5, <1>7, <1>9, <1>15 DEF CheckCircuit, DeletionFails, CheckInMemory
<1>. QED  BY <1>10, <1>11, <1>12, <1>13, <1>14, <1>15 DEF Refusal

LEMMA BreakerGoesOn ==
    ASSUME BreakerTypeOK, [BreakerNext]_breakerVars
    PROVE  BreakerTypeOK'
<1>1. /\ redisReady \in BOOLEAN /\ counter \in CounterType /\ circuit \in CircuitType
      /\ ownCount \in OwnCountType /\ refusal \in [Refusals -> RefusalType]
      /\ recent \in [0..Window -> 0..Threshold]
  BY BreakerTypes
<1>2. /\ counter.value \in 0..Threshold /\ counter.left \in 0..Endless /\ counter.spoilt \in BOOLEAN
      /\ circuit.left \in 0..Cooldown /\ circuit.age \in 0..Cooldown
  BY <1>1 DEF CounterType, CircuitType
<1>3. ASSUME NEW r \in Refusals PROVE refusal[r] \in RefusalType /\ refusal[r].age \in 0..Cooldown
  BY <1>1 DEF RefusalType
<1>4. CASE BreakerTick
  <2>1. counter' \in CounterType
    <3>1. CASE counter.left = Endless
      <4>1. counter' = [counter EXCEPT !.spoilt = TRUE]
        BY <1>4, <3>1, EndlessIsLong DEF BreakerTick
      <4>. QED  BY <1>1, <4>1 DEF CounterType
    <3>2. CASE counter.left \in {0, 1}
      <4>1. counter' = NoCounter
        BY <1>4, <3>2, BreakerNumbers DEF BreakerTick
      <4>. QED  BY <4>1, NothingIsTyped
    <3>3. CASE counter.left # Endless /\ counter.left \notin {0, 1}
      <4>1. counter' = [counter EXCEPT !.left = @ - 1]
        BY <1>4, <3>3 DEF BreakerTick
      <4>2. counter.left - 1 \in 0..Endless
        BY <1>2, <3>3, EndlessIsLong, OneLess
      <4>. QED  BY <1>1, <4>1, <4>2 DEF CounterType
    <3>. QED  BY <3>1, <3>2, <3>3
  <2>2. circuit' \in CircuitType
    <3>1. CASE circuit.left <= 1
      BY <1>4, <3>1, NothingIsTyped DEF BreakerTick
    <3>2. CASE ~(circuit.left <= 1)
      <4>. DEFINE age == Capped(circuit.age + 1, Cooldown)
      <4>1. circuit' = [left |-> circuit.left - 1, age |-> age]
        BY <1>4, <3>2 DEF BreakerTick
      <4>2. circuit.left - 1 \in 0..Cooldown
        <5>1. circuit.left # 0 /\ Cooldown \in Nat
          BY <3>2, BreakerAssumption
        <5>. QED  BY <1>2, <5>1, OneLess
      <4>3. age \in 0..Cooldown
        BY <1>2, BreakerNumbers
      <4>. HIDE DEF age
      <4>. QED  BY <4>1, <4>2, <4>3 DEF CircuitType
    <3>. QED  BY <3>1, <3>2
  <2>3. ownCount' \in OwnCountType
    <3>. DEFINE age == Capped(ownCount.age + 1, Window + 1)
                openAge == IF ownCount.open THEN Capped(ownCount.openAge + 1, Cooldown) ELSE 0
                one == [ownCount EXCEPT !.age = age]
    <3>1. ownCount.age \in 0..(Window + 1) /\ ownCount.openAge \in 0..Cooldown
      BY <1>1 DEF OwnCountType
    <3>2. age \in 0..(Window + 1) /\ openAge \in 0..Cooldown
      <4>1. Window + 1 \in Nat
        BY BreakerNumbers
      <4>. QED  BY <3>1, <4>1, BreakerNumbers
    <3>3. ownCount' = [one EXCEPT !.openAge = openAge]
      BY <1>1, <1>4 DEF BreakerTick, OwnCountType
    <3>. HIDE DEF age, openAge
    <3>4. one \in OwnCountType
      BY <1>1, <3>2 DEF OwnCountType
    <3>. HIDE DEF one
    <3>. QED  BY <3>2, <3>3, <3>4 DEF OwnCountType
  <2>4. refusal' \in [Refusals -> RefusalType]
    <3>1. ASSUME NEW r \in Refusals
          PROVE  [refusal[r] EXCEPT !.age = Capped(@ + 1, Cooldown)] \in RefusalType
      <4>. DEFINE age == Capped(refusal[r].age + 1, Cooldown)
      <4>1. age \in 0..Cooldown
        BY <1>3, BreakerNumbers
      <4>2. [refusal[r] EXCEPT !.age = age] \in RefusalType
        <5>. HIDE DEF age
        <5>. QED  BY <1>3, <4>1 DEF RefusalType
      <4>. QED  BY <4>2
    <3>. QED  BY <1>4, <3>1, NothingIsTyped DEF BreakerTick
  <2>5. recent' \in [0..Window -> 0..Threshold]
    <3>1. \A k \in 0..Window : k # 0 => k - 1 \in 0..Window
      BY BreakerNumbers
    <3>2. \A k \in 0..Window : (IF k = 0 THEN 0 ELSE recent[k - 1]) \in 0..Threshold
      BY <1>1, <3>1, BreakerNumbers
    <3>. QED  BY <1>4, <3>2 DEF BreakerTick
  <2>6. redisReady' \in BOOLEAN
    BY <1>1, <1>4 DEF BreakerTick
  <2>. QED  BY <2>1, <2>2, <2>3, <2>4, <2>5, <2>6, BreakerTypes DEF BreakerTypeOK,
              CounterType, CircuitType, OwnCountType, RefusalType
<1>5. CASE CrashRefusals
  BY <1>1, <1>5, NothingIsTyped DEF CrashRefusals, BreakerTypeOK, CounterType, CircuitType,
     OwnCountType, RefusalType
<1>6. CASE RedisComesOrGoes
  BY <1>1, <1>6 DEF RedisComesOrGoes, BreakerTypeOK, CounterType, CircuitType, OwnCountType, RefusalType
<1>7. CASE UNCHANGED breakerVars
  BY <1>1, <1>7 DEF breakerVars, BreakerTypeOK, CounterType, CircuitType, OwnCountType, RefusalType
<1>8. ASSUME NEW r \in Refusals, Refusal(r) PROVE BreakerTypeOK'
  <2>1. refusal' \in [Refusals -> RefusalType]
    BY <1>8, OnlyOneMoves
  <2>2. redisReady' \in BOOLEAN
    BY <1>1, <1>8 DEF Refusal, RefuseWithRedis, RefuseWithoutRedis, Increment, ExpireCounter,
       OpenCircuit, RecordFails, CheckCircuit, CheckInMemory, DeleteCircuit, DeleteCounter, DeletionFails
  <2>3. counter' \in CounterType
    <3>1. ASSUME NEW answered \in BOOLEAN, Increment(r, answered) PROVE counter' \in CounterType
      <4>. DEFINE count == Capped(counter.value + 1, Threshold)
                  left == IF counter.value = 0 THEN Endless ELSE counter.left
                  spoilt == counter.spoilt \/ ~answered \/ Late(r)
      <4>1. counter' = [value |-> count, left |-> left, spoilt |-> spoilt]
        BY <3>1 DEF Increment
      <4>2. count \in 0..Threshold /\ left \in 0..Endless
        BY <1>2, BreakerNumbers
      <4>3. spoilt \in BOOLEAN
        BY <1>2 DEF Late
      <4>. HIDE DEF count, left, spoilt
      <4>. QED  BY <4>1, <4>2, <4>3 DEF CounterType
    <3>2. ASSUME NEW answered \in BOOLEAN, ExpireCounter(r, answered) PROVE counter' \in CounterType
      <4>. DEFINE spoilt == counter.spoilt \/ (Late(r) /\ counter.left < Window)
                  one == [counter EXCEPT !.left = Window]
      <4>1. counter' = counter \/ counter' = [one EXCEPT !.spoilt = spoilt]
        BY <1>1, <3>2 DEF ExpireCounter, CounterType
      <4>2. spoilt \in BOOLEAN
        BY <1>2 DEF Late
      <4>. HIDE DEF spoilt
      <4>3. one \in CounterType
        BY <1>1, BreakerNumbers DEF CounterType
      <4>. HIDE DEF one
      <4>. QED  BY <1>1, <4>1, <4>2, <4>3 DEF CounterType
    <3>3. CASE counter' \in {counter, NoCounter}
      BY <1>1, <3>3, NothingIsTyped
    <3>. QED  BY <1>8, <3>1, <3>2, <3>3 DEF Refusal, RefuseWithRedis, RefuseWithoutRedis, OpenCircuit,
              RecordFails, CheckCircuit, CheckInMemory, DeleteCircuit, DeleteCounter, DeletionFails
  <2>4. circuit' \in CircuitType
    <3>1. CASE circuit' = [left |-> Cooldown, age |-> refusal[r].age]
      BY <1>3, <3>1, BreakerNumbers DEF CircuitType
    <3>2. CASE circuit' \in {circuit, NoCircuit}
      BY <1>1, <3>2, NothingIsTyped
    <3>. QED  BY <1>8, <3>1, <3>2 DEF Refusal, RefuseWithRedis, RefuseWithoutRedis, Increment,
              ExpireCounter, OpenCircuit, RecordFails, CheckCircuit, CheckInMemory, DeleteCircuit,
              DeleteCounter, DeletionFails
  <2>5. ownCount' \in OwnCountType
    <3>1. CASE \E late \in BOOLEAN : RecordInMemory(late)
      BY <1>1, <3>1, OwnCountIsTyped
    <3>2. CASE ownCount' \in {ownCount, ClosedMemory}
      BY <1>1, <3>2, NothingIsTyped
    <3>3. Late(r) \in BOOLEAN
      BY DEF Late
    <3>. QED  BY <1>8, <3>1, <3>2, <3>3 DEF Refusal, RefuseWithRedis, RefuseWithoutRedis, Increment,
              ExpireCounter, OpenCircuit, RecordFails, CheckCircuit, CheckInMemory, DeleteCircuit,
              DeleteCounter, DeletionFails
  <2>6. recent' \in [0..Window -> 0..Threshold]
    <3>1. CASE Counted
      <4>1. \A k \in 0..Window : Capped(recent[k] + 1, Threshold) \in 0..Threshold
        BY <1>1, BreakerNumbers
      <4>. QED  BY <3>1, <4>1 DEF Counted
    <3>2. CASE recent' = recent
      BY <1>1, <3>2
    <3>. QED  BY <1>8, <3>1, <3>2 DEF Refusal, RefuseWithRedis, RefuseWithoutRedis, Increment,
              ExpireCounter, OpenCircuit, RecordFails, CheckCircuit, CheckInMemory, DeleteCircuit,
              DeleteCounter, DeletionFails
  <2>. QED  BY <2>1, <2>2, <2>3, <2>4, <2>5, <2>6 DEF BreakerTypeOK,
              CounterType, CircuitType, OwnCountType, RefusalType
<1>. QED  BY <1>4, <1>5, <1>6, <1>7, <1>8 DEF BreakerNext
-----------------------------------------------------------------------------
(* Why the breaker opens.  A refusal of this tick is counted in recent, and*)
(* not yet in the key while it is about to INCR, nor in memory while it may*)
(* still turn to the memory.                                               *)
Counting  == {r \in Refusals : At(r, "incr") /\ ~Late(r)}
Recording == {r \in Refusals : refusal[r].step \in {"incr", "expire", "set"} /\ ~Late(r)}
Covered(n, k) == n <= recent[k] \/ recent[k] = Threshold
KeyAge == IF counter.left \in 1..Window THEN Window - counter.left ELSE 0

RecentGrows == \A k, m \in 0..Window : k <= m => recent[k] <= recent[m]
CounterOK ==
    /\ counter.value = 0 <=> counter.left = 0
    /\ Covered(Cardinality(Counting), 0)
    /\ ~counter.spoilt => Covered(counter.value + Cardinality(Counting), KeyAge)
    /\ \A r \in Refusals : At(r, "expire") =>
          refusal[r].count = 1 /\ (Late(r) \/ counter.left \in {0, Window, Endless})
OwnCountOK ==
    /\ IsFiniteSet(Recording)
    /\ Covered(Cardinality(Recording), 0)
    /\ ~ownCount.late /\ ownCount.age <= Window =>
          Covered(ownCount.count + Cardinality(Recording), ownCount.age)
ReasonInv == BreakerTypeOK /\ RecentGrows /\ CounterOK /\ OwnCountOK

LEMMA BreakerValues ==
    ASSUME BreakerTypeOK
    PROVE  /\ Threshold \in Nat \ {0, 1} /\ Window \in Nat \ {0} /\ Endless = Window + 1
           /\ counter.value \in 0..Threshold /\ counter.left \in 0..Endless
           /\ counter.spoilt \in BOOLEAN
           /\ ownCount.count \in 0..Threshold /\ ownCount.age \in 0..(Window + 1)
           /\ ownCount.open \in BOOLEAN /\ ownCount.late \in BOOLEAN
           /\ \A k \in 0..Window : recent[k] \in 0..Threshold
           /\ 0 \in 0..Window /\ Window \in 0..Window /\ KeyAge \in 0..Window
<1>1. Threshold \in Nat \ {0, 1} /\ Window \in Nat \ {0} /\ Endless = Window + 1
  BY BreakerNumbers
<1>2. counter \in CounterType /\ ownCount \in OwnCountType /\ recent \in [0..Window -> 0..Threshold]
  BY BreakerTypes
<1>3. /\ counter.value \in 0..Threshold /\ counter.left \in 0..Endless /\ counter.spoilt \in BOOLEAN
      /\ ownCount.count \in 0..Threshold /\ ownCount.age \in 0..(Window + 1)
      /\ ownCount.open \in BOOLEAN /\ ownCount.late \in BOOLEAN
  BY <1>2 DEF CounterType, OwnCountType
<1>4. KeyAge \in 0..Window
  BY <1>1, <1>3 DEF KeyAge
<1>. QED  BY <1>1, <1>2, <1>3, <1>4

(* A set that changes in one member                                        *)
LEMMA OneMember ==
    ASSUME NEW W, NEW V, NEW r, IsFiniteSet(W), W \ {r} = V \ {r}
    PROVE  /\ IsFiniteSet(V) /\ Cardinality(W) \in Nat /\ Cardinality(V) \in Nat
           /\ Cardinality(V) <= Cardinality(W) + 1
           /\ r \in W \/ r \notin V => Cardinality(V) <= Cardinality(W)
           /\ r \in W /\ r \notin V => Cardinality(V) = Cardinality(W) - 1
<1>1. /\ Cardinality(W) \in Nat
      /\ IsFiniteSet(W \cup {r}) /\ IsFiniteSet(W \ {r})
      /\ Cardinality(W \cup {r}) = IF r \in W THEN Cardinality(W) ELSE Cardinality(W) + 1
      /\ Cardinality(W \ {r}) = IF r \in W THEN Cardinality(W) - 1 ELSE Cardinality(W)
  BY FS_CardinalityType, FS_AddElement, FS_RemoveElement
<1>2. V = IF r \in V THEN W \cup {r} ELSE W \ {r}
  OBVIOUS
<1>3. IsFiniteSet(V) /\ Cardinality(V) \in Nat
  BY <1>1, <1>2, FS_CardinalityType
<1>4. CASE r \in V
  <2>1. Cardinality(V) = IF r \in W THEN Cardinality(W) ELSE Cardinality(W) + 1
    BY <1>1, <1>2, <1>4
  <2>. QED  BY <1>1, <1>3, <1>4, <2>1
<1>5. CASE r \notin V
  <2>1. Cardinality(V) = IF r \in W THEN Cardinality(W) - 1 ELSE Cardinality(W)
    BY <1>1, <1>2, <1>5
  <2>. QED  BY <1>1, <1>3, <1>5, <2>1
<1>. QED  BY <1>4, <1>5

LEMMA SetsMove ==
    ASSUME IsFiniteSet(Recording), NEW r \in Refusals,
           \A s \in Refusals : s # r => refusal'[s] = refusal[s]
    PROVE  /\ IsFiniteSet(Recording')
           /\ Cardinality(Recording) \in Nat /\ Cardinality(Recording') \in Nat
           /\ Cardinality(Recording') <= Cardinality(Recording) + 1
           /\ r \in Recording \/ r \notin Recording' =>
                 Cardinality(Recording') <= Cardinality(Recording)
           /\ r \in Recording /\ r \notin Recording' =>
                 Cardinality(Recording') = Cardinality(Recording) - 1
           /\ Cardinality(Counting) \in Nat /\ Cardinality(Counting') \in Nat
           /\ Cardinality(Counting') <= Cardinality(Counting) + 1
           /\ r \in Counting \/ r \notin Counting' =>
                 Cardinality(Counting') <= Cardinality(Counting)
           /\ r \in Counting /\ r \notin Counting' =>
                 Cardinality(Counting') = Cardinality(Counting) - 1
<1>1. Recording \ {r} = Recording' \ {r}
  BY DEF Recording, Late
<1>2. Counting \ {r} = Counting' \ {r}
  BY DEF Counting, At, Late
<1>3. IsFiniteSet(Counting)
  <2>1. Counting \subseteq Recording
    BY DEF Counting, Recording, At
  <2>. QED  BY <2>1, FS_Subset
<1>4. /\ IsFiniteSet(Recording')
      /\ Cardinality(Recording) \in Nat /\ Cardinality(Recording') \in Nat
      /\ Cardinality(Recording') <= Cardinality(Recording) + 1
      /\ r \in Recording \/ r \notin Recording' => Cardinality(Recording') <= Cardinality(Recording)
      /\ r \in Recording /\ r \notin Recording' => Cardinality(Recording') = Cardinality(Recording) - 1
  BY <1>1, OneMember
<1>5. /\ Cardinality(Counting) \in Nat /\ Cardinality(Counting') \in Nat
      /\ Cardinality(Counting') <= Cardinality(Counting) + 1
      /\ r \in Counting \/ r \notin Counting' => Cardinality(Counting') <= Cardinality(Counting)
      /\ r \in Counting /\ r \notin Counting' => Cardinality(Counting') = Cardinality(Counting) - 1
  BY <1>2, <1>3, OneMember
<1>. QED  BY <1>4, <1>5

(* A refusal more, in every span of time                                   *)
LEMMA RefusalIsCounted ==
    ASSUME BreakerTypeOK, RecentGrows, Counted
    PROVE  /\ RecentGrows'
           /\ \A k \in 0..Window : recent'[k] = IF recent[k] = Threshold THEN Threshold ELSE recent[k] + 1
<1>1. Threshold \in Nat /\ Window \in Nat /\ \A k \in 0..Window : recent[k] \in 0..Threshold
  BY BreakerValues
<1>2. \A k \in 0..Window : recent'[k] = Capped(recent[k] + 1, Threshold)
  BY DEF Counted
<1>3. ASSUME NEW k \in 0..Window
      PROVE  recent'[k] = IF recent[k] = Threshold THEN Threshold ELSE recent[k] + 1
  <2>1. recent[k] \in 0..Threshold
    BY <1>1
  <2>2. recent'[k] = IF recent[k] + 1 <= Threshold THEN recent[k] + 1 ELSE Threshold
    BY <1>2 DEF Capped
  <2>. QED  BY <1>1, <2>1, <2>2
<1>4. RecentGrows'
  <2>1. ASSUME NEW k \in 0..Window, NEW m \in 0..Window, k <= m PROVE recent'[k] <= recent'[m]
    <3>1. /\ recent[k] <= recent[m] /\ recent[k] \in 0..Threshold /\ recent[m] \in 0..Threshold
          /\ recent'[k] = (IF recent[k] = Threshold THEN Threshold ELSE recent[k] + 1)
          /\ recent'[m] = (IF recent[m] = Threshold THEN Threshold ELSE recent[m] + 1)
      BY <1>1, <1>3, <2>1 DEF RecentGrows
    <3>. QED  BY <1>1, <3>1
  <2>. QED  BY <2>1 DEF RecentGrows
<1>. QED  BY <1>3, <1>4

(* What is covered stays covered when nobody, or one more, is refused.     *)
LEMMA StillCovered ==
    ASSUME BreakerTypeOK, RecentGrows, NEW k \in 0..Window, NEW n \in Nat, NEW m \in Nat, Covered(n, k),
           \/ recent' = recent /\ m <= n
           \/ Counted /\ m <= n + 1
    PROVE  m <= recent'[k] \/ recent'[k] = Threshold
<1>1. Threshold \in Nat /\ recent[k] \in 0..Threshold /\ (n <= recent[k] \/ recent[k] = Threshold)
  BY BreakerValues DEF Covered
<1>2. CASE recent' = recent /\ m <= n
  BY <1>1, <1>2
<1>3. CASE Counted /\ m <= n + 1
  <2>1. recent'[k] = IF recent[k] = Threshold THEN Threshold ELSE recent[k] + 1
    BY <1>3, RefusalIsCounted
  <2>. QED  BY <1>1, <1>3, <2>1
<1>. QED  BY <1>2, <1>3

LEMMA StillGrows ==
    ASSUME BreakerTypeOK, RecentGrows, recent' = recent \/ Counted
    PROVE  RecentGrows'
BY RefusalIsCounted DEF RecentGrows

(* So many within a shorter span are so many within the window.            *)
LEMMA EnoughIsInWindow ==
    ASSUME BreakerTypeOK, RecentGrows, NEW k \in 0..Window, NEW n \in Nat, Covered(n, k), n >= Threshold
    PROVE  InWindow
<1>1. /\ Threshold \in Nat /\ Window \in 0..Window
      /\ recent[k] \in 0..Threshold /\ recent[Window] \in 0..Threshold
  BY BreakerValues
<1>2. k <= Window
  BY BreakerNumbers
<1>3. recent[k] <= recent[Window]
  BY <1>1, <1>2 DEF RecentGrows
<1>. QED  BY <1>1, <1>3 DEF Covered, InWindow

(* The memory counts no refusal twice, nor one that was not given lately,  *)
(* unless a refusal came to it late.                                       *)
LEMMA MemoryIsHonest ==
    ASSUME ReasonInv, IsFiniteSet(Recording'), Cardinality(Recording') \in Nat, NEW late \in BOOLEAN,
           \/ Counted /\ ownCount' = ownCount /\ Cardinality(Recording') <= Cardinality(Recording) + 1
           \/ Counted /\ RecordInMemory(late) /\ Cardinality(Recording') <= Cardinality(Recording)
           \/ /\ recent' = recent /\ RecordInMemory(late)
              /\ Cardinality(Recording') <= Cardinality(Recording)
              /\ ~late => Cardinality(Recording') = Cardinality(Recording) - 1
           \/ /\ recent' = recent /\ ownCount' \in {ownCount, ClosedMemory}
              /\ Cardinality(Recording') <= Cardinality(Recording)
    PROVE  /\ OwnCountOK'
           /\ ownCount'.open /\ ~ownCount.open => InWindow' \/ ownCount'.late
<1>. DEFINE c == Cardinality(Recording)  d == Cardinality(Recording')
            count == ownCount.count  age == ownCount.age
<1>1. /\ BreakerTypeOK /\ RecentGrows /\ Threshold \in Nat \ {0, 1} /\ Window \in Nat \ {0}
      /\ count \in 0..Threshold /\ age \in 0..(Window + 1) /\ 0 \in 0..Window
      /\ ownCount.late \in BOOLEAN /\ ownCount.open \in BOOLEAN
  BY BreakerValues DEF ReasonInv
<1>2. c \in Nat /\ d \in Nat /\ Covered(c, 0)
      /\ (~ownCount.late /\ age <= Window => Covered(count + c, age))
  BY FS_CardinalityType DEF ReasonInv, OwnCountOK
<1>. HIDE DEF c, d
<1>3. d <= recent'[0] \/ recent'[0] = Threshold
  <2>1. \/ recent' = recent /\ d <= c
        \/ Counted /\ d <= c + 1
    <3>1. d <= c => d <= c + 1
      BY <1>2
    <3>. QED  BY <3>1 DEF c, d
  <2>. QED  BY <1>1, <1>2, <2>1, StillCovered
<1>4. ASSUME ~ownCount'.late, ownCount'.age <= Window, ownCount' \in {ownCount, ClosedMemory},
             \/ recent' = recent /\ d <= c
             \/ Counted /\ d <= c + 1
      PROVE  ownCount'.count + d <= recent'[ownCount'.age] \/ recent'[ownCount'.age] = Threshold
  <2>1. CASE ownCount' = ownCount
    <3>1. age \in 0..Window /\ Covered(count + c, age)
      BY <1>1, <1>2, <1>4, <2>1
    <3>. HIDE DEF count, age
    <3>2. count + c \in Nat /\ count + d \in Nat
      BY <1>1, <1>2
    <3>3. \/ recent' = recent /\ count + d <= count + c
          \/ Counted /\ count + d <= (count + c) + 1
      BY <1>1, <1>2, <1>4
    <3>4. count + d <= recent'[age] \/ recent'[age] = Threshold
      BY <1>1, <3>1, <3>2, <3>3, StillCovered
    <3>. QED  BY <2>1, <3>4 DEF count, age
  <2>2. CASE ownCount' = ClosedMemory
    <3>1. ownCount'.count = 0 /\ ownCount'.age = 0
      BY <2>2 DEF ClosedMemory
    <3>2. 0 + d = d
      BY <1>2
    <3>. QED  BY <1>3, <3>1, <3>2
  <2>. QED  BY <1>4, <2>1, <2>2
<1>5. ASSUME RecordInMemory(late), ~ownCount'.late,
             \/ recent' = recent /\ (~late => d = c - 1)
             \/ Counted /\ d <= c
      PROVE  /\ ownCount'.count + d <= recent'[ownCount'.age] \/ recent'[ownCount'.age] = Threshold
             /\ ownCount'.open /\ ~ownCount.open => InWindow'
  <2>. DEFINE fresh == age > Window
              more == IF fresh THEN 1 ELSE count + 1
              now == Capped(more, Threshold)
              place == IF fresh THEN 0 ELSE age
  <2>1. /\ ownCount'.count = now /\ ownCount'.age = place
        /\ ownCount'.open = (ownCount.open \/ now >= Threshold)
        /\ ownCount'.late = (late \/ (~fresh /\ ownCount.late))
    BY <1>5 DEF RecordInMemory
  <2>2. ~late /\ (fresh \/ ~ownCount.late)
    BY <1>1, <1>5, <2>1
  <2>3. more \in Nat /\ place \in 0..Window /\ now = IF more <= Threshold THEN more ELSE Threshold
    BY <1>1 DEF Capped
  <2>4. \E n \in Nat : Covered(n, place) /\ n + 1 = more + c
    <3>1. CASE fresh
      BY <1>2, <3>1
    <3>2. CASE ~fresh
      <4>1. age <= Window
        BY <1>1, <3>2
      <4>2. Covered(count + c, age) /\ more = count + 1 /\ place = age
        BY <1>2, <2>2, <3>2, <4>1
      <4>. HIDE DEF count, age, more, place, fresh
      <4>3. count + c \in Nat /\ (count + c) + 1 = more + c
        BY <1>1, <1>2, <4>2
      <4>. QED  BY <4>2, <4>3
    <3>. QED  BY <3>1, <3>2
  <2>5. PICK n \in Nat : Covered(n, place) /\ n + 1 = more + c
    BY <2>4
  <2>. HIDE DEF fresh, more, now, place, count, age
  <2>6. now \in Nat /\ now + d \in Nat /\ now <= more
    BY <1>1, <1>2, <2>3
  <2>7. \/ recent' = recent /\ now + d <= n
        \/ Counted /\ now + d <= n + 1
    BY <1>2, <1>5, <2>2, <2>3, <2>5, <2>6
  <2>8. now + d <= recent'[place] \/ recent'[place] = Threshold
    BY <1>1, <2>3, <2>5, <2>6, <2>7, StillCovered
  <2>9. ASSUME now >= Threshold PROVE InWindow'
    <3>1. /\ \A k \in 0..Window : recent'[k] \in Nat
          /\ RecentGrows'
      <4>1. recent' = recent \/ Counted
        BY <1>5
      <4>2. \A k \in 0..Window : recent[k] \in 0..Threshold
        BY <1>1, BreakerValues
      <4>3. ASSUME NEW k \in 0..Window PROVE recent'[k] \in Nat
        <5>1. recent[k] \in 0..Threshold
          BY <4>2
        <5>2. CASE recent' = recent
          BY <1>1, <5>1, <5>2
        <5>3. CASE Counted
          <6>1. recent'[k] = IF recent[k] = Threshold THEN Threshold ELSE recent[k] + 1
            BY <1>1, <5>3, RefusalIsCounted
          <6>. QED  BY <1>1, <5>1, <6>1
        <5>. QED  BY <4>1, <5>2, <5>3
      <4>. QED  BY <1>1, <4>1, <4>3, StillGrows
    <3>2. recent'[place] >= Threshold
      <4>1. recent'[place] \in Nat
        BY <2>3, <3>1
      <4>. QED  BY <1>1, <1>2, <2>6, <2>8, <2>9, <4>1
    <3>3. place <= Window /\ Window \in 0..Window
      BY <1>1, <2>3
    <3>4. recent'[place] <= recent'[Window]
      BY <2>3, <3>1, <3>3 DEF RecentGrows
    <3>5. recent'[Window] >= Threshold
      <4>1. recent'[place] \in Nat /\ recent'[Window] \in Nat
        BY <2>3, <3>1, <3>3
      <4>. QED  BY <1>1, <3>2, <3>4, <4>1
    <3>. QED  BY <3>5 DEF InWindow
  <2>. QED  BY <1>1, <2>1, <2>8, <2>9
<1>6. OwnCountOK' <=> /\ d <= recent'[0] \/ recent'[0] = Threshold
                      /\ ~ownCount'.late /\ ownCount'.age <= Window =>
                            ownCount'.count + d <= recent'[ownCount'.age] \/ recent'[ownCount'.age] = Threshold
  BY DEF OwnCountOK, Covered, d
<1>7. CASE RecordInMemory(late) /\ \/ recent' = recent /\ (~late => d = c - 1)
                                   \/ Counted /\ d <= c
  BY <1>3, <1>5, <1>6, <1>7
<1>8. CASE /\ ownCount' \in {ownCount, ClosedMemory}
           /\ \/ recent' = recent /\ d <= c
              \/ Counted /\ d <= c + 1
  <2>1. ~(ownCount'.open /\ ~ownCount.open)
    BY <1>8 DEF ClosedMemory
  <2>. QED  BY <1>3, <1>4, <1>6, <1>8, <2>1
<1>. QED  BY <1>7, <1>8 DEF c, d

(* The counter stays as it is.                                             *)
LEMMA CounterStays ==
    ASSUME ReasonInv, counter' = counter, Cardinality(Counting') \in Nat,
           \/ Counted /\ Cardinality(Counting') <= Cardinality(Counting) + 1
           \/ recent' = recent /\ Cardinality(Counting') <= Cardinality(Counting),
           \A s \in Refusals : At(s, "expire")' => refusal'[s] = refusal[s]
    PROVE  CounterOK'
<1>. DEFINE c == Cardinality(Counting)  d == Cardinality(Counting')  value == counter.value
<1>1. /\ BreakerTypeOK /\ RecentGrows /\ CounterOK /\ value \in 0..Threshold /\ 0 \in 0..Window
      /\ KeyAge \in 0..Window /\ Threshold \in Nat
  BY BreakerValues DEF ReasonInv
<1>2. c \in Nat /\ d \in Nat
  <2>1. Counting \subseteq Recording
    BY DEF Counting, Recording, At
  <2>. QED  BY <2>1, FS_Subset, FS_CardinalityType DEF ReasonInv, OwnCountOK
<1>3. \/ recent' = recent /\ d <= c
      \/ Counted /\ d <= c + 1
  OBVIOUS
<1>4. Covered(c, 0) /\ (~counter.spoilt => Covered(value + c, KeyAge))
  BY <1>1 DEF CounterOK
<1>. HIDE DEF c, d, value
<1>5. d <= recent'[0] \/ recent'[0] = Threshold
  BY <1>1, <1>2, <1>3, <1>4, StillCovered
<1>6. ~counter.spoilt => value + d <= recent'[KeyAge] \/ recent'[KeyAge] = Threshold
  <2>1. value + c \in Nat /\ value + d \in Nat
        /\ \/ recent' = recent /\ value + d <= value + c
           \/ Counted /\ value + d <= (value + c) + 1
    BY <1>1, <1>2, <1>3
  <2>. QED  BY <1>1, <1>4, <2>1, StillCovered
<1>7. KeyAge' = KeyAge
  BY DEF KeyAge
<1>8. \A s \in Refusals : At(s, "expire")' => At(s, "expire") /\ (Late(s) => Late(s)')
                                               /\ refusal'[s].count = refusal[s].count
  BY DEF At, Late
<1>9. \A s \in Refusals : At(s, "expire")' =>
          refusal'[s].count = 1 /\ (Late(s)' \/ counter'.left \in {0, Window, Endless})
  BY <1>1, <1>8 DEF CounterOK
<1>10. counter'.value = value /\ counter'.spoilt = counter.spoilt
       /\ (counter'.value = 0 <=> counter'.left = 0)
  BY <1>1 DEF CounterOK, value
<1>. QED  BY <1>5, <1>6, <1>7, <1>9, <1>10 DEF CounterOK, Covered, Endless, d

(* INCR.  A new key begins a new window.                                   *)
LEMMA RedisCounts ==
    ASSUME ReasonInv, NEW r \in Refusals, NEW answered \in BOOLEAN, Increment(r, answered)
    PROVE  /\ CounterOK'
           /\ \A s \in Refusals : ~At(s, "set") /\ At(s, "set")' => InWindow \/ counter'.spoilt
<1>. DEFINE value == counter.value  left == counter.left
            count == Capped(value + 1, Threshold)
            c == Cardinality(Counting)  d == Cardinality(Counting')
<1>1. /\ BreakerTypeOK /\ RecentGrows /\ CounterOK /\ IsFiniteSet(Recording)
      /\ Threshold \in Nat \ {0, 1} /\ Window \in Nat \ {0} /\ Endless = Window + 1
      /\ value \in 0..Threshold /\ left \in 0..Endless /\ counter.spoilt \in BOOLEAN
      /\ 0 \in 0..Window /\ KeyAge \in 0..Window
  BY BreakerValues DEF ReasonInv, OwnCountOK
<1>2. /\ At(r, "incr") /\ recent' = recent
      /\ counter' = [value  |-> count,
                     left   |-> IF value = 0 THEN Endless ELSE left,
                     spoilt |-> counter.spoilt \/ ~answered \/ Late(r)]
      /\ \/ ~answered /\ refusal' = refusal
         \/ /\ answered /\ count = 1
            /\ refusal' = [refusal EXCEPT ![r].step = "expire", ![r].count = count]
         \/ answered /\ count # 1 /\ Goto(r, After(count))
  BY DEF Increment, ExpiryIsDue, Again
<1>3. /\ counter'.value = count /\ counter'.left = (IF value = 0 THEN Endless ELSE left)
      /\ counter'.spoilt = (counter.spoilt \/ ~answered \/ Late(r))
  BY <1>2
<1>4. /\ count \in 1..Threshold /\ count <= value + 1
      /\ (count = 1 <=> value = 0) /\ (count # Threshold => count = value + 1)
  BY <1>1 DEF Capped
<1>5. \A s \in Refusals : s # r => refusal'[s] = refusal[s]
  BY <1>1, OnlyOneMoves DEF Refusal
<1>6. refusal \in [Refusals -> RefusalType]
  BY <1>1, BreakerTypes
<1>7. /\ answered /\ value = 0 => At(r, "expire")' /\ refusal'[r].count = 1
      /\ answered /\ value # 0 => refusal'[r].step = After(count)
      /\ ~answered => refusal'[r] = refusal[r]
  <2>1. CASE ~answered
    BY <1>2, <2>1
  <2>2. CASE answered /\ value = 0
    BY <1>2, <1>4, <1>6, <2>2 DEF RefusalType, At
  <2>3. CASE answered /\ value # 0
    <3>1. Goto(r, After(count))
      BY <1>2, <1>4, <2>3
    <3>. HIDE DEF count
    <3>. QED  BY <1>6, <2>3, <3>1 DEF Goto, RefusalType
  <2>. QED  BY <2>1, <2>2, <2>3
<1>8. /\ c \in Nat /\ d \in Nat
      /\ answered => d <= c
      /\ answered /\ ~Late(r) => d = c - 1
      /\ d <= c
  <2>1. answered => r \notin Counting'
    BY <1>4, <1>7 DEF Counting, At, After
  <2>2. ~Late(r) => r \in Counting
    BY <1>2 DEF Counting
  <2>3. ~answered => Counting' = Counting
    BY <1>2 DEF Counting, At, Late
  <2>4. /\ c \in Nat /\ d \in Nat
        /\ r \notin Counting' => d <= c
        /\ r \in Counting /\ r \notin Counting' => d = c - 1
    BY <1>1, <1>5, SetsMove
  <2>5. ~answered => d = c
    BY <2>3
  <2>. HIDE DEF c, d
  <2>. QED  BY <2>1, <2>2, <2>4, <2>5
<1>. HIDE DEF c, d, count, value, left
<1>9. d <= recent'[0] \/ recent'[0] = Threshold
  BY <1>1, <1>2, <1>8, StillCovered DEF CounterOK, c
<1>10. counter'.value = 0 <=> counter'.left = 0
  BY <1>1, <1>3, <1>4 DEF CounterOK, value, left
<1>11. ~counter'.spoilt => count + d <= recent'[KeyAge'] \/ recent'[KeyAge'] = Threshold
  <2>. SUFFICES ASSUME ~counter'.spoilt
                PROVE  count + d <= recent'[KeyAge'] \/ recent'[KeyAge'] = Threshold
    OBVIOUS
  <2>1. answered /\ ~Late(r) /\ ~counter.spoilt /\ d = c - 1
    BY <1>3, <1>8
  <2>2. CASE value = 0
    <3>1. KeyAge' = 0
      BY <1>1, <1>3, <2>2 DEF KeyAge
    <3>2. count + d = c /\ Covered(c, 0)
      BY <1>1, <1>4, <1>8, <2>1, <2>2 DEF CounterOK, c
    <3>. QED  BY <1>2, <3>1, <3>2 DEF Covered
  <2>3. CASE value # 0
    <3>1. KeyAge' = KeyAge
      BY <1>3, <2>3 DEF KeyAge, left
    <3>2. Covered(value + c, KeyAge)
      BY <1>1, <2>1 DEF CounterOK, value, c
    <3>3. count + d \in Nat /\ value + c \in Nat /\ count + d <= value + c
      BY <1>1, <1>4, <1>8, <2>1
    <3>. QED  BY <1>1, <1>2, <3>1, <3>2, <3>3, StillCovered
  <2>. QED  BY <2>2, <2>3
<1>12. ASSUME NEW s \in Refusals, At(s, "expire")'
       PROVE  refusal'[s].count = 1 /\ (Late(s)' \/ counter'.left \in {0, Window, Endless})
  <2>1. CASE s = r
    <3>1. answered /\ value = 0
      BY <1>2, <1>7, <1>12, <2>1 DEF At, After
    <3>. QED  BY <1>3, <1>7, <2>1, <3>1
  <2>2. CASE s # r
    <3>1. At(s, "expire") /\ refusal'[s] = refusal[s]
      BY <1>5, <1>12, <2>2 DEF At
    <3>2. refusal[s].count = 1 /\ (Late(s) \/ counter.left \in {0, Window, Endless})
      BY <1>1, <3>1 DEF CounterOK
    <3>. QED  BY <1>3, <3>1, <3>2 DEF Late, left
  <2>. QED  BY <2>1, <2>2
<1>13. ASSUME NEW s \in Refusals, ~At(s, "set"), At(s, "set")', ~counter'.spoilt
       PROVE  InWindow
  <2>1. s = r
    BY <1>5, <1>13 DEF At
  <2>2. value # 0 /\ After(count) = "set"
    BY <1>7, <1>13, <2>1 DEF At
  <2>3. count >= Threshold
    BY <2>2 DEF After
  <2>4. KeyAge' = KeyAge
    BY <1>3, <2>2 DEF KeyAge, left
  <2>5. Covered(count + d, KeyAge)
    BY <1>2, <1>11, <1>13, <2>4 DEF Covered
  <2>6. count + d \in Nat /\ count + d >= Threshold
    BY <1>1, <1>4, <1>8, <2>3
  <2>. QED  BY <1>1, <2>5, <2>6, EnoughIsInWindow
<1>. QED  BY <1>3, <1>9, <1>10, <1>11, <1>12, <1>13 DEF CounterOK, Covered, Endless, d

(* PEXPIRE in the tick of its INCR finds a key of this tick.               *)
LEMMA ExpiryIsSet ==
    ASSUME ReasonInv, NEW r \in Refusals, NEW answered \in BOOLEAN, ExpireCounter(r, answered)
    PROVE  CounterOK' /\ \A s \in Refusals : At(s, "set")' => At(s, "set")
<1>. DEFINE c == Cardinality(Counting)  d == Cardinality(Counting')
<1>1. /\ BreakerTypeOK /\ RecentGrows /\ CounterOK /\ IsFiniteSet(Recording)
      /\ Threshold \in Nat \ {0, 1} /\ Window \in Nat \ {0} /\ Endless = Window + 1
      /\ counter.value \in 0..Threshold /\ counter.left \in 0..Endless /\ counter.spoilt \in BOOLEAN
      /\ 0 \in 0..Window /\ KeyAge \in 0..Window
  BY BreakerValues DEF ReasonInv, OwnCountOK
<1>2. At(r, "expire") /\ refusal[r].count = 1 /\ recent' = recent
      /\ (Late(r) \/ counter.left \in {0, Window, Endless})
  BY <1>1 DEF ExpireCounter, CounterOK
<1>3. refusal' = refusal \/ Goto(r, "check")
  <2>1. After(1) = "check"
    BY <1>1 DEF After
  <2>. QED  BY <1>2, <2>1 DEF ExpireCounter, Again
<1>4. /\ \A s \in Refusals : s # r => refusal'[s] = refusal[s]
      /\ refusal'[r] = refusal[r] \/ refusal'[r].step = "check"
  <2>1. refusal \in [Refusals -> RefusalType]
    BY <1>1, BreakerTypes
  <2>. QED  BY <1>3, <2>1 DEF Goto, RefusalType
<1>5. \A s \in Refusals : /\ At(s, "set")' => At(s, "set")
                          /\ At(s, "expire")' => refusal'[s] = refusal[s]
  BY <1>2, <1>4 DEF At
<1>6. c \in Nat /\ d \in Nat /\ d <= c
  <2>1. r \notin Counting'
    BY <1>2, <1>4 DEF Counting, At
  <2>. QED  BY <1>1, <1>4, <2>1, SetsMove
<1>7. CASE counter.value = 0
  <2>1. counter' = counter
    BY <1>7 DEF ExpireCounter
  <2>. QED  BY <1>2, <1>5, <1>6, <2>1, CounterStays
<1>8. CASE counter.value # 0
  <2>. DEFINE spoilt == counter.spoilt \/ (Late(r) /\ counter.left < Window)
  <2>1. counter'.value = counter.value /\ counter'.left = Window /\ counter'.spoilt = spoilt
    <3>. DEFINE one == [counter EXCEPT !.left = Window]
    <3>1. counter \in CounterType
      BY <1>1, BreakerTypes
    <3>2. one = [value |-> counter.value, left |-> Window, spoilt |-> counter.spoilt]
      BY <3>1 DEF CounterType
    <3>3. counter' = [one EXCEPT !.spoilt = spoilt]
      BY <1>8, <3>1 DEF ExpireCounter, CounterType
    <3>. HIDE DEF one, spoilt
    <3>. QED  BY <3>2, <3>3
  <2>2. KeyAge' = 0
    BY <1>1, <2>1 DEF KeyAge
  <2>. HIDE DEF c, d
  <2>3. d <= recent'[0] \/ recent'[0] = Threshold
    BY <1>1, <1>2, <1>6, StillCovered DEF CounterOK, c
  <2>4. ASSUME ~counter'.spoilt
        PROVE  counter.value + d <= recent'[0] \/ recent'[0] = Threshold
    <3>1. ~counter.spoilt /\ counter.left \in {Window, Endless}
      <4>1. counter.left # 0
        BY <1>1, <1>8 DEF CounterOK
      <4>2. ~counter.spoilt /\ ~(Late(r) /\ counter.left < Window)
        BY <2>1, <2>4
      <4>3. counter.left \in 1..(Window + 1) /\ ~(counter.left < Window) => counter.left \in {Window, Window + 1}
        BY <1>1
      <4>4. counter.left \in 1..(Window + 1)
        BY <1>1, <4>1
      <4>. QED  BY <1>1, <1>2, <4>1, <4>2, <4>3, <4>4
    <3>2. KeyAge = 0
      BY <1>1, <3>1 DEF KeyAge
    <3>3. Covered(counter.value + c, 0)
      BY <1>1, <3>1, <3>2 DEF CounterOK, c
    <3>4. counter.value + c \in Nat /\ counter.value + d \in Nat /\ counter.value + d <= counter.value + c
      BY <1>1, <1>6
    <3>. QED  BY <1>1, <1>2, <3>3, <3>4, StillCovered
  <2>5. \A s \in Refusals : At(s, "expire")' => refusal'[s].count = 1
    BY <1>1, <1>5 DEF CounterOK, At
  <2>6. counter'.value # 0 /\ counter'.left # 0
    BY <1>1, <1>8, <2>1
  <2>. QED  BY <1>5, <2>1, <2>2, <2>3, <2>4, <2>5, <2>6 DEF CounterOK, Covered, d
<1>. QED  BY <1>7, <1>8

(* DEL of the counter                                                      *)
LEMMA CounterIsDeleted ==
    ASSUME ReasonInv, NEW r \in Refusals, NEW answered \in BOOLEAN, DeleteCounter(r, answered)
    PROVE  CounterOK' /\ \A s \in Refusals : At(s, "set")' => At(s, "set")
<1>1. /\ BreakerTypeOK /\ RecentGrows /\ CounterOK /\ IsFiniteSet(Recording)
      /\ 0 \in 0..Window /\ At(r, "del_counter") /\ recent' = recent
  BY BreakerValues DEF ReasonInv, OwnCountOK, DeleteCounter
<1>2. /\ \A s \in Refusals : s # r => refusal'[s] = refusal[s]
      /\ refusal'[r] = refusal[r] \/ refusal'[r].step = "none"
  <2>1. refusal \in [Refusals -> RefusalType]
    BY <1>1, BreakerTypes
  <2>2. refusal' = refusal \/ Done(r)
    BY DEF DeleteCounter, Again
  <2>. QED  BY <2>1, <2>2 DEF Done, NoRefusal
<1>3. Cardinality(Counting') \in Nat /\ Cardinality(Counting) \in Nat
      /\ Cardinality(Counting') <= Cardinality(Counting)
  <2>1. r \notin Counting'
    BY <1>1, <1>2 DEF Counting, At
  <2>. QED  BY <1>1, <1>2, <2>1, SetsMove
<1>4. Cardinality(Counting') <= recent'[0] \/ recent'[0] = Threshold
  BY <1>1, <1>3, StillCovered DEF CounterOK
<1>5. counter'.value = 0 /\ counter'.left = 0
  BY DEF DeleteCounter, NoCounter
<1>6. KeyAge' = 0
  BY <1>5 DEF KeyAge
<1>7. 0 + Cardinality(Counting') = Cardinality(Counting')
  BY <1>3
<1>8. \A s \in Refusals : /\ At(s, "set")' => At(s, "set")
                          /\ At(s, "expire")' => refusal'[s].count = 1
  BY <1>1, <1>2 DEF At, CounterOK
<1>. QED  BY <1>4, <1>5, <1>6, <1>7, <1>8 DEF CounterOK, Covered

(* The other calls leave the key alone.                                    *)
LEMMA CounterWaits ==
    ASSUME ReasonInv, NEW r \in Refusals, NEW answered \in BOOLEAN,
           \/ RefuseWithRedis(r) \/ RefuseWithoutRedis(r) \/ OpenCircuit(r, answered)
           \/ RecordFails(r) \/ CheckCircuit(r) \/ DeleteCircuit(r, answered) \/ DeletionFails(r)
    PROVE  CounterOK' /\ \A s \in Refusals : At(s, "set")' => At(s, "set")
<1>1. BreakerTypeOK /\ IsFiniteSet(Recording) /\ refusal \in [Refusals -> RefusalType]
  BY BreakerTypes DEF ReasonInv, OwnCountOK
<1>2. counter' = counter
  BY DEF RefuseWithRedis, RefuseWithoutRedis, OpenCircuit, RecordFails, CheckCircuit, CheckInMemory,
         DeleteCircuit, DeletionFails
<1>3. \A s \in Refusals : s # r => refusal'[s] = refusal[s]
  BY <1>1, OnlyOneMoves DEF Refusal
<1>4. ASSUME NEW step, Goto(r, step) PROVE refusal'[r].step = step
  BY <1>1, <1>4 DEF Goto, RefusalType
<1>5. Done(r) => refusal'[r].step = "none"
  BY <1>1 DEF Done, NoRefusal
<1>6. \/ refusal'[r].step = "incr" /\ Counted
      \/ refusal'[r].step = "check" /\ Counted
      \/ /\ recent' = recent
         /\ \/ refusal'[r] = refusal[r] /\ refusal[r].step \in {"set", "del_circuit"}
            \/ refusal'[r].step \in {"check", "del_circuit", "del_counter", "none"}
  BY <1>4, <1>5 DEF RefuseWithRedis, RefuseWithoutRedis, OpenCircuit, RecordFails, CheckCircuit,
     CheckInMemory, DeleteCircuit, DeletionFails, Again, At
<1>7. /\ \A s \in Refusals : At(s, "set")' => At(s, "set")
      /\ \A s \in Refusals : At(s, "expire")' => refusal'[s] = refusal[s]
  BY <1>3, <1>6 DEF At
<1>8. refusal'[r].step # "incr" => r \notin Counting'
  BY DEF Counting, At
<1>9. /\ Cardinality(Counting) \in Nat /\ Cardinality(Counting') \in Nat
      /\ Cardinality(Counting') <= Cardinality(Counting) + 1
      /\ r \notin Counting' => Cardinality(Counting') <= Cardinality(Counting)
  BY <1>1, <1>3, SetsMove
<1>10. \/ Counted /\ Cardinality(Counting') <= Cardinality(Counting) + 1
       \/ recent' = recent /\ Cardinality(Counting') <= Cardinality(Counting)
  BY <1>6, <1>8, <1>9
<1>. QED  BY <1>2, <1>7, <1>9, <1>10, CounterStays

(* Every step of a refusal leaves the memory honest, and opens its circuit *)
(* only with the threshold reached in the window.                          *)
LEMMA RefusalIsHonest ==
    ASSUME ReasonInv, NEW r \in Refusals, Refusal(r)
    PROVE  /\ OwnCountOK'
           /\ ownCount'.open /\ ~ownCount.open => InWindow' \/ ownCount'.late
<1>1. BreakerTypeOK /\ IsFiniteSet(Recording) /\ refusal \in [Refusals -> RefusalType]
  BY BreakerTypes DEF ReasonInv, OwnCountOK
<1>2. /\ \A s \in Refusals : s # r => refusal'[s] = refusal[s]
      /\ refusal'[r].age = refusal[r].age \/ refusal'[r].step = "none"
  BY <1>1, OnlyOneMoves
<1>3. /\ IsFiniteSet(Recording')
      /\ Cardinality(Recording) \in Nat /\ Cardinality(Recording') \in Nat
      /\ Cardinality(Recording') <= Cardinality(Recording) + 1
      /\ r \in Recording \/ r \notin Recording' => Cardinality(Recording') <= Cardinality(Recording)
      /\ r \in Recording /\ r \notin Recording' => Cardinality(Recording') = Cardinality(Recording) - 1
  BY <1>1, <1>2, SetsMove
<1>4. ASSUME NEW step, Goto(r, step) PROVE refusal'[r].step = step
  BY <1>1, <1>4 DEF Goto, RefusalType
<1>5. Done(r) => refusal'[r].step = "none"
  BY <1>1 DEF Done, NoRefusal
<1>6. Late(r) => r \notin Recording'
  BY <1>2 DEF Recording, Late
<1>7. /\ FALSE \in BOOLEAN /\ Late(r) \in BOOLEAN
      /\ refusal[r].step \in {"incr", "expire", "set"} /\ ~Late(r) => r \in Recording
      /\ refusal'[r].step \notin {"incr", "expire", "set"} => r \notin Recording'
  BY DEF Recording, Late
<1>8. CASE RefuseWithRedis(r)
  <2>1. Counted /\ ownCount' = ownCount
    BY <1>8 DEF RefuseWithRedis
  <2>. QED  BY <1>3, <1>7, <2>1, MemoryIsHonest
<1>9. CASE RefuseWithoutRedis(r)
  <2>1. Counted /\ RecordInMemory(FALSE) /\ refusal'[r].step = "check"
    BY <1>4, <1>9 DEF RefuseWithoutRedis
  <2>. QED  BY <1>3, <1>7, <2>1, MemoryIsHonest
<1>10. CASE RecordFails(r)
  <2>1. /\ recent' = recent /\ RecordInMemory(Late(r)) /\ refusal'[r].step = "check"
        /\ refusal[r].step \in {"incr", "expire", "set"}
    BY <1>4, <1>10 DEF RecordFails
  <2>2. /\ Cardinality(Recording') <= Cardinality(Recording)
        /\ ~Late(r) => Cardinality(Recording') = Cardinality(Recording) - 1
    BY <1>3, <1>7, <2>1
  <2>. QED  BY <1>3, <1>7, <2>1, <2>2, MemoryIsHonest
<1>11. CASE \E answered \in BOOLEAN :
               Increment(r, answered) \/ ExpireCounter(r, answered) \/ OpenCircuit(r, answered)
  <2>1. /\ recent' = recent /\ ownCount' = ownCount
        /\ refusal[r].step \in {"incr", "expire", "set"}
    BY <1>11 DEF Increment, ExpireCounter, OpenCircuit, At
  <2>2. Cardinality(Recording') <= Cardinality(Recording)
    BY <1>3, <1>6, <1>7, <2>1
  <2>. QED  BY <1>3, <1>7, <2>1, <2>2, MemoryIsHonest
<1>12. CASE \/ CheckCircuit(r) \/ DeletionFails(r)
            \/ \E answered \in BOOLEAN : DeleteCircuit(r, answered) \/ DeleteCounter(r, answered)
  <2>1. recent' = recent /\ ownCount' \in {ownCount, ClosedMemory}
    BY <1>12 DEF CheckCircuit, CheckInMemory, DeletionFails, DeleteCircuit, DeleteCounter
  <2>2. \/ refusal'[r] = refusal[r] /\ refusal[r].step \in {"del_circuit", "del_counter"}
        \/ refusal'[r].step \in {"none", "del_circuit", "del_counter"}
    BY <1>4, <1>5, <1>12 DEF CheckCircuit, CheckInMemory, DeletionFails, DeleteCircuit, DeleteCounter, Again, At
  <2>3. Cardinality(Recording') <= Cardinality(Recording)
    BY <1>3, <1>7, <2>2
  <2>. QED  BY <1>3, <1>7, <2>1, <2>3, MemoryIsHonest
<1>. QED  BY <1>8, <1>9, <1>10, <1>11, <1>12 DEF Refusal

LEMMA ReasonBegins == BreakerInit => ReasonInv
<1>. SUFFICES ASSUME BreakerInit PROVE ReasonInv
  OBVIOUS
<1>1. BreakerTypeOK
  BY BreakerBegins
<1>2. Window \in Nat \ {0} /\ 0 \in 0..Window /\ \A k \in 0..Window : recent[k] = 0
  BY BreakerNumbers DEF BreakerInit
<1>3. RecentGrows
  BY <1>2 DEF RecentGrows
<1>4. \A s \in Refusals : refusal[s].step = "none"
  BY DEF BreakerInit, NoRefusal
<1>5. Recording = {} /\ Counting = {}
  BY <1>4 DEF Recording, Counting, At
<1>6. counter.value = 0 /\ counter.left = 0 /\ ownCount.count = 0 /\ ownCount.age = 0
  BY DEF BreakerInit, NoCounter, ClosedMemory
<1>7. IsFiniteSet({}) /\ Cardinality({}) = 0
  BY FS_EmptySet
<1>8. KeyAge = 0
  BY <1>6 DEF KeyAge
<1>9. CounterOK
  BY <1>2, <1>4, <1>5, <1>6, <1>7, <1>8 DEF CounterOK, Covered, At
<1>10. OwnCountOK
  BY <1>2, <1>5, <1>6, <1>7 DEF OwnCountOK, Covered
<1>. QED  BY <1>1, <1>3, <1>9, <1>10 DEF ReasonInv

(* In a tick what is recent grows older by one, and every refusal late.    *)
LEMMA TimePasses ==
    ASSUME ReasonInv, BreakerTick
    PROVE  RecentGrows' /\ CounterOK' /\ OwnCountOK'
<1>. DEFINE value == counter.value  left == counter.left
            count == ownCount.count  age == ownCount.age
<1>1. /\ BreakerTypeOK /\ CounterOK /\ RecentGrows /\ OwnCountOK
      /\ Window \in Nat \ {0} /\ Threshold \in Nat \ {0, 1} /\ Endless = Window + 1
      /\ value \in 0..Threshold /\ left \in 0..Endless
      /\ count \in 0..Threshold /\ age \in 0..(Window + 1)
      /\ \A k \in 0..Window : recent[k] \in 0..Threshold
  BY BreakerValues DEF ReasonInv
<1>2. /\ counter \in CounterType /\ ownCount \in OwnCountType /\ refusal \in [Refusals -> RefusalType]
  BY <1>1, BreakerTypes
<1>3. recent' = [k \in 0..Window |-> IF k = 0 THEN 0 ELSE recent[k - 1]]
  BY DEF BreakerTick
<1>4. recent'[0] = 0 /\ \A k \in 0..Window : k + 1 <= Window => recent'[k + 1] = recent[k]
  <2>1. recent'[0] = 0
    BY <1>1, <1>3
  <2>2. ASSUME NEW k \in 0..Window, k + 1 <= Window PROVE recent'[k + 1] = recent[k]
    <3>1. k + 1 \in 0..Window /\ k + 1 # 0 /\ (k + 1) - 1 = k
      BY <1>1, <2>2
    <3>. QED  BY <1>3, <3>1
  <2>. QED  BY <2>1, <2>2
<1>5. RecentGrows'
  <2>1. ASSUME NEW k \in 0..Window, NEW m \in 0..Window, k <= m PROVE recent'[k] <= recent'[m]
    <3>1. CASE k = 0
      <4>1. m = 0 \/ m - 1 \in 0..Window
        BY <1>1
      <4>. QED  BY <1>1, <1>3, <3>1, <4>1
    <3>2. CASE k # 0
      <4>1. k - 1 \in 0..Window /\ m - 1 \in 0..Window /\ k - 1 <= m - 1 /\ m # 0
        BY <1>1, <2>1, <3>2
      <4>. QED  BY <1>1, <1>3, <3>2, <4>1 DEF RecentGrows
    <3>. QED  BY <3>1, <3>2
  <2>. QED  BY <2>1 DEF RecentGrows
<1>6. \A s \in Refusals : /\ At(s, "none") => refusal'[s] = NoRefusal
                          /\ ~At(s, "none") => /\ Late(s)'
                                               /\ refusal'[s].step = refusal[s].step
                                               /\ refusal'[s].count = refusal[s].count
  <2>1. ASSUME NEW s \in Refusals, ~At(s, "none")
        PROVE  /\ Late(s)' /\ refusal'[s].step = refusal[s].step
               /\ refusal'[s].count = refusal[s].count
    <3>. DEFINE later == Capped(refusal[s].age + 1, Cooldown)
    <3>1. refusal[s] \in RefusalType /\ refusal[s].age \in 0..Cooldown /\ Cooldown \in Nat \ {0}
      BY <1>2, BreakerNumbers DEF RefusalType
    <3>2. later > 0
      BY <3>1 DEF Capped
    <3>3. refusal'[s] = [refusal[s] EXCEPT !.age = later]
      BY <2>1 DEF BreakerTick
    <3>. HIDE DEF later
    <3>. QED  BY <3>1, <3>2, <3>3 DEF Late, RefusalType
  <2>2. ASSUME NEW s \in Refusals, At(s, "none") PROVE refusal'[s] = NoRefusal
    BY <2>2 DEF BreakerTick
  <2>. QED  BY <2>1, <2>2
<1>7. Recording' = {} /\ Counting' = {} /\ IsFiniteSet({}) /\ Cardinality({}) = 0
  BY <1>6, FS_EmptySet DEF Recording, Counting, At, NoRefusal
<1>8. \A s \in Refusals : At(s, "expire")' => refusal'[s].count = 1 /\ Late(s)'
  BY <1>1, <1>6 DEF CounterOK, At, NoRefusal
<1>9. IsFiniteSet(Recording) /\ Cardinality(Recording) \in Nat /\ Cardinality(Counting) \in Nat
  <2>1. Counting \subseteq Recording
    BY DEF Counting, Recording, At
  <2>. QED  BY <1>1, <2>1, FS_Subset, FS_CardinalityType DEF OwnCountOK
<1>10. CounterOK'
  <2>1. CASE left = Endless
    <3>1. counter' = [counter EXCEPT !.spoilt = TRUE]
      BY <2>1, EndlessIsLong DEF BreakerTick
    <3>2. counter'.value = value /\ counter'.left = left /\ counter'.spoilt
      BY <1>2, <3>1 DEF CounterType
    <3>. QED  BY <1>1, <1>4, <1>7, <1>8, <3>2 DEF CounterOK, Covered
  <2>2. CASE left \in {0, 1}
    <3>1. counter' = NoCounter
      BY <2>2, EndlessIsLong DEF BreakerTick
    <3>2. counter'.value = 0 /\ counter'.left = 0
      BY <3>1 DEF NoCounter
    <3>3. KeyAge' = 0
      BY <3>2 DEF KeyAge
    <3>. QED  BY <1>4, <1>7, <1>8, <3>2, <3>3 DEF CounterOK, Covered
  <2>3. CASE left # Endless /\ left \notin {0, 1}
    <3>1. counter' = [counter EXCEPT !.left = @ - 1]
      BY <2>3 DEF BreakerTick
    <3>2. counter'.value = value /\ counter'.left = left - 1 /\ counter'.spoilt = counter.spoilt
      BY <1>2, <3>1 DEF CounterType
    <3>3. left \in 2..Window /\ value # 0
      BY <1>1, <2>3 DEF CounterOK
    <3>4. KeyAge = Window - left /\ KeyAge' = Window - (left - 1)
      <4>1. left \in 1..Window /\ left - 1 \in 1..Window
        BY <1>1, <3>3
      <4>. QED  BY <3>2, <4>1 DEF KeyAge
    <3>. HIDE DEF value, left
    <3>5. KeyAge \in 0..Window /\ KeyAge + 1 = KeyAge' /\ KeyAge + 1 <= Window /\ left - 1 # 0
      BY <1>1, <3>3, <3>4
    <3>6. ~counter.spoilt => value + 0 <= recent'[KeyAge'] \/ recent'[KeyAge'] = Threshold
      <4>. SUFFICES ASSUME ~counter.spoilt
                    PROVE  value + 0 <= recent'[KeyAge'] \/ recent'[KeyAge'] = Threshold
        OBVIOUS
      <4>1. recent'[KeyAge'] = recent[KeyAge] /\ recent[KeyAge] \in 0..Threshold
        BY <1>1, <1>4, <3>5
      <4>2. value + Cardinality(Counting) <= recent[KeyAge] \/ recent[KeyAge] = Threshold
        BY <1>1 DEF CounterOK, Covered, value
      <4>. QED  BY <1>1, <1>9, <4>1, <4>2
    <3>. QED  BY <1>4, <1>7, <1>8, <3>2, <3>3, <3>5, <3>6 DEF CounterOK, Covered
  <2>. QED  BY <2>1, <2>2, <2>3
<1>11. OwnCountOK'
  <2>1. /\ ownCount'.count = count /\ ownCount'.age = Capped(age + 1, Window + 1)
        /\ ownCount'.late = ownCount.late
    BY <1>2 DEF BreakerTick, OwnCountType
  <2>. DEFINE later == ownCount'.age
  <2>2. ASSUME later <= Window, ~ownCount.late
        PROVE  count + 0 <= recent'[later] \/ recent'[later] = Threshold
    <3>1. later = age + 1 /\ age \in 0..Window /\ age + 1 <= Window
      BY <1>1, <2>1, <2>2 DEF Capped
    <3>2. count + Cardinality(Recording) <= recent[age] \/ recent[age] = Threshold
      BY <1>1, <2>2, <3>1 DEF OwnCountOK, Covered
    <3>. HIDE DEF count, age, later
    <3>3. recent'[later] = recent[age] /\ recent[age] \in 0..Threshold
      BY <1>1, <1>4, <3>1
    <3>. QED  BY <1>1, <1>9, <3>2, <3>3
  <2>. QED  BY <1>4, <1>7, <2>1, <2>2 DEF OwnCountOK, Covered
<1>. QED  BY <1>5, <1>10, <1>11

LEMMA BreakerCrashes ==
    ASSUME ReasonInv, CrashRefusals
    PROVE  CounterOK' /\ OwnCountOK'
<1>1. /\ recent' = recent /\ counter' = counter /\ ownCount' = ClosedMemory
      /\ \A s \in Refusals : refusal'[s].step = "none"
  BY DEF CrashRefusals, NoRefusal
<1>2. Recording' = {} /\ Counting' = {} /\ IsFiniteSet({}) /\ Cardinality({}) = 0
  BY <1>1, FS_EmptySet DEF Recording, Counting, At
<1>3. 0 <= Cardinality(Recording) /\ 0 <= Cardinality(Counting)
  <2>1. Counting \subseteq Recording
    BY DEF Counting, Recording, At
  <2>. QED  BY <2>1, FS_Subset, FS_CardinalityType DEF ReasonInv, OwnCountOK
<1>4. CounterOK'
  BY <1>1, <1>2, <1>3, CounterStays DEF At
<1>5. OwnCountOK'
  <2>1. /\ IsFiniteSet(Recording') /\ Cardinality(Recording') \in Nat /\ FALSE \in BOOLEAN
        /\ recent' = recent /\ ownCount' \in {ownCount, ClosedMemory}
        /\ Cardinality(Recording') <= Cardinality(Recording)
    BY <1>1, <1>2, <1>3
  <2>. QED  BY <2>1, MemoryIsHonest
<1>. QED  BY <1>4, <1>5

LEMMA ReasonGoesOn ==
    ASSUME ReasonInv, [BreakerNext]_breakerVars
    PROVE  ReasonInv'
<1>1. BreakerTypeOK'
  BY BreakerGoesOn DEF ReasonInv
<1>. SUFFICES RecentGrows' /\ CounterOK' /\ OwnCountOK'
  BY <1>1 DEF ReasonInv
<1>2. ~BreakerTick => RecentGrows'
  <2>1. ~BreakerTick => recent' = recent \/ Counted
    BY DEF BreakerNext, Refusal, RefuseWithRedis, RefuseWithoutRedis, Increment, ExpireCounter,
       OpenCircuit, RecordFails, CheckCircuit, CheckInMemory, DeleteCircuit, DeleteCounter, DeletionFails,
       CrashRefusals, RedisComesOrGoes, breakerVars
  <2>. QED  BY <2>1, StillGrows DEF ReasonInv
<1>3. ASSUME NEW r \in Refusals, Refusal(r) PROVE CounterOK' /\ OwnCountOK'
  <2>1. CounterOK'
    BY <1>3, RedisCounts, ExpiryIsSet, CounterIsDeleted, CounterWaits DEF Refusal
  <2>. QED  BY <1>3, <2>1, RefusalIsHonest
<1>4. CASE CrashRefusals
  BY <1>2, <1>4, BreakerCrashes DEF CrashRefusals, ReasonInv, RecentGrows
<1>5. CASE RedisComesOrGoes \/ UNCHANGED breakerVars
  <2>1. counter' = counter /\ ownCount' = ownCount /\ refusal' = refusal /\ recent' = recent
    BY <1>5 DEF RedisComesOrGoes, breakerVars
  <2>. QED  BY <2>1 DEF ReasonInv, RecentGrows, CounterOK, OwnCountOK, Covered, Counting, Recording,
            KeyAge, At, Late, Endless
<1>6. CASE BreakerTick
  BY <1>6, TimePasses
<1>7. BreakerTick => RecentGrows'
  BY TimePasses
<1>. QED  BY <1>2, <1>3, <1>4, <1>5, <1>6, <1>7 DEF BreakerNext

(* A circuit opens when so many refusals were given within a window, or    *)
(* the counter was spoilt by a lost reply or a late call, for any threshold*)
(* and window and any number of refusals at a time, with Redis coming and  *)
(* going, commands sent again and the keys deleted meanwhile               *)
(* (record429Error, isCircuitOpen).                                        *)
THEOREM BreakerOpensForAReason == BreakerSpec => OpensForAReason
<1>. DEFINE A == /\ \A r \in Refusals : ~At(r, "set") /\ At(r, "set")' => InWindow \/ counter'.spoilt
                 /\ ownCount'.open /\ ~ownCount.open => InWindow' \/ ownCount'.late
<1>1. BreakerInit => ReasonInv
  BY ReasonBegins
<1>2. ReasonInv /\ [BreakerNext]_breakerVars => ReasonInv'
  BY ReasonGoesOn
<1>3. ReasonInv /\ [BreakerNext]_breakerVars => [A]_breakerVars
  <2>. SUFFICES ASSUME ReasonInv, BreakerNext PROVE A
    OBVIOUS
  <2>1. ASSUME NEW r \in Refusals, Refusal(r) PROVE A
    <3>1. \A s \in Refusals : ~At(s, "set") /\ At(s, "set")' => InWindow \/ counter'.spoilt
      BY <2>1, RedisCounts, ExpiryIsSet, CounterIsDeleted, CounterWaits DEF Refusal
    <3>. QED  BY <2>1, <3>1, RefusalIsHonest
  <2>2. CASE CrashRefusals \/ RedisComesOrGoes
    <3>1. (ownCount'.open => ownCount.open) /\ \A s \in Refusals : At(s, "set")' => At(s, "set")
      BY <2>2 DEF CrashRefusals, RedisComesOrGoes, ClosedMemory, NoRefusal, At
    <3>. QED  BY <3>1
  <2>3. CASE BreakerTick
    <3>1. ownCount \in OwnCountType /\ refusal \in [Refusals -> RefusalType]
      BY BreakerTypes DEF ReasonInv
    <3>2. ownCount'.open = ownCount.open
      BY <2>3, <3>1 DEF BreakerTick, OwnCountType
    <3>3. \A s \in Refusals : At(s, "set")' => At(s, "set")
      BY <2>3, <3>1 DEF BreakerTick, At, NoRefusal, RefusalType
    <3>. QED  BY <3>2, <3>3
  <2>. QED  BY <2>1, <2>2, <2>3 DEF BreakerNext
<1>4. []ReasonInv /\ [][BreakerNext]_breakerVars => [][A]_breakerVars
  BY <1>3, PTL
<1>. QED  BY <1>1, <1>2, <1>4, PTL DEF BreakerSpec, OpensForAReason
=============================================================================
