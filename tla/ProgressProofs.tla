--------------------------- MODULE ProgressProofs ---------------------------
(***************************************************************************)
(* Theorems about the work that must come to an end: avatars' tasks and    *)
(* analyses live the life of a job, and the log lines in Redis.            *)
(***************************************************************************)
EXTENDS MCProgress, TurnProofs

(* Avatars.  A task that ended takes no further step.                      *)
Working(w) ==
    /\ w.step # "none" => w.status \in {"pending", "processing", "tts", "generating"}
    /\ w.step \notin {"none", "answer"} => w.status # "pending"

ShowRecords ==
    [status : {"none", "pending", "processing", "tts", "generating",
               "success", "failed", "gone"},
     step : {"none", "answer", "speech", "submit", "poll", "video"},
     attempts : 0..MaxAttempts,
     has : SUBSET {"text", "sound", "video"}]

AvatarInv == AvatarTypeOK /\ \A s \in Shows : Working(shows[s])

ShowState(w) ==
    CASE w.status \in {"none", "failed", "gone"} -> w.status
      [] w.status = "pending" -> "queued"
      [] w.status = "success" -> "done"
      [] OTHER -> "running"

ShowResult(w) == IF w.status = "success" THEN w.has ELSE {}

(* What may become of a job.                                               *)
Goes(before, after, old, new) ==
    \/ after = before /\ new = old
    \/ before = "none" /\ after \in {"queued", "running"} /\ new = old
    \/ before = "queued" /\ after = "running" /\ new = old
    \/ before = "running" /\ after = "failed" /\ new = old
    \/ before = "running" /\ after = "done" /\ new # {}

LEMMA ShowGoes ==
    ASSUME AvatarTypeOK, NEW s \in Shows,
           \A r \in Shows : r # s => shows'[r] = shows[r],
           Goes(ShowState(shows[s]), ShowState(shows'[s]),
                ShowResult(shows[s]), ShowResult(shows'[s]))
    PROVE  [ShowLife!Next]_(ShowLife!vars)
<1>. DEFINE state == [r \in Shows |-> ShowState(shows[r])]
            result == [r \in Shows |-> ShowResult(shows[r])]
<1>1. /\ state' = [state EXCEPT ![s] = ShowState(shows'[s])]
      /\ result' = [result EXCEPT ![s] = ShowResult(shows'[s])]
      /\ result'[s] = ShowResult(shows'[s])
      /\ state[s] = ShowState(shows[s]) /\ result[s] = ShowResult(shows[s])
  OBVIOUS
<1>2. CASE ShowState(shows'[s]) = ShowState(shows[s]) /\ ShowResult(shows'[s]) = ShowResult(shows[s])
  <2>1. state' = state /\ result' = result
    BY <1>1, <1>2
  <2>. QED  BY <2>1 DEF ShowLife!vars, ShowState, ShowResult
<1>3. CASE ShowResult(shows'[s]) = ShowResult(shows[s])
           /\ ShowState(shows[s]) = "none" /\ ShowState(shows'[s]) \in {"queued", "running"}
  <2>1. result' = result
    BY <1>1, <1>3
  <2>2. ShowLife!Submit(s)
    BY <1>1, <1>3, <2>1 DEF ShowLife!Submit, ShowLife!To, ShowState, ShowResult
  <2>. QED  BY <2>2 DEF ShowLife!Next
<1>4. CASE /\ ShowResult(shows'[s]) = ShowResult(shows[s])
           /\ ShowState(shows[s]) = "queued" /\ ShowState(shows'[s]) = "running"
  <2>1. result' = result
    BY <1>1, <1>4
  <2>2. ShowLife!Start(s)
    BY <1>1, <1>4, <2>1 DEF ShowLife!Start, ShowLife!To, ShowState, ShowResult
  <2>. QED  BY <2>2 DEF ShowLife!Next
<1>5. CASE /\ ShowResult(shows'[s]) = ShowResult(shows[s])
           /\ ShowState(shows[s]) = "running" /\ ShowState(shows'[s]) = "failed"
  <2>1. result' = result
    BY <1>1, <1>5
  <2>2. ShowLife!Fail(s)
    BY <1>1, <1>5, <2>1 DEF ShowLife!Fail, ShowLife!To, ShowState, ShowResult
  <2>. QED  BY <2>2 DEF ShowLife!Next
<1>6. CASE /\ ShowResult(shows'[s]) # {}
           /\ ShowState(shows[s]) = "running" /\ ShowState(shows'[s]) = "done"
  <2>1. ShowLife!Finish(s)
    BY <1>1, <1>6 DEF ShowLife!Finish, ShowLife!To, ShowState, ShowResult
  <2>. QED  BY <2>1 DEF ShowLife!Next
<1>. QED  BY <1>2, <1>3, <1>4, <1>5, <1>6 DEF Goes

(* The rows of one task replaced.                                          *)
LEMMA ShowIsUpdated ==
    ASSUME AvatarTypeOK, NEW s \in Shows,
           NEW status \in {"none", "pending", "processing", "tts", "generating",
                           "success", "failed", "gone"},
           NEW step \in {"none", "answer", "speech", "submit", "poll", "video"},
           NEW has \in SUBSET {"text", "sound", "video"},
           UpdateShow(s, status, step, has), render' \in [Videos -> {"none", "busy", "done", "failed"}]
    PROVE  /\ AvatarTypeOK'
           /\ \A r \in Shows : r # s => shows'[r] = shows[r]
           /\ shows'[s].status = status /\ shows'[s].step = step /\ shows'[s].has = has
<1>. DEFINE Tasks == [Shows -> ShowRecords]
            one == [shows EXCEPT ![s].status = status]
            two == [one EXCEPT ![s].step = step]
            three == [two EXCEPT ![s].has = has]
<1>1. shows \in Tasks /\ shows' = three
  BY DEF AvatarTypeOK, UpdateShow, ShowRecords
<1>2. one \in Tasks /\ one[s].status = status /\ \A r \in Shows : r # s => one[r] = shows[r]
  BY <1>1 DEF ShowRecords
<1>. HIDE DEF one
<1>3. /\ two \in Tasks /\ two[s].status = status /\ two[s].step = step
      /\ \A r \in Shows : r # s => two[r] = shows[r]
  BY <1>2 DEF ShowRecords
<1>. HIDE DEF two
<1>4. /\ three \in Tasks /\ three[s].status = status /\ three[s].step = step /\ three[s].has = has
      /\ \A r \in Shows : r # s => three[r] = shows[r]
  BY <1>3 DEF ShowRecords
<1>. HIDE DEF three
<1>. QED  BY <1>1, <1>4 DEF AvatarTypeOK, ShowRecords

(* A task's step is a step of its job, or none.                            *)
ShowStep(s) ==
    /\ AvatarTypeOK' /\ \A r \in Shows : r # s => shows'[r] = shows[r]
    /\ Working(shows'[s])
    /\ Goes(ShowState(shows[s]), ShowState(shows'[s]), ShowResult(shows[s]), ShowResult(shows'[s]))

LEMMA ShowStepIsGood ==
    ASSUME AvatarInv, NEW s \in Shows, ShowStep(s)
    PROVE  AvatarInv' /\ [ShowLife!Next]_(ShowLife!vars)
<1>1. [ShowLife!Next]_(ShowLife!vars)
  BY ShowGoes DEF ShowStep, AvatarInv
<1>2. \A r \in Shows : Working(shows'[r])
  BY DEF ShowStep, AvatarInv
<1>. QED  BY <1>1, <1>2 DEF ShowStep, AvatarInv

LEMMA VideoSteps ==
    ASSUME AvatarInv, NEW v \in Videos, CreateVideo(v) \/ VideoWork(v) \/ RenderEnds(v)
    PROVE  AvatarInv' /\ [ShowLife!Next]_(ShowLife!vars)
<1>. USE DEF Goes, ShowState, ShowResult, Working
<1>0. /\ v \in Shows /\ AvatarTypeOK /\ Working(shows[v]) /\ shows[v] \in ShowRecords
      /\ render \in [Videos -> {"none", "busy", "done", "failed"}]
  BY DEF AvatarInv, Shows, AvatarTypeOK, ShowRecords
<1>1. CASE CreateVideo(v)
  <2>1. UpdateShow(v, "processing", "speech", {}) /\ render' = render /\ shows[v].status = "none"
    BY <1>1 DEF CreateVideo
  <2>2. ShowStep(v)
    BY <1>0, <2>1, ShowIsUpdated DEF ShowStep
  <2>. QED  BY <1>0, <2>2, ShowStepIsGood
<1>2. CASE GenerateAudio(v)
  <2>1. PICK status \in {"processing", "failed"}, step \in {"submit", "none"},
             has \in {{}, {"sound"}} :
          /\ UpdateShow(v, status, step, has) /\ render' = render /\ shows[v].step = "speech"
          /\ status = "failed" <=> step = "none"
    BY <1>2 DEF GenerateAudio, Ended
  <2>2. ShowStep(v)
    BY <1>0, <2>1, ShowIsUpdated DEF ShowStep
  <2>. QED  BY <1>0, <2>2, ShowStepIsGood
<1>3. CASE SubmitVideo(v)
  <2>1. PICK status \in {"processing", "failed"}, step \in {"poll", "none"} :
          /\ UpdateShow(v, status, step, {"sound"}) /\ shows[v].step = "submit"
          /\ render' \in [Videos -> {"none", "busy", "done", "failed"}]
          /\ status = "failed" <=> step = "none"
    BY <1>0, <1>3 DEF SubmitVideo, Ended
  <2>2. ShowStep(v)
    BY <1>0, <2>1, ShowIsUpdated DEF ShowStep
  <2>. QED  BY <1>0, <2>2, ShowStepIsGood
<1>4. CASE GiveUp(v)
  <2>1. UpdateShow(v, "failed", "none", shows[v].has) /\ render' = render /\ shows[v].step = "poll"
    BY <1>4 DEF GiveUp, Ended
  <2>2. shows[v].has \in SUBSET {"text", "sound", "video"}
    BY <1>0 DEF ShowRecords
  <2>3. ShowStep(v)
    BY <1>0, <2>1, <2>2, ShowIsUpdated DEF ShowStep
  <2>. QED  BY <1>0, <2>3, ShowStepIsGood
<1>5. CASE RenderEnds(v)
  <2>1. shows' = shows /\ render' \in [Videos -> {"none", "busy", "done", "failed"}]
    BY <1>0, <1>5 DEF RenderEnds
  <2>2. ShowStep(v)
    BY <1>0, <2>1 DEF ShowStep, AvatarTypeOK
  <2>. QED  BY <1>0, <2>2, ShowStepIsGood
<1>6. CASE Poll(v)
  <2>1. PICK reply \in Replies(v) :
          shows' = [shows EXCEPT
             ![v].attempts = @ + 1,
             ![v].status = CASE reply = "done" -> "success" [] reply = "failed" -> "failed"
                             [] OTHER -> @,
             ![v].step = IF reply \in {"done", "failed"} THEN "none" ELSE @,
             ![v].has = IF reply = "done" THEN @ \cup {"video"} ELSE @]
    BY <1>6 DEF Poll
  <2>. DEFINE Tasks == [Shows -> ShowRecords]
              status == CASE reply = "done" -> "success" [] reply = "failed" -> "failed"
                          [] OTHER -> shows[v].status
              step == IF reply \in {"done", "failed"} THEN "none" ELSE shows[v].step
              has == IF reply = "done" THEN shows[v].has \cup {"video"} ELSE shows[v].has
              one == [shows EXCEPT ![v].attempts = @ + 1]
              two == [one EXCEPT ![v].status = CASE reply = "done" -> "success"
                                  [] reply = "failed" -> "failed" [] OTHER -> @]
              three == [two EXCEPT ![v].step = IF reply \in {"done", "failed"} THEN "none" ELSE @]
              four == [three EXCEPT ![v].has = IF reply = "done" THEN @ \cup {"video"} ELSE @]
  <2>2. shows' = four /\ shows \in Tasks
    BY <1>0, <2>1 DEF AvatarTypeOK, ShowRecords
  <2>3. shows[v].step = "poll" /\ shows[v].attempts < MaxAttempts /\ render' = render
    BY <1>6 DEF Poll
  <2>4. /\ one \in Tasks /\ \A r \in Shows : r # v => one[r] = shows[r]
        /\ one[v].status = shows[v].status /\ one[v].step = shows[v].step
        /\ one[v].has = shows[v].has
    BY <1>0, <2>2, <2>3, AvatarAssumption DEF ShowRecords
  <2>. HIDE DEF one
  <2>5. /\ two \in Tasks /\ \A r \in Shows : r # v => two[r] = shows[r]
        /\ two[v].status = status /\ two[v].step = shows[v].step /\ two[v].has = shows[v].has
    BY <1>0, <2>4 DEF ShowRecords
  <2>. HIDE DEF two
  <2>6. /\ three \in Tasks /\ \A r \in Shows : r # v => three[r] = shows[r]
        /\ three[v].status = status /\ three[v].step = step /\ three[v].has = shows[v].has
    BY <1>0, <2>5 DEF ShowRecords
  <2>. HIDE DEF three
  <2>7. /\ four \in Tasks /\ \A r \in Shows : r # v => four[r] = shows[r]
        /\ four[v].status = status /\ four[v].step = step /\ four[v].has = has
    BY <1>0, <2>6 DEF ShowRecords
  <2>. HIDE DEF four
  <2>8. AvatarTypeOK'
    BY <1>0, <2>2, <2>3, <2>7 DEF AvatarTypeOK, ShowRecords
  <2>9. /\ shows[v].status \in {"processing", "tts", "generating"}
        /\ reply = "done" => status = "success" /\ step = "none" /\ has # {}
        /\ reply = "failed" => status = "failed" /\ step = "none"
        /\ reply \notin {"done", "failed"} =>
              status = shows[v].status /\ step = shows[v].step /\ has = shows[v].has
    BY <1>0, <2>3
  <2>. HIDE DEF status, step, has
  <2>10. ShowStep(v)
    BY <1>0, <2>2, <2>3, <2>7, <2>8, <2>9 DEF ShowStep
  <2>. QED  BY <1>0, <2>10, ShowStepIsGood
<1>. QED  BY <1>1, <1>2, <1>3, <1>4, <1>5, <1>6 DEF VideoWork

LEMMA TalkSteps ==
    ASSUME AvatarInv, NEW t \in Talks, CreateTalk(t) \/ TalkWork(t)
    PROVE  AvatarInv' /\ [ShowLife!Next]_(ShowLife!vars)
<1>. USE DEF Goes, ShowState, ShowResult, Working
<1>0. /\ t \in Shows /\ AvatarTypeOK /\ Working(shows[t]) /\ shows[t] \in ShowRecords
      /\ render \in [Videos -> {"none", "busy", "done", "failed"}]
  BY DEF AvatarInv, Shows, AvatarTypeOK, ShowRecords
<1>1. CASE CreateTalk(t)
  <2>1. UpdateShow(t, "pending", "answer", {}) /\ render' = render /\ shows[t].status = "none"
    BY <1>1 DEF CreateTalk
  <2>2. ShowStep(t)
    BY <1>0, <2>1, ShowIsUpdated DEF ShowStep
  <2>. QED  BY <1>0, <2>2, ShowStepIsGood
<1>2. CASE Chat(t)
  <2>1. UpdateShow(t, "tts", "speech", {"text"}) /\ render' = render /\ shows[t].step = "answer"
    BY <1>2 DEF Chat
  <2>2. ShowStep(t)
    BY <1>0, <2>1, ShowIsUpdated DEF ShowStep
  <2>. QED  BY <1>0, <2>2, ShowStepIsGood
<1>3. CASE Speak(t)
  <2>1. PICK status \in {"generating", "success"}, step \in {"video", "none"},
             has \in {{"text"}, {"text", "sound"}} :
          /\ UpdateShow(t, status, step, has) /\ render' = render /\ shows[t].step = "speech"
          /\ status = "success" <=> step = "none"
    BY <1>3 DEF Speak, Ended
  <2>2. ShowStep(t)
    BY <1>0, <2>1, ShowIsUpdated DEF ShowStep
  <2>. QED  BY <1>0, <2>2, ShowStepIsGood
<1>4. CASE GenerateVideo(t)
  <2>1. PICK more \in SUBSET {"video"} :
          /\ UpdateShow(t, "success", "none", {"text", "sound"} \cup more)
          /\ render' = render /\ shows[t].step = "video"
    BY <1>4 DEF GenerateVideo, Ended
  <2>. DEFINE has == {"text", "sound"} \cup more
  <2>2. has \in SUBSET {"text", "sound", "video"} /\ has # {}
    OBVIOUS
  <2>. HIDE DEF has
  <2>3. ShowStep(t)
    BY <1>0, <2>1, <2>2, ShowIsUpdated DEF ShowStep, has
  <2>. QED  BY <1>0, <2>3, ShowStepIsGood
<1>. QED  BY <1>1, <1>2, <1>3, <1>4 DEF TalkWork

(* What is forgotten is removed, all of it at once.                        *)
LEMMA ShowsAreForgotten ==
    ASSUME AvatarInv, ForgetShows
    PROVE  AvatarInv' /\ [ShowLife!Next]_(ShowLife!vars)
<1>. DEFINE gone == {s \in Shows : shows[s].status # "none"}
            Gone == [NoShow EXCEPT !.status = "gone"]
<1>1. NoShow \in ShowRecords /\ Gone \in ShowRecords /\ Gone.status = "gone" /\ Gone.step = "none"
      /\ NoShow.status = "none" /\ NoShow.step = "none"
  BY AvatarAssumption DEF NoShow, ShowRecords
<1>. HIDE DEF Gone
<1>2. /\ shows' = [s \in Shows |-> IF shows[s].status = "none" THEN NoShow ELSE Gone]
      /\ render' = render
  BY DEF ForgetShows, Gone
<1>3. AvatarInv'
  BY <1>1, <1>2 DEF AvatarInv, AvatarTypeOK, ShowRecords, Working
<1>4. /\ gone # {} /\ gone \in SUBSET Shows
      /\ \A s \in gone : ShowState(shows[s]) # "none"
  BY DEF ForgetShows, ShowState
<1>5. \A s \in Shows :
         /\ ShowState(shows'[s]) = IF s \in gone THEN "gone" ELSE ShowState(shows[s])
         /\ ShowResult(shows'[s]) = IF s \in gone THEN {} ELSE ShowResult(shows[s])
  BY <1>1, <1>2 DEF ShowState, ShowResult
<1>. HIDE DEF gone
<1>6. ShowLife!Remove(gone)
  BY <1>4, <1>5 DEF ShowLife!Remove, ShowState, ShowResult
<1>7. \E g \in SUBSET Shows : ShowLife!Remove(g)
  BY <1>4, <1>6 DEF ShowLife!Remove
<1>. QED  BY <1>3, <1>7 DEF ShowLife!Next

LEMMA ShowsBegin == AvatarInit => AvatarInv /\ ShowLife!Init
BY AvatarAssumption DEF AvatarInit, NoShow, AvatarInv, AvatarTypeOK, Working, ShowLife!Init

LEMMA ShowsGoOn ==
    AvatarInv /\ [AvatarNext]_avatarVars => AvatarInv' /\ [ShowLife!Next]_(ShowLife!vars)
<1>1. CASE UNCHANGED avatarVars
  BY <1>1 DEF avatarVars, AvatarInv, AvatarTypeOK, ShowLife!vars
<1>. QED  BY <1>1, VideoSteps, TalkSteps, ShowsAreForgotten DEF AvatarNext
-----------------------------------------------------------------------------
(* Analyses.                                                               *)
Grading == [score : 350..950, by : {"model", "heuristic"}]
Statuses == {"absent", "pending", "processing", "completed", "failed", "deleted"}
TypeWeights(type) == [k \in DOMAIN DimensionConfigs[type] |-> DimensionConfigs[type][k].weight]

(* What a review has judged: by the heuristic, from the document it read.  *)
Judgement(type, document, results) ==
    /\ results \in Seq(Grading)
    /\ results # <<>> => document # {}
    /\ \A d, e \in document : d = e
    /\ \A k \in DOMAIN results : results[k].by = "heuristic" =>
          \A d \in document : results[k].score =
              ClampScore(HeuristicGrade(DimensionConfigs[type][k].name, d))

Reports ==
    {CheckReport(results) : results \in Seq(ParagraphResults)}
    \cup {ReviewReport(results, TypeWeights(type), document) :
             results \in Seq(Grading), type \in {"paper", "project"},
             document \in SUBSET Documents}

RowRecords ==
    [status : Statuses, type : {"paper", "project"}, units : Nat, readable : BOOLEAN,
     report : SUBSET Reports]

WorkRecords ==
    [phase : {"none", "called", "running"}, results : Seq(ParagraphResults) \cup Seq(Grading),
     document : SUBSET Documents]

CheckFits(row, job) ==
    /\ job.results \in Seq(ParagraphResults)
    /\ \A report \in row.report : \E results \in Seq(ParagraphResults) :
          Len(results) = row.units /\ report = CheckReport(results)

ReviewFits(row, job) ==
    /\ row.status # "absent" => row.units = Len(DimensionConfigs[row.type])
    /\ Judgement(row.type, job.document, job.results)
    /\ \A report \in row.report : \E results \in Seq(Grading), document \in SUBSET Documents :
          /\ Len(results) = row.units
          /\ Judgement(row.type, document, results)
          /\ report = ReviewReport(results, TypeWeights(row.type), document)

Fits(a, row, job) ==
    /\ job.phase = "called" => row.status \in {"pending", "deleted"}
    /\ job.phase = "running" => row.status \in {"processing", "deleted"}
    /\ row.status \in {"absent", "pending"} => job.results = <<>> /\ job.document = {}
    /\ row.report # {} <=> row.status = "completed"
    /\ Len(job.results) <= row.units
    /\ a \in Checks => CheckFits(row, job)
    /\ a \in Reviews => ReviewFits(row, job)

AnalysisInv ==
    /\ rows \in [Analyses -> RowRecords]
    /\ ages \in [Analyses -> 0..StaleAge]
    /\ work \in [Analyses -> WorkRecords]
    /\ \A a \in Analyses : Fits(a, rows[a], work[a])

(* The jobs of JobLife that analyses are.                                  *)
RowState(row) ==
    CASE row.status = "absent" -> "none"
      [] row.status = "pending" -> "queued"
      [] row.status = "processing" -> "running"
      [] row.status = "completed" -> "done"
      [] row.status = "failed" -> "failed"
      [] OTHER -> "gone"

LEMMA RowGoes ==
    ASSUME NEW a \in Analyses,
           \A b \in Analyses : b # a => rows'[b] = rows[b],
           Goes(RowState(rows[a]), RowState(rows'[a]), rows[a].report, rows'[a].report)
           \/ /\ RowState(rows[a]) # "none" /\ RowState(rows'[a]) = "gone"
              /\ rows'[a].report = {}
    PROVE  [Life!Next]_(Life!vars)
<1>. DEFINE state == [b \in Analyses |-> RowState(rows[b])]
            result == [b \in Analyses |-> rows[b].report]
<1>1. /\ state' = [state EXCEPT ![a] = RowState(rows'[a])]
      /\ result' = [result EXCEPT ![a] = rows'[a].report]
      /\ result'[a] = rows'[a].report
      /\ state[a] = RowState(rows[a]) /\ result[a] = rows[a].report
  OBVIOUS
<1>2. CASE RowState(rows'[a]) = RowState(rows[a]) /\ rows'[a].report = rows[a].report
  <2>1. state' = state /\ result' = result
    BY <1>1, <1>2
  <2>. QED  BY <2>1 DEF Life!vars, RowState
<1>3. CASE rows'[a].report = rows[a].report
           /\ RowState(rows[a]) = "none" /\ RowState(rows'[a]) \in {"queued", "running"}
  <2>1. result' = result
    BY <1>1, <1>3
  <2>2. Life!Submit(a)
    BY <1>1, <1>3, <2>1 DEF Life!Submit, Life!To, RowState
  <2>. QED  BY <2>2 DEF Life!Next
<1>4. CASE /\ rows'[a].report = rows[a].report
           /\ RowState(rows[a]) = "queued" /\ RowState(rows'[a]) = "running"
  <2>1. result' = result
    BY <1>1, <1>4
  <2>2. Life!Start(a)
    BY <1>1, <1>4, <2>1 DEF Life!Start, Life!To, RowState
  <2>. QED  BY <2>2 DEF Life!Next
<1>5. CASE /\ rows'[a].report = rows[a].report
           /\ RowState(rows[a]) = "running" /\ RowState(rows'[a]) = "failed"
  <2>1. result' = result
    BY <1>1, <1>5
  <2>2. Life!Fail(a)
    BY <1>1, <1>5, <2>1 DEF Life!Fail, Life!To, RowState
  <2>. QED  BY <2>2 DEF Life!Next
<1>6. CASE /\ rows'[a].report # {}
           /\ RowState(rows[a]) = "running" /\ RowState(rows'[a]) = "done"
  <2>1. Life!Finish(a)
    BY <1>1, <1>6 DEF Life!Finish, Life!To, RowState
  <2>. QED  BY <2>1 DEF Life!Next
<1>7. CASE /\ rows'[a].report = {}
           /\ RowState(rows[a]) # "none" /\ RowState(rows'[a]) = "gone"
  <2>1. /\ \A b \in {a} : state[b] # "none"
        /\ state' = [b \in Analyses |-> IF b \in {a} THEN "gone" ELSE state[b]]
        /\ result' = [b \in Analyses |-> IF b \in {a} THEN {} ELSE result[b]]
    BY <1>1, <1>7
  <2>2. Life!Remove({a})
    BY <2>1 DEF Life!Remove, RowState
  <2>3. \E gone \in SUBSET Analyses : Life!Remove(gone)
    BY <2>2 DEF Life!Remove
  <2>. QED  BY <2>3 DEF Life!Next
<1>. QED  BY <1>2, <1>3, <1>4, <1>5, <1>6, <1>7 DEF Goes

(* One analysis takes a step.                                              *)
AnalysisStep(a) ==
    /\ rows' \in [Analyses -> RowRecords]
    /\ ages' \in [Analyses -> 0..StaleAge]
    /\ work' \in [Analyses -> WorkRecords]
    /\ \A b \in Analyses : b # a => rows'[b] = rows[b] /\ work'[b] = work[b]
    /\ Fits(a, rows'[a], work'[a])
    /\ \/ Goes(RowState(rows[a]), RowState(rows'[a]), rows[a].report, rows'[a].report)
       \/ /\ RowState(rows[a]) # "none" /\ RowState(rows'[a]) = "gone"
          /\ rows'[a].report = {}

LEMMA AnalysisStepIsGood ==
    ASSUME AnalysisInv, NEW a \in Analyses, AnalysisStep(a)
    PROVE  AnalysisInv' /\ [Life!Next]_(Life!vars)
<1>1. [Life!Next]_(Life!vars)
  BY RowGoes DEF AnalysisStep
<1>2. \A b \in Analyses : Fits(b, rows'[b], work'[b])
  BY DEF AnalysisStep, AnalysisInv
<1>. QED  BY <1>1, <1>2 DEF AnalysisStep, AnalysisInv

LEMMA RowIsSet ==
    ASSUME AnalysisInv, NEW a \in Analyses, NEW status \in Statuses, NEW report \in SUBSET Reports,
           SetStatus(a, status, report)
    PROVE  /\ rows' \in [Analyses -> RowRecords] /\ ages' \in [Analyses -> 0..StaleAge]
           /\ \A b \in Analyses : b # a => rows'[b] = rows[b]
           /\ rows'[a].status = status /\ rows'[a].report = report
           /\ rows'[a].type = rows[a].type /\ rows'[a].units = rows[a].units
           /\ rows'[a].readable = rows[a].readable
           /\ rows[a].status \notin {"absent", "deleted"}
<1>. DEFINE Rows == [Analyses -> RowRecords]
            one == [rows EXCEPT ![a].status = status]
            two == [one EXCEPT ![a].report = report]
<1>1. rows \in Rows /\ rows' = two /\ rows[a].status \notin {"absent", "deleted"}
  BY DEF AnalysisInv, SetStatus, HasRow
<1>2. ages' \in [Analyses -> 0..StaleAge]
  BY AnalysisAssumption DEF AnalysisInv, SetStatus
<1>3. /\ one \in Rows /\ one[a].status = status /\ \A b \in Analyses : b # a => one[b] = rows[b]
      /\ one[a].type = rows[a].type /\ one[a].units = rows[a].units
      /\ one[a].readable = rows[a].readable
  BY <1>1 DEF RowRecords
<1>. HIDE DEF one
<1>4. /\ two \in Rows /\ two[a].status = status /\ two[a].report = report
      /\ \A b \in Analyses : b # a => two[b] = rows[b]
      /\ two[a].type = rows[a].type /\ two[a].units = rows[a].units
      /\ two[a].readable = rows[a].readable
  BY <1>3 DEF RowRecords
<1>. HIDE DEF two
<1>. QED  BY <1>1, <1>2, <1>4

LEMMA NothingToDo ==
    /\ NoWork \in WorkRecords /\ NoWork.phase = "none" /\ NoWork.results = <<>>
    /\ NoWork.document = {} /\ Len(NoWork.results) = 0
BY EmptySeq DEF NoWork, WorkRecords

LEMMA NoJudgement ==
    ASSUME NEW type PROVE Judgement(type, {}, <<>>)
BY EmptySeq DEF Judgement

(* A finished or forgotten work fits any row that was not just called.     *)
LEMMA RowAtRestFits ==
    ASSUME NEW a, NEW row \in RowRecords,
           row.report # {} <=> row.status = "completed",
           a \in Checks => \A report \in row.report : \E results \in Seq(ParagraphResults) :
               Len(results) = row.units /\ report = CheckReport(results),
           a \in Reviews =>
              /\ row.status # "absent" => row.units = Len(DimensionConfigs[row.type])
              /\ \A report \in row.report :
                    \E results \in Seq(Grading), document \in SUBSET Documents :
                       /\ Len(results) = row.units
                       /\ Judgement(row.type, document, results)
                       /\ report = ReviewReport(results, TypeWeights(row.type), document)
    PROVE  Fits(a, row, NoWork)
<1>1. row.units \in Nat /\ 0 <= row.units
  BY DEF RowRecords
<1>2. <<>> \in Seq(ParagraphResults) /\ Judgement(row.type, NoWork.document, NoWork.results)
  BY EmptySeq, NothingToDo, NoJudgement
<1>. QED  BY <1>1, <1>2, NothingToDo DEF Fits, CheckFits, ReviewFits

LEMMA AnalysisIsLeft ==
    ASSUME AnalysisInv, NEW a \in Analyses, LeaveSilently(a)
    PROVE  AnalysisStep(a)
<1>1. rows' = rows /\ ages' = ages /\ work' = [work EXCEPT ![a] = NoWork]
  BY DEF LeaveSilently, Leave
<1>2. /\ work' \in [Analyses -> WorkRecords] /\ work'[a] = NoWork
      /\ \A b \in Analyses : b # a => work'[b] = work[b]
  BY <1>1, NothingToDo DEF AnalysisInv
<1>3. Fits(a, rows[a], NoWork)
  BY RowAtRestFits DEF AnalysisInv, Fits, CheckFits, ReviewFits
<1>. QED  BY <1>1, <1>2, <1>3 DEF AnalysisStep, AnalysisInv, Goes

LEMMA AnalysisIsDeleted ==
    ASSUME AnalysisInv, NEW a \in Analyses, DeleteAnalysis(a)
    PROVE  AnalysisStep(a)
<1>. DEFINE Rows == [Analyses -> RowRecords]
            one == [rows EXCEPT ![a].status = "deleted"]
            two == [one EXCEPT ![a].report = {}]
<1>1. /\ rows \in Rows /\ rows' = two /\ rows[a].status \notin {"absent", "deleted"}
      /\ ages' = ages /\ work' = work
  BY DEF AnalysisInv, DeleteAnalysis, HasRow
<1>2. /\ one \in Rows /\ one[a].status = "deleted" /\ \A b \in Analyses : b # a => one[b] = rows[b]
      /\ one[a].type = rows[a].type /\ one[a].units = rows[a].units
  BY <1>1 DEF RowRecords, Statuses
<1>. HIDE DEF one
<1>3. /\ two \in Rows /\ two[a].status = "deleted" /\ two[a].report = {}
      /\ \A b \in Analyses : b # a => two[b] = rows[b]
      /\ two[a].type = rows[a].type /\ two[a].units = rows[a].units
  BY <1>2 DEF RowRecords
<1>. HIDE DEF two
<1>4. Fits(a, rows[a], work[a])
  BY DEF AnalysisInv
<1>5. Fits(a, rows'[a], work[a])
  BY <1>1, <1>3, <1>4 DEF Fits, CheckFits, ReviewFits
<1>6. RowState(rows[a]) # "none" /\ RowState(rows'[a]) = "gone"
  BY <1>1, <1>3 DEF RowState
<1>. QED  BY <1>1, <1>3, <1>5, <1>6 DEF AnalysisStep, AnalysisInv

LEMMA AnalysisAges ==
    ASSUME AnalysisInv, NEW a \in Analyses, AnalysisTick(a)
    PROVE  AnalysisStep(a)
<1>1. /\ rows' = rows /\ work' = work /\ ages' = [ages EXCEPT ![a] = @ + 1] /\ ages[a] < StaleAge
  BY DEF AnalysisTick
<1>2. ages' \in [Analyses -> 0..StaleAge]
  BY <1>1, AnalysisAssumption DEF AnalysisInv
<1>. QED  BY <1>1, <1>2 DEF AnalysisStep, AnalysisInv, Goes

LEMMA AnalysisStarts ==
    ASSUME AnalysisInv, NEW a \in Analyses, StartWork(a)
    PROVE  AnalysisStep(a)
<1>1. /\ rows' \in [Analyses -> RowRecords] /\ ages' \in [Analyses -> 0..StaleAge]
      /\ \A b \in Analyses : b # a => rows'[b] = rows[b]
      /\ rows'[a].status = "processing" /\ rows'[a].report = {}
      /\ rows'[a].type = rows[a].type /\ rows'[a].units = rows[a].units
      /\ rows[a].status \notin {"absent", "deleted"}
  BY RowIsSet DEF StartWork, Statuses
<1>2. work' = [work EXCEPT ![a].phase = "running"] /\ work[a].phase = "called"
  BY DEF StartWork
<1>3. /\ work' \in [Analyses -> WorkRecords] /\ work'[a].phase = "running"
      /\ work'[a].results = work[a].results /\ work'[a].document = work[a].document
      /\ \A b \in Analyses : b # a => work'[b] = work[b]
  BY <1>2 DEF AnalysisInv, WorkRecords
<1>4. Fits(a, rows[a], work[a])
  BY DEF AnalysisInv
<1>5. Fits(a, rows'[a], work'[a])
  BY <1>1, <1>3, <1>4 DEF Fits, CheckFits, ReviewFits
<1>6. rows[a].status = "pending" /\ rows[a].report = {}
  BY <1>1, <1>2, <1>4 DEF Fits
<1>7. Goes(RowState(rows[a]), RowState(rows'[a]), rows[a].report, rows'[a].report)
  BY <1>1, <1>6 DEF Goes, RowState
<1>. QED  BY <1>1, <1>3, <1>5, <1>7 DEF AnalysisStep

LEMMA AnalysisFails ==
    ASSUME AnalysisInv, NEW a \in Analyses, FailWork(a)
    PROVE  AnalysisStep(a)
<1>1. /\ rows' \in [Analyses -> RowRecords] /\ ages' \in [Analyses -> 0..StaleAge]
      /\ \A b \in Analyses : b # a => rows'[b] = rows[b]
      /\ rows'[a].status = "failed" /\ rows'[a].report = {}
      /\ rows'[a].type = rows[a].type /\ rows'[a].units = rows[a].units
      /\ rows[a].status \notin {"absent", "deleted"}
  BY RowIsSet DEF FailWork, Statuses
<1>2. /\ work' \in [Analyses -> WorkRecords] /\ work'[a] = NoWork
      /\ \A b \in Analyses : b # a => work'[b] = work[b]
  BY NothingToDo DEF AnalysisInv, FailWork, Leave
<1>3. Fits(a, rows[a], work[a]) /\ work[a].phase = "running"
  BY DEF AnalysisInv, FailWork
<1>4. rows'[a] \in RowRecords
  BY <1>1
<1>5. Fits(a, rows'[a], NoWork)
  BY <1>1, <1>3, <1>4, RowAtRestFits DEF Fits, ReviewFits
<1>6. rows[a].status = "processing" /\ rows[a].report = {}
  BY <1>1, <1>3 DEF Fits
<1>7. Goes(RowState(rows[a]), RowState(rows'[a]), rows[a].report, rows'[a].report)
  BY <1>1, <1>6 DEF Goes, RowState
<1>. QED  BY <1>1, <1>2, <1>5, <1>7 DEF AnalysisStep

(* Grades.                                                                 *)
LEMMA ScoresAreClamped ==
    ASSUME NEW grade \in Int
    PROVE  /\ ClampScore(grade) \in 350..950
           /\ grade >= 350 => ClampScore(grade) <= grade
           /\ \A most \in Int : most >= 350 /\ grade <= most => ClampScore(grade) <= most
<1>1. Min({950, grade}) = IF 950 <= grade THEN 950 ELSE grade
  BY LesserOfTwo
<1>. DEFINE low == Min({950, grade})
<1>2. low \in Int
  BY <1>1
<1>3. ClampScore(grade) = IF 350 >= low THEN 350 ELSE low
  BY <1>2, GreaterOfTwo DEF ClampScore
<1>. QED  BY <1>1, <1>3

Named == {"innovation", "science", "feasibility", "application", "form",
          "quality", "writing", "relevance", "completeness"}

LEMMA Dimensions ==
    ASSUME NEW type \in {"paper", "project"}
    PROVE  /\ Len(DimensionConfigs[type]) = 5 /\ DOMAIN DimensionConfigs[type] = 1..5
           /\ \A k \in 1..5 : DimensionConfigs[type][k].name \in Named
<1>1. CASE type = "paper"
  BY <1>1 DEF DimensionConfigs, Named
<1>2. CASE type = "project"
  BY <1>2 DEF DimensionConfigs, Named
<1>. QED  BY <1>1, <1>2

LEMMA GradesAreNumbers ==
    ASSUME NEW d \in Documents, NEW dimension \in Named
    PROVE  HeuristicGrade(dimension, d) \in Int
<1>1. /\ d.contributions \in Nat /\ d.references \in Nat /\ d.figures \in Nat
      /\ d.words \in Nat /\ d.paragraphs \in Nat /\ d.alignment \in 0..100
  BY AnalysisAssumption
<1>2. \A m, n \in Nat : Min({m, n}) \in Nat
  BY LesserOfTwo
<1>3. /\ d.words \div 50 \in Nat /\ (10 * d.paragraphs) \div 4 \in Nat
      /\ 2 * d.paragraphs \in Nat /\ d.words \div 80 \in Nat
      /\ (12 * d.alignment) \div 10 \in Nat /\ (8 * d.alignment) \div 10 \in Nat
      /\ (15 * d.alignment) \div 10 \in Nat
  BY <1>1
<1>4. /\ Min({d.references, 12}) \in Nat /\ Min({d.words \div 50, 80}) \in Nat
      /\ Min({d.references, 10}) \in Nat /\ Min({(10 * d.paragraphs) \div 4, 80}) \in Nat
      /\ Min({d.references, 15}) \in Nat /\ Min({2 * d.paragraphs, 80}) \in Nat
      /\ Min({d.words \div 80, 80}) \in Nat /\ Min({d.references, 8}) \in Nat
  BY <1>1, <1>2, <1>3
<1>5. CASE dimension = "innovation"
  BY <1>1, <1>3, <1>5 DEF HeuristicGrade
<1>6. CASE dimension = "science"
  BY <1>4, <1>6 DEF HeuristicGrade
<1>7. CASE dimension = "feasibility"
  BY <1>4, <1>7 DEF HeuristicGrade
<1>8. CASE dimension = "application"
  BY <1>3, <1>8 DEF HeuristicGrade
<1>9. CASE dimension = "form"
  BY <1>4, <1>9 DEF HeuristicGrade
<1>10. CASE dimension = "quality"
  BY <1>4, <1>10 DEF HeuristicGrade
<1>11. CASE dimension = "writing"
  BY <1>4, <1>11 DEF HeuristicGrade
<1>12. CASE dimension = "relevance"
  BY <1>3, <1>12 DEF HeuristicGrade
<1>13. CASE dimension = "completeness"
  BY <1>4, <1>13 DEF HeuristicGrade
<1>. QED  BY <1>5, <1>6, <1>7, <1>8, <1>9, <1>10, <1>11, <1>12, <1>13 DEF Named

LEMMA RowIsCreated ==
    ASSUME AnalysisInv, NEW a \in Analyses, NEW type \in {"paper", "project"},
           NEW units \in Nat, NEW readable \in BOOLEAN,
           a \in Reviews => units = Len(DimensionConfigs[type]),
           CreateRowOf(a, type, units, readable)
    PROVE  AnalysisStep(a)
<1>. DEFINE row == [status |-> "pending", type |-> type, units |-> units,
                    readable |-> readable, report |-> {}]
<1>1. /\ rows[a].status = "absent" /\ rows' = [rows EXCEPT ![a] = row] /\ ages' = ages
      /\ work' = [work EXCEPT ![a].phase = "called"]
  BY DEF CreateRowOf
<1>2. /\ row \in RowRecords /\ row.status = "pending" /\ row.type = type /\ row.units = units
      /\ row.report = {}
  BY DEF RowRecords, Statuses
<1>. HIDE DEF row
<1>3. /\ rows' \in [Analyses -> RowRecords] /\ rows'[a] = row
      /\ \A b \in Analyses : b # a => rows'[b] = rows[b]
  BY <1>1, <1>2 DEF AnalysisInv
<1>4. /\ work' \in [Analyses -> WorkRecords] /\ work'[a].phase = "called"
      /\ work'[a].results = work[a].results /\ work'[a].document = work[a].document
      /\ \A b \in Analyses : b # a => work'[b] = work[b]
  BY <1>1 DEF AnalysisInv, WorkRecords
<1>5. Fits(a, rows[a], work[a])
  BY DEF AnalysisInv
<1>6. work[a].results = <<>> /\ work[a].document = {} /\ rows[a].report = {}
  BY <1>1, <1>5 DEF Fits
<1>7. Len(<<>>) = 0 /\ 0 <= units /\ <<>> \in Seq(ParagraphResults) /\ Judgement(type, {}, <<>>)
  BY EmptySeq, NoJudgement
<1>8. Fits(a, rows'[a], work'[a])
  BY <1>2, <1>3, <1>4, <1>6, <1>7 DEF Fits, CheckFits, ReviewFits
<1>9. Goes(RowState(rows[a]), RowState(rows'[a]), rows[a].report, rows'[a].report)
  BY <1>1, <1>2, <1>3, <1>6 DEF Goes, RowState
<1>. QED  BY <1>1, <1>3, <1>4, <1>8, <1>9 DEF AnalysisStep, AnalysisInv

LEMMA AnalysesAreCreated ==
    ASSUME AnalysisInv
    PROVE  /\ \A a \in Checks : CreateCheck(a) => AnalysisStep(a)
           /\ \A a \in Reviews : CreateReview(a) => AnalysisStep(a)
<1>1. ASSUME NEW a \in Checks, CreateCheck(a) PROVE AnalysisStep(a)
  <2>1. PICK readable \in BOOLEAN, n \in 0..MaxParagraphs : CreateRowOf(a, "paper", n, readable)
    BY <1>1 DEF CreateCheck
  <2>2. n \in Nat /\ a \in Analyses /\ a \notin Reviews
    BY AnalysisAssumption DEF Analyses
  <2>. QED  BY <2>1, <2>2, RowIsCreated
<1>2. ASSUME NEW a \in Reviews, CreateReview(a) PROVE AnalysisStep(a)
  <2>1. PICK readable \in BOOLEAN, type \in DocTypes :
            CreateRowOf(a, type, Len(DimensionConfigs[type]), readable)
    BY <1>2 DEF CreateReview
  <2>2. type \in {"paper", "project"} /\ a \in Analyses
    BY AnalysisAssumption DEF Analyses
  <2>3. Len(DimensionConfigs[type]) \in Nat
    BY <2>2, Dimensions
  <2>. QED  BY <2>1, <2>2, <2>3, RowIsCreated
<1>. QED  BY <1>1, <1>2

(* One more unit was judged.                                               *)
LEMMA UnitIsJudged ==
    ASSUME AnalysisInv, NEW a \in Analyses, NEW verdict,
           work[a].phase = "running", Len(work[a].results) < rows[a].units,
           work' = [work EXCEPT ![a].results = Append(@, verdict)], UNCHANGED <<rows, ages>>,
           Append(work[a].results, verdict) \in Seq(ParagraphResults) \cup Seq(Grading),
           a \in Checks => verdict \in ParagraphResults,
           a \in Reviews =>
              Judgement(rows[a].type, work[a].document, Append(work[a].results, verdict))
    PROVE  AnalysisStep(a)
<1>. DEFINE longer == Append(work[a].results, verdict)
<1>1. work[a] \in WorkRecords /\ rows[a] \in RowRecords /\ Fits(a, rows[a], work[a])
  BY DEF AnalysisInv
<1>2. PICK S : work[a].results \in Seq(S)
  BY <1>1 DEF WorkRecords
<1>3. Len(longer) = Len(work[a].results) + 1
  BY <1>2
<1>4. Len(work[a].results) \in Nat /\ rows[a].units \in Nat
  BY <1>1, <1>2, LenProperties DEF RowRecords
<1>5. a \in Checks => longer \in Seq(ParagraphResults)
  BY <1>1, AppendProperties DEF Fits, CheckFits
<1>. HIDE DEF longer
<1>6. /\ work' \in [Analyses -> WorkRecords] /\ work'[a].phase = "running"
      /\ work'[a].results = longer /\ work'[a].document = work[a].document
      /\ \A b \in Analyses : b # a => work'[b] = work[b]
  BY DEF AnalysisInv, WorkRecords, longer
<1>7. Len(longer) <= rows[a].units
  BY <1>3, <1>4
<1>8. rows[a].status \in {"processing", "deleted"}
  BY <1>1 DEF Fits
<1>9. a \in Reviews => Judgement(rows[a].type, work[a].document, longer)
  BY DEF longer
<1>10. Fits(a, rows[a], work'[a])
  BY <1>1, <1>5, <1>6, <1>7, <1>8, <1>9 DEF Fits, CheckFits, ReviewFits
<1>. QED  BY <1>6, <1>10 DEF AnalysisStep, AnalysisInv, Goes

LEMMA ParagraphsAreChecked ==
    ASSUME AnalysisInv, NEW a \in Checks, CheckParagraph(a)
    PROVE  AnalysisStep(a)
<1>1. PICK verdict \in ParagraphResults :
          /\ work' = [work EXCEPT ![a].results = Append(@, verdict)]
          /\ work[a].phase = "running" /\ Len(work[a].results) < rows[a].units
          /\ UNCHANGED <<rows, ages>>
  BY DEF CheckParagraph, Judged
<1>2. a \in Analyses /\ a \notin Reviews
  BY AnalysisAssumption DEF Analyses
<1>3. work[a].results \in Seq(ParagraphResults)
  BY <1>2 DEF AnalysisInv, Fits, CheckFits
<1>4. Append(work[a].results, verdict) \in Seq(ParagraphResults)
  BY <1>3, AppendProperties
<1>. QED  BY <1>1, <1>2, <1>4, UnitIsJudged

LEMMA JudgementGrows ==
    ASSUME NEW type, NEW document, document # {}, NEW results, Judgement(type, document, results),
           NEW grade \in Grading,
           grade.by = "heuristic" => \A d \in document :
               grade.score = ClampScore(
                   HeuristicGrade(DimensionConfigs[type][Len(results) + 1].name, d))
    PROVE  Judgement(type, document, Append(results, grade))
<1>. DEFINE longer == Append(results, grade)
<1>1. results \in Seq(Grading) /\ Len(results) \in Nat
  BY LenProperties DEF Judgement
<1>2. /\ longer \in Seq(Grading) /\ Len(longer) = Len(results) + 1
      /\ longer[Len(results) + 1] = grade
      /\ \A k \in 1..Len(results) : longer[k] = results[k]
  BY <1>1, AppendProperties
<1>3. DOMAIN longer = 1..(Len(results) + 1) /\ DOMAIN results = 1..Len(results)
  BY <1>1, <1>2, LenProperties
<1>. HIDE DEF longer
<1>4. ASSUME NEW k \in DOMAIN longer, longer[k].by = "heuristic", NEW d \in document
      PROVE  longer[k].score = ClampScore(HeuristicGrade(DimensionConfigs[type][k].name, d))
  <2>1. CASE k = Len(results) + 1
    BY <1>2, <1>4, <2>1
  <2>2. CASE k # Len(results) + 1
    <3>1. k \in 1..Len(results)
      BY <1>1, <1>3, <2>2
    <3>. QED  BY <1>2, <1>3, <1>4, <3>1 DEF Judgement
  <2>. QED  BY <2>1, <2>2
<1>5. Judgement(type, document, longer)
  BY <1>2, <1>4 DEF Judgement
<1>. QED  BY <1>5 DEF longer

LEMMA DimensionsAreEvaluated ==
    ASSUME AnalysisInv, NEW a \in Reviews, EvaluateDimension(a)
    PROVE  AnalysisStep(a)
<1>. DEFINE place == Len(work[a].results) + 1
            type == rows[a].type
<1>1. a \in Analyses /\ a \notin Checks
  BY AnalysisAssumption DEF Analyses
<1>2. /\ type \in {"paper", "project"} /\ rows[a].units \in Nat
      /\ work[a].document \in SUBSET Documents
      /\ Judgement(type, work[a].document, work[a].results)
      /\ work[a].phase = "running" => rows[a].status # "absent"
      /\ rows[a].status # "absent" => rows[a].units = Len(DimensionConfigs[type])
  BY <1>1 DEF AnalysisInv, Fits, ReviewFits, RowRecords, WorkRecords
<1>3. PICK d \in work[a].document :
         LET k == Len(work[a].results) + 1
             dimension == DimensionConfigs[rows[a].type][k].name
         IN  /\ k <= rows[a].units
             /\ Judged(a, {[score |-> ClampScore(g), by |-> "model"] : g \in Grades}
                    \cup {[score |-> ClampScore(HeuristicGrade(dimension, d)), by |-> "heuristic"]})
  BY DEF EvaluateDimension
<1>. DEFINE dimension == DimensionConfigs[type][place].name
<1>4. PICK grade \in {[score |-> ClampScore(g), by |-> "model"] : g \in Grades}
                \cup {[score |-> ClampScore(HeuristicGrade(dimension, d)), by |-> "heuristic"]} :
         work' = [work EXCEPT ![a].results = Append(@, grade)]
  BY <1>3 DEF Judged
<1>5. /\ work[a].phase = "running" /\ Len(work[a].results) < rows[a].units
      /\ UNCHANGED <<rows, ages>> /\ place <= rows[a].units
  BY <1>3 DEF Judged
<1>6. d \in Documents /\ dimension \in Named
  <2>1. Len(work[a].results) \in Nat /\ rows[a].units = 5
    BY <1>2, <1>5, Dimensions, LenProperties DEF Judgement
  <2>2. place \in 1..5
    BY <1>5, <2>1
  <2>. QED  BY <1>2, <2>2, Dimensions
<1>. HIDE DEF dimension
<1>7. HeuristicGrade(dimension, d) \in Int
  BY <1>6, GradesAreNumbers
<1>8. /\ grade \in Grading
      /\ grade.by = "heuristic" => grade.score = ClampScore(HeuristicGrade(dimension, d))
  <2>. DEFINE own == [score |-> ClampScore(HeuristicGrade(dimension, d)), by |-> "heuristic"]
  <2>1. grade = own \/ \E g \in Grades : grade = [score |-> ClampScore(g), by |-> "model"]
    <3>1. grade \in {[score |-> ClampScore(g), by |-> "model"] : g \in Grades} \cup {own}
      BY <1>4
    <3>. HIDE DEF own
    <3>. QED  BY <3>1
  <2>2. CASE grade = own
    BY <1>7, <2>2, ScoresAreClamped DEF Grading
  <2>3. ASSUME NEW g \in Grades, grade = [score |-> ClampScore(g), by |-> "model"]
        PROVE  grade \in Grading /\ grade.by # "heuristic"
    <3>1. g \in Int
      BY AnalysisAssumption
    <3>. QED  BY <2>3, <3>1, ScoresAreClamped DEF Grading
  <2>. HIDE DEF own
  <2>. QED  BY <2>1, <2>2, <2>3
<1>9. \A e \in work[a].document : e = d
  BY <1>2 DEF Judgement
<1>10. Judgement(type, work[a].document, Append(work[a].results, grade))
  BY <1>2, <1>8, <1>9, JudgementGrows DEF dimension
<1>11. Append(work[a].results, grade) \in Seq(Grading)
  BY <1>10 DEF Judgement
<1>. QED  BY <1>1, <1>4, <1>5, <1>10, <1>11, UnitIsJudged

LEMMA DocumentIsIngested ==
    ASSUME AnalysisInv, NEW a \in Reviews, IngestDocument(a)
    PROVE  AnalysisStep(a)
<1>1. a \in Analyses /\ a \notin Checks
  BY AnalysisAssumption DEF Analyses
<1>2. PICK d \in Documents : work' = [work EXCEPT ![a].document = {d}]
  BY DEF IngestDocument
<1>3. /\ work[a].phase = "running" /\ work[a].document = {} /\ UNCHANGED <<rows, ages>>
      /\ Fits(a, rows[a], work[a])
  BY <1>1 DEF IngestDocument, AnalysisInv
<1>4. /\ work' \in [Analyses -> WorkRecords] /\ work'[a].phase = "running"
      /\ work'[a].results = work[a].results /\ work'[a].document = {d}
      /\ \A b \in Analyses : b # a => work'[b] = work[b]
  BY <1>1, <1>2, <1>3 DEF AnalysisInv, WorkRecords
<1>5. work[a].results = <<>> /\ work[a].results \in Seq(Grading)
  BY <1>1, <1>3 DEF Fits, ReviewFits, Judgement
<1>6. Judgement(rows[a].type, {d}, work[a].results)
  BY <1>5, EmptySeq DEF Judgement
<1>7. Fits(a, rows[a], work'[a])
  BY <1>1, <1>3, <1>4, <1>6 DEF Fits, ReviewFits
<1>. QED  BY <1>1, <1>3, <1>4, <1>7 DEF AnalysisStep, AnalysisInv, Goes

LEMMA AnalysisIsCompleted ==
    ASSUME AnalysisInv, NEW a \in Analyses, CompleteWork(a)
    PROVE  AnalysisStep(a)
<1>1. /\ Fits(a, rows[a], work[a]) /\ work[a].phase = "running"
      /\ rows[a] \in RowRecords /\ work[a] \in WorkRecords
      /\ Len(work[a].results) = rows[a].units
      /\ SetStatus(a, "completed", {Report(a)})
  BY DEF AnalysisInv, CompleteWork
<1>2. a \in Checks => Report(a) = CheckReport(work[a].results)
  BY DEF Report
<1>3. a \in Reviews => Report(a) =
          ReviewReport(work[a].results, TypeWeights(rows[a].type), work[a].document)
  BY AnalysisAssumption DEF Report, WeightsOf, TypeWeights
<1>4. Report(a) \in Reports
  <2>1. CASE a \in Checks
    BY <1>1, <1>2, <2>1 DEF Reports, Fits, CheckFits
  <2>2. CASE a \in Reviews
    <3>1. /\ work[a].results \in Seq(Grading) /\ rows[a].type \in {"paper", "project"}
          /\ work[a].document \in SUBSET Documents
      BY <1>1, <2>2 DEF Fits, ReviewFits, Judgement, RowRecords, WorkRecords
    <3>. QED  BY <1>3, <2>2, <3>1 DEF Reports
  <2>. QED  BY <2>1, <2>2 DEF Analyses
<1>. DEFINE report == Report(a)
<1>. HIDE DEF report
<1>5. /\ rows' \in [Analyses -> RowRecords] /\ ages' \in [Analyses -> 0..StaleAge]
      /\ \A b \in Analyses : b # a => rows'[b] = rows[b]
      /\ rows'[a].status = "completed" /\ rows'[a].report = {report}
      /\ rows'[a].type = rows[a].type /\ rows'[a].units = rows[a].units
      /\ rows[a].status \notin {"absent", "deleted"}
  <2>1. {report} \in SUBSET Reports /\ "completed" \in Statuses
    BY <1>4 DEF report, Statuses
  <2>2. SetStatus(a, "completed", {report})
    BY <1>1 DEF report
  <2>. QED  BY <2>1, <2>2, RowIsSet
<1>6. /\ work' \in [Analyses -> WorkRecords] /\ work'[a] = NoWork
      /\ \A b \in Analyses : b # a => work'[b] = work[b]
  BY NothingToDo DEF AnalysisInv, CompleteWork, Leave
<1>7. rows[a].status = "processing" /\ rows[a].report = {}
  BY <1>1, <1>5 DEF Fits
<1>8. a \in Checks => \E results \in Seq(ParagraphResults) :
          Len(results) = rows'[a].units /\ report = CheckReport(results)
  BY <1>1, <1>2, <1>5 DEF Fits, CheckFits, report
<1>9. ASSUME a \in Reviews
      PROVE  \E results \in Seq(Grading), document \in SUBSET Documents :
                /\ Len(results) = rows'[a].units
                /\ Judgement(rows'[a].type, document, results)
                /\ report = ReviewReport(results, TypeWeights(rows'[a].type), document)
  <2>1. /\ work[a].results \in Seq(Grading) /\ work[a].document \in SUBSET Documents
        /\ Judgement(rows[a].type, work[a].document, work[a].results)
    BY <1>1, <1>9 DEF Fits, ReviewFits, Judgement, WorkRecords
  <2>. QED  BY <1>1, <1>3, <1>5, <1>9, <2>1 DEF report
<1>10. a \in Reviews => rows'[a].units = Len(DimensionConfigs[rows'[a].type])
  BY <1>1, <1>5 DEF Fits, ReviewFits
<1>11. rows'[a] \in RowRecords
  BY <1>5
<1>12. Fits(a, rows'[a], NoWork)
  BY <1>5, <1>8, <1>9, <1>10, <1>11, RowAtRestFits
<1>13. Goes(RowState(rows[a]), RowState(rows'[a]), rows[a].report, rows'[a].report)
  BY <1>5, <1>7 DEF Goes, RowState
<1>. QED  BY <1>5, <1>6, <1>12, <1>13 DEF AnalysisStep

(* A restart forgets the work and leaves the rows.                         *)
LEMMA WorkIsForgotten ==
    ASSUME AnalysisInv, RestartAnalyses
    PROVE  AnalysisInv' /\ [Life!Next]_(Life!vars)
<1>1. rows' = rows /\ ages' = ages /\ work' = [a \in Analyses |-> NoWork]
  BY DEF RestartAnalyses
<1>2. ASSUME NEW a \in Analyses PROVE Fits(a, rows[a], NoWork)
  BY <1>2, RowAtRestFits DEF AnalysisInv, Fits, CheckFits, ReviewFits
<1>. QED  BY <1>1, <1>2, NothingToDo DEF AnalysisInv, Life!vars

LEMMA AnalysesBegin == AnalysisInit => AnalysisInv /\ Life!Init
<1>. SUFFICES ASSUME AnalysisInit PROVE AnalysisInv /\ Life!Init
  OBVIOUS
<1>1. /\ NoRow \in RowRecords /\ NoRow.status = "absent" /\ NoRow.report = {}
  BY DEF NoRow, RowRecords, Statuses
<1>2. \A a \in Analyses : Fits(a, NoRow, NoWork)
  BY <1>1, RowAtRestFits
<1>3. AnalysisInv
  BY <1>1, <1>2, NothingToDo, AnalysisAssumption DEF AnalysisInit, AnalysisInv
<1>4. Life!Init
  BY <1>1 DEF AnalysisInit, Life!Init
<1>. QED  BY <1>3, <1>4

LEMMA AnalysesGoOn ==
    ASSUME AnalysisInv, \/ CheckNext \/ ReviewNext \/ RestartAnalyses \/ UNCHANGED analysisVars
    PROVE  AnalysisInv' /\ [Life!Next]_(Life!vars)
<1>1. CASE UNCHANGED analysisVars
  BY <1>1 DEF analysisVars, AnalysisInv, Life!vars
<1>2. ASSUME NEW a \in Analyses, WorkStep(a)
      PROVE  AnalysisInv' /\ [Life!Next]_(Life!vars)
  <2>1. AnalysisStep(a)
    BY <1>2, AnalysisIsLeft, AnalysisIsCompleted, AnalysisFails, AnalysisIsDeleted, AnalysisAges
       DEF WorkStep
  <2>. QED  BY <2>1, AnalysisStepIsGood
<1>3. ASSUME NEW a \in Checks, CreateCheck(a) \/ RunCheck(a) \/ CheckParagraph(a)
      PROVE  AnalysisInv' /\ [Life!Next]_(Life!vars)
  <2>1. AnalysisStep(a)
    BY <1>3, AnalysesAreCreated, AnalysisStarts, ParagraphsAreChecked DEF RunCheck, Analyses
  <2>. QED  BY <2>1, AnalysisStepIsGood DEF Analyses
<1>4. ASSUME NEW a \in Reviews,
             CreateReview(a) \/ RunReview(a) \/ IngestDocument(a) \/ EvaluateDimension(a)
      PROVE  AnalysisInv' /\ [Life!Next]_(Life!vars)
  <2>1. AnalysisStep(a)
    BY <1>4, AnalysesAreCreated, AnalysisStarts, DocumentIsIngested, DimensionsAreEvaluated
       DEF RunReview, Analyses
  <2>. QED  BY <2>1, AnalysisStepIsGood DEF Analyses
<1>5. CASE CheckNext
  BY <1>2, <1>3, <1>5 DEF CheckNext, Analyses
<1>6. CASE ReviewNext
  BY <1>2, <1>4, <1>6 DEF ReviewNext, Analyses
<1>. QED  BY <1>1, <1>5, <1>6, WorkIsForgotten

(* Analyses and avatars' tasks live the life of a job: a deleted row does  *)
(* not come back while its work goes on, a report appears once and with    *)
(* the end, and nothing that ended starts again, whatever overlaps, fails  *)
(* or restarts (runReview, runCheck, delete, processVideoTask,             *)
(* processChatTask).                                                       *)
THEOREM WorkIsAJob == ProgressSpec => JobsKeepTheirLife
<1>. DEFINE Inv == AnalysisInv /\ AvatarInv
<1>1. ProgressInit => Inv /\ Life!Init /\ ShowLife!Init
  BY AnalysesBegin, ShowsBegin DEF ProgressInit
<1>2. Inv /\ [ProgressNext]_progressVars
        => Inv' /\ [Life!Next]_(Life!vars) /\ [ShowLife!Next]_(ShowLife!vars)
  <2>. SUFFICES ASSUME Inv, [ProgressNext]_progressVars
                PROVE  Inv' /\ [Life!Next]_(Life!vars) /\ [ShowLife!Next]_(ShowLife!vars)
    OBVIOUS
  <2>1. \/ CheckNext \/ ReviewNext \/ RestartAnalyses \/ UNCHANGED analysisVars
    BY DEF ProgressNext, LinesStep, TurnsStep, AnalysesStep, ShowsStep, progressVars
  <2>2. [AvatarNext]_avatarVars
    BY DEF ProgressNext, LinesStep, TurnsStep, AnalysesStep, ShowsStep, progressVars
  <2>. QED  BY <2>1, <2>2, AnalysesGoOn, ShowsGoOn
<1>. HIDE DEF Inv
<1>. QED  BY <1>1, <1>2, PTL DEF ProgressSpec, JobsKeepTheirLife, AnalysesAreJobs, ShowsAreJobs,
             Life!Spec, ShowLife!Spec

-----------------------------------------------------------------------------
(* The numbers of a check's report.                                        *)
LEMMA ApartTheyAdd ==
    ASSUME NEW S, NEW T, IsFiniteSet(S), IsFiniteSet(T), S \cap T = {}
    PROVE  IsFiniteSet(S \cup T) /\ Cardinality(S \cup T) = Cardinality(S) + Cardinality(T)
<1>1. /\ IsFiniteSet(S \cup T)
      /\ Cardinality(S \cup T) = Cardinality(S) + Cardinality(T) - Cardinality(S \cap T)
  BY FS_Union
<1>2. Cardinality(S \cap T) = 0
  BY FS_EmptySet
<1>3. Cardinality(S) \in Nat /\ Cardinality(T) \in Nat
  BY FS_CardinalityType
<1>. QED  BY <1>1, <1>2, <1>3

LEMMA ParagraphVerdicts ==
    ASSUME NEW p \in ParagraphResults
    PROVE  p.score \in 0..99 /\ p.duplicate \in BOOLEAN /\ (p.score = 0 => ~p.duplicate)
<1>1. PICK s \in TopScores :
         p \in IF s < 22 THEN {[score |-> 0, duplicate |-> FALSE]}
               ELSE {[score |-> s, duplicate |-> d] : d \in Verdicts(s)}
  BY DEF ParagraphResults
<1>2. s \in 0..99
  BY AnalysisAssumption DEF TopScores
<1>3. CASE s < 22
  <2>1. p = [score |-> 0, duplicate |-> FALSE]
    BY <1>1, <1>3
  <2>. QED  BY <2>1
<1>4. CASE ~(s < 22)
  <2>1. PICK d \in Verdicts(s) : p = [score |-> s, duplicate |-> d]
    BY <1>1, <1>4
  <2>2. d \in BOOLEAN
    BY DEF Verdicts, HeuristicDuplicate
  <2>. QED  BY <1>2, <1>4, <2>1, <2>2
<1>. QED  BY <1>3, <1>4

LEMMA ChecksAddUp ==
    ASSUME NEW results \in Seq(ParagraphResults), NEW r, r = CheckReport(results)
    PROVE  /\ r.attention + r.watch + r.clear = Len(results)
           /\ r.clear = Count(r.results, LAMBDA p : p.score = 0)
           /\ Cardinality(r.details) + Count(r.results, LAMBDA p : ~p.duplicate /\ p.score = 70)
                  = r.attention
           /\ r.risk = "clean" <=> ~\E k \in DOMAIN r.results : r.results[k].duplicate
<1>. DEFINE All == DOMAIN results
            Twice == {k \in All : results[k].duplicate}
            Near == {k \in All : ~results[k].duplicate /\ results[k].score >= 70}
            Watched == {k \in All : ~results[k].duplicate /\ results[k].score > 0
                                    /\ results[k].score < 70}
            Free == {k \in All : results[k].score = 0}
            Listed == {k \in All : results[k].duplicate \/ results[k].score > 70}
            Edge == {k \in All : ~results[k].duplicate /\ results[k].score = 70}
<1>1. Len(results) \in Nat /\ All = 1..Len(results)
  BY LenProperties
<1>2. IsFiniteSet(All) /\ Cardinality(All) = Len(results)
  <2>. HIDE DEF All
  <2>1. IsFiniteSet(1..Len(results)) /\ Cardinality(1..Len(results)) = Len(results)
    BY <1>1, FS_Interval
  <2>. QED  BY <1>1, <2>1
<1>3. \A k \in All : /\ results[k].score \in 0..99 /\ results[k].duplicate \in BOOLEAN
                     /\ results[k].score = 0 => ~results[k].duplicate
  <2>1. ASSUME NEW k \in All
        PROVE  /\ results[k].score \in 0..99 /\ results[k].duplicate \in BOOLEAN
               /\ results[k].score = 0 => ~results[k].duplicate
    <3>1. results[k] \in ParagraphResults
      BY <1>1, ElementOfSeq
    <3>. QED  BY <3>1, ParagraphVerdicts
  <2>. QED  BY <2>1
<1>4. /\ IsFiniteSet(Twice) /\ IsFiniteSet(Near) /\ IsFiniteSet(Watched)
      /\ IsFiniteSet(Free) /\ IsFiniteSet(Listed) /\ IsFiniteSet(Edge)
  <2>1. /\ Twice \subseteq All /\ Near \subseteq All /\ Watched \subseteq All
        /\ Free \subseteq All /\ Listed \subseteq All /\ Edge \subseteq All
    OBVIOUS
  <2>. HIDE DEF All, Twice, Near, Watched, Free, Listed, Edge
  <2>. QED  BY <1>2, <2>1, FS_Subset
<1>5. /\ Twice \cap Near = {} /\ (Twice \cup Near) \cap Watched = {}
      /\ ((Twice \cup Near) \cup Watched) \cap Free = {}
      /\ ((Twice \cup Near) \cup Watched) \cup Free = All
      /\ Listed \cap Edge = {} /\ Listed \cup Edge = Twice \cup Near
  <2>1. ASSUME NEW k \in All
        PROVE  /\ k \in Twice => k \notin Near /\ k \notin Watched /\ k \notin Free
               /\ k \in Near => k \notin Watched /\ k \notin Free
               /\ k \in Watched => k \notin Free
               /\ k \in Twice \/ k \in Near \/ k \in Watched \/ k \in Free
               /\ k \in Listed => k \notin Edge
               /\ (k \in Listed \/ k \in Edge) <=> (k \in Twice \/ k \in Near)
    <3>1. /\ k \in Twice <=> results[k].duplicate
          /\ k \in Near <=> ~results[k].duplicate /\ results[k].score >= 70
          /\ k \in Watched <=> ~results[k].duplicate /\ results[k].score > 0
                                /\ results[k].score < 70
          /\ k \in Free <=> results[k].score = 0
          /\ k \in Listed <=> results[k].duplicate \/ results[k].score > 70
          /\ k \in Edge <=> ~results[k].duplicate /\ results[k].score = 70
      BY <2>1
    <3>2. results[k].score \in 0..99 /\ (results[k].score = 0 => ~results[k].duplicate)
      BY <1>3
    <3>. HIDE DEF All, Twice, Near, Watched, Free, Listed, Edge
    <3>3. CASE results[k].duplicate
      <4>1. results[k].score # 0
        BY <3>2, <3>3
      <4>. QED  BY <3>1, <3>3, <4>1
    <3>4. CASE ~results[k].duplicate
      <4>1. CASE results[k].score = 0
        BY <3>1, <3>4, <4>1
      <4>. DEFINE score == results[k].score
      <4>2. CASE score \in 1..69
        <5>. HIDE DEF score
        <5>1. /\ score > 0 /\ score < 70 /\ ~(score >= 70)
              /\ ~(score > 70) /\ score # 0 /\ score # 70
          BY <4>2
        <5>. QED  BY <3>1, <3>4, <5>1 DEF score
      <4>3. CASE score \in 70..99
        <5>. HIDE DEF score
        <5>1. /\ ~(score < 70) /\ score >= 70 /\ score # 0
              /\ (score > 70 <=> score # 70)
          BY <4>3
        <5>. QED  BY <3>1, <3>4, <5>1 DEF score
      <4>. QED  BY <3>2, <4>1, <4>2, <4>3
    <3>. QED  BY <3>3, <3>4
  <2>2. /\ Twice \subseteq All /\ Near \subseteq All /\ Watched \subseteq All
        /\ Free \subseteq All /\ Listed \subseteq All /\ Edge \subseteq All
    OBVIOUS
  <2>. HIDE DEF All, Twice, Near, Watched, Free, Listed, Edge
  <2>. QED  BY <2>1, <2>2
<1>6. r = [attention |-> Cardinality(Twice) + Cardinality(Near), watch |-> Cardinality(Watched),
           clear |-> Max({Len(results) - (Cardinality(Twice) + Cardinality(Near))
                             - Cardinality(Watched), 0}),
           details |-> Listed, risk |-> RiskLevel(Cardinality(Twice), Len(results)),
           results |-> results]
  BY DEF CheckReport, AttentionCount, WatchCount, Duplicates, Count, Where
<1>7. /\ Count(results, LAMBDA p : p.score = 0) = Cardinality(Free)
      /\ Count(results, LAMBDA p : ~p.duplicate /\ p.score = 70) = Cardinality(Edge)
  BY DEF Count, Where
<1>8. Twice = {} <=> ~\E k \in All : results[k].duplicate
  OBVIOUS
<1>. HIDE DEF All, Twice, Near, Watched, Free, Listed, Edge
<1>9. /\ Cardinality(Twice) \in Nat /\ Cardinality(Near) \in Nat /\ Cardinality(Watched) \in Nat
      /\ Cardinality(Free) \in Nat /\ Cardinality(Edge) \in Nat /\ Cardinality(Listed) \in Nat
  BY <1>4, FS_CardinalityType
<1>10. /\ Cardinality(Twice) + Cardinality(Near) + Cardinality(Watched) + Cardinality(Free)
              = Len(results)
       /\ Cardinality(Listed) + Cardinality(Edge) = Cardinality(Twice) + Cardinality(Near)
  <2>1. /\ IsFiniteSet(Twice \cup Near)
        /\ Cardinality(Twice \cup Near) = Cardinality(Twice) + Cardinality(Near)
    BY <1>4, <1>5, ApartTheyAdd
  <2>2. /\ IsFiniteSet((Twice \cup Near) \cup Watched)
        /\ Cardinality((Twice \cup Near) \cup Watched)
              = Cardinality(Twice \cup Near) + Cardinality(Watched)
    BY <1>4, <1>5, <2>1, ApartTheyAdd
  <2>3. Cardinality(All)
              = Cardinality((Twice \cup Near) \cup Watched) + Cardinality(Free)
    BY <1>4, <1>5, <2>2, ApartTheyAdd
  <2>4. Cardinality(Listed \cup Edge) = Cardinality(Listed) + Cardinality(Edge)
    BY <1>4, <1>5, ApartTheyAdd
  <2>. QED  BY <1>2, <1>5, <2>1, <2>2, <2>3, <2>4
<1>11. Max({Len(results) - (Cardinality(Twice) + Cardinality(Near)) - Cardinality(Watched), 0})
          = Cardinality(Free)
  <2>1. Len(results) - (Cardinality(Twice) + Cardinality(Near)) - Cardinality(Watched)
          = Cardinality(Free)
    <3>. DEFINE twice == Cardinality(Twice)
                near == Cardinality(Near)
                watched == Cardinality(Watched)
                free == Cardinality(Free)
                len == Len(results)
    <3>1. /\ twice \in Nat /\ near \in Nat /\ watched \in Nat /\ free \in Nat /\ len \in Nat
          /\ twice + near + watched + free = len
      BY <1>1, <1>9, <1>10
    <3>. HIDE DEF twice, near, watched, free, len
    <3>2. len - (twice + near) - watched = free
      BY <3>1
    <3>. QED  BY <3>2 DEF twice, near, watched, free, len
  <2>. QED  BY <1>9, <2>1, GreaterOfTwo
<1>12. RiskLevel(Cardinality(Twice), Len(results)) = "clean" <=> Twice = {}
  <2>1. Cardinality(Twice) = 0 <=> Twice = {}
    BY <1>4, FS_EmptySet
  <2>. QED  BY <2>1 DEF RiskLevel
<1>13. /\ r.attention = Cardinality(Twice) + Cardinality(Near) /\ r.watch = Cardinality(Watched)
       /\ r.clear = Cardinality(Free) /\ r.details = Listed /\ r.results = results
       /\ r.risk = RiskLevel(Cardinality(Twice), Len(results))
  BY <1>6, <1>11
<1>14. r.attention + r.watch + r.clear = Len(results)
  BY <1>9, <1>10, <1>13
<1>15. r.clear = Count(r.results, LAMBDA p : p.score = 0)
  BY <1>7, <1>13
<1>16. Cardinality(r.details) + Count(r.results, LAMBDA p : ~p.duplicate /\ p.score = 70)
          = r.attention
  BY <1>7, <1>10, <1>13
<1>17. r.risk = "clean" <=> ~\E k \in DOMAIN r.results : r.results[k].duplicate
  BY <1>8, <1>12, <1>13 DEF All
<1>. QED  BY <1>14, <1>15, <1>16, <1>17

-----------------------------------------------------------------------------
(* A review has five dimensions, and their sum is taken in any order.      *)
Some(s) == CHOOSE x \in s : TRUE

LEMMA FiveSteps ==
    ASSUME NEW iter, NEW sum, iter[{}] = sum[{}],
           \A s \in SUBSET (1..5) :
               (\A x \in s : iter[s \ {x}] = sum[s \ {x}]) => iter[s] = sum[s]
    PROVE  iter[1..5] = sum[1..5]
<1>. DEFINE All == 1..5
<1>1. \A a \in All : \A s \in SUBSET {a} : iter[s] = sum[s]
  OBVIOUS
<1>2. \A a, b \in All : \A s \in SUBSET {a, b} : iter[s] = sum[s]
  BY <1>1
<1>3. \A a, b, c \in All : \A s \in SUBSET {a, b, c} : iter[s] = sum[s]
  BY <1>2
<1>4. \A a, b, c, d \in All : \A s \in SUBSET {a, b, c, d} : iter[s] = sum[s]
  BY <1>3
<1>5. \A a, b, c, d, e \in All : \A s \in SUBSET {a, b, c, d, e} : iter[s] = sum[s]
  BY <1>4
<1>. QED  BY <1>5

LEMMA SumOfFive ==
    ASSUME NEW results, NEW weights, NEW v \in [1..5 -> Int], DOMAIN results = 1..5,
           \A k \in 1..5 : results[k].score * weights[k] = v[k]
    PROVE  OverallScore(results, weights) = (v[1] + v[2] + v[3] + v[4] + v[5] + 50) \div 100
<1>. DEFINE All == 1..5
            term(k) == results[k].score * weights[k]
            Eq(g) == g = [s \in SUBSET All |->
                             IF s = {} THEN 0 ELSE term(Some(s)) + g[s \ {Some(s)}]]
            iter == CHOOSE g : Eq(g)
            of(k, s) == IF k \in s THEN v[k] ELSE 0
            sum == [s \in SUBSET All |-> of(1, s) + of(2, s) + of(3, s) + of(4, s) + of(5, s)]
<1>1. OverallScore(results, weights) = (iter[All] + 50) \div 100
  BY DEF OverallScore, MapThenSumSet, MapThenFoldSet, Some
<1>2. ASSUME NEW s, s # {} PROVE Some(s) \in s
  BY <1>2 DEF Some
<1>3. \A k \in All : term(k) = v[k]
  OBVIOUS
<1>. HIDE DEF term
<1>4. ASSUME NEW s \in SUBSET All, NEW x \in s PROVE sum[s] = v[x] + sum[s \ {x}]
  <2>1. x \in All /\ v[1] \in Int /\ v[2] \in Int /\ v[3] \in Int /\ v[4] \in Int /\ v[5] \in Int
    OBVIOUS
  <2>2. /\ sum[s] = of(1, s) + of(2, s) + of(3, s) + of(4, s) + of(5, s)
        /\ sum[s \ {x}] = of(1, s \ {x}) + of(2, s \ {x}) + of(3, s \ {x}) + of(4, s \ {x})
                              + of(5, s \ {x})
    OBVIOUS
  <2>3. /\ \A k \in All : k # x => of(k, s \ {x}) = of(k, s)
        /\ of(x, s) = v[x] /\ of(x, s \ {x}) = 0
        /\ of(1, s) \in Int /\ of(2, s) \in Int /\ of(3, s) \in Int /\ of(4, s) \in Int
        /\ of(5, s) \in Int
    BY <2>1
  <2>. HIDE DEF of, sum
  <2>4. CASE x = 1
    BY <2>1, <2>2, <2>3, <2>4
  <2>5. CASE x = 2
    BY <2>1, <2>2, <2>3, <2>5
  <2>6. CASE x = 3
    BY <2>1, <2>2, <2>3, <2>6
  <2>7. CASE x = 4
    BY <2>1, <2>2, <2>3, <2>7
  <2>8. CASE x = 5
    BY <2>1, <2>2, <2>3, <2>8
  <2>. QED  BY <2>1, <2>4, <2>5, <2>6, <2>7, <2>8
<1>5. sum[{}] = 0 /\ sum[All] = v[1] + v[2] + v[3] + v[4] + v[5]
  OBVIOUS
<1>6. Eq(sum)
  <2>1. ASSUME NEW s \in SUBSET All
        PROVE  sum[s] = IF s = {} THEN 0 ELSE term(Some(s)) + sum[s \ {Some(s)}]
    <3>1. CASE s = {}
      BY <1>5, <3>1
    <3>2. CASE s # {}
      <4>1. Some(s) \in s /\ Some(s) \in All
        BY <1>2, <3>2
      <4>2. term(Some(s)) = v[Some(s)]
        BY <1>3, <4>1
      <4>. HIDE DEF sum
      <4>. QED  BY <1>4, <3>2, <4>1, <4>2
    <3>. QED  BY <3>1, <3>2
  <2>2. sum = [s \in SUBSET All |-> sum[s]]
    OBVIOUS
  <2>. HIDE DEF sum
  <2>. QED  BY <2>1, <2>2
<1>. HIDE DEF sum
<1>7. Eq(iter)
  BY <1>6
<1>8. iter[{}] = 0 /\ \A s \in SUBSET All : s # {} => iter[s] = term(Some(s)) + iter[s \ {Some(s)}]
  <2>. HIDE DEF iter
  <2>. QED  BY <1>7
<1>. HIDE DEF iter, Eq
<1>9. ASSUME NEW s \in SUBSET All, \A x \in s : iter[s \ {x}] = sum[s \ {x}]
      PROVE  iter[s] = sum[s]
  <2>1. CASE s = {}
    BY <1>5, <1>8, <2>1
  <2>2. CASE s # {}
    <3>1. Some(s) \in s /\ Some(s) \in All
      BY <1>2, <2>2
    <3>2. iter[s] = v[Some(s)] + iter[s \ {Some(s)}]
      BY <1>3, <1>8, <2>2, <3>1
    <3>. QED  BY <1>4, <1>9, <3>1, <3>2
  <2>. QED  BY <2>1, <2>2
<1>10. iter[{}] = sum[{}]
  BY <1>5, <1>8
<1>11. iter[1..5] = sum[1..5]
  BY <1>9, <1>10, FiveSteps
<1>. QED  BY <1>1, <1>5, <1>11

(* The weights of the dimensions, in percent.                              *)
WeightIn(type, k) ==
    IF type = "paper" THEN CASE k = 1 -> 30 [] k = 2 -> 25 [] k = 3 -> 20 [] k = 4 -> 15 [] k = 5 -> 10
    ELSE CASE k = 1 -> 25 [] k = 2 -> 25 [] k = 3 -> 20 [] k = 4 -> 15 [] k = 5 -> 15

LEMMA Weights ==
    ASSUME NEW type \in {"paper", "project"}
    PROVE  /\ DOMAIN TypeWeights(type) = 1..5
           /\ \A k \in 1..5 : TypeWeights(type)[k] = WeightIn(type, k)
<1>1. CASE type = "paper"
  BY <1>1 DEF TypeWeights, DimensionConfigs, WeightIn
<1>2. CASE type = "project"
  BY <1>2 DEF TypeWeights, DimensionConfigs, WeightIn
<1>. QED  BY <1>1, <1>2

Weighted(type, a, b, c, d, e) ==
    IF type = "paper" THEN 30 * a + 25 * b + 20 * c + 15 * d + 10 * e
    ELSE 25 * a + 25 * b + 20 * c + 15 * d + 15 * e

Product(type, score, k) ==
    IF type = "paper" THEN CASE k = 1 -> 30 * score[1] [] k = 2 -> 25 * score[2] [] k = 3 -> 20 * score[3]
                             [] k = 4 -> 15 * score[4] [] k = 5 -> 10 * score[5]
    ELSE CASE k = 1 -> 25 * score[1] [] k = 2 -> 25 * score[2] [] k = 3 -> 20 * score[3]
           [] k = 4 -> 15 * score[4] [] k = 5 -> 15 * score[5]

LEMMA FiveProducts ==
    ASSUME NEW type \in {"paper", "project"}, NEW score \in [1..5 -> Int]
    PROVE  /\ \A k \in 1..5 : Product(type, score, k) \in Int
           /\ \A k \in 1..5 : Product(type, score, k) = score[k] * WeightIn(type, k)
           /\ Product(type, score, 1) + Product(type, score, 2) + Product(type, score, 3)
                + Product(type, score, 4) + Product(type, score, 5)
                  = Weighted(type, score[1], score[2], score[3], score[4], score[5])
<1>1. /\ score[1] \in Int /\ score[2] \in Int /\ score[3] \in Int
      /\ score[4] \in Int /\ score[5] \in Int
  OBVIOUS
<1>2. CASE type = "paper"
  BY <1>1, <1>2 DEF Product, Weighted, WeightIn
<1>3. CASE type = "project"
  BY <1>1, <1>3 DEF Product, Weighted, WeightIn
<1>. QED  BY <1>2, <1>3

LEMMA GradeBounds ==
    \A g \in Grading : g.score \in Int /\ 350 <= g.score /\ g.score <= 950
BY DEF Grading

LEMMA OverallIsWeighted ==
    ASSUME NEW type \in {"paper", "project"}, NEW results \in Seq(Grading), Len(results) = 5,
           NEW score, score = [k \in 1..5 |-> results[k].score]
    PROVE  /\ score \in [1..5 -> Int] /\ \A k \in 1..5 : 350 <= score[k] /\ score[k] <= 950
           /\ OverallScore(results, TypeWeights(type)) =
                 (Weighted(type, score[1], score[2], score[3], score[4], score[5]) + 50) \div 100
<1>. DEFINE weights == TypeWeights(type)
            v == [k \in 1..5 |-> Product(type, score, k)]
<1>1. DOMAIN results = 1..5
  BY LenProperties
<1>2. score \in [1..5 -> Int] /\ \A k \in 1..5 : 350 <= score[k] /\ score[k] <= 950
  <2>1. ASSUME NEW k \in 1..5
        PROVE  results[k].score \in Int /\ 350 <= results[k].score /\ results[k].score <= 950
    <3>1. results[k] \in Grading
      BY ElementOfSeq
    <3>. QED  BY <3>1, GradeBounds
  <2>. QED  BY <2>1
<1>3. \A k \in 1..5 : weights[k] = WeightIn(type, k)
  BY Weights
<1>. HIDE DEF weights
<1>0. /\ \A k \in 1..5 : Product(type, score, k) \in Int
      /\ \A k \in 1..5 : Product(type, score, k) = score[k] * WeightIn(type, k)
      /\ Product(type, score, 1) + Product(type, score, 2) + Product(type, score, 3)
            + Product(type, score, 4) + Product(type, score, 5)
                  = Weighted(type, score[1], score[2], score[3], score[4], score[5])
  <2>1. score \in [1..5 -> Int]
    BY <1>2
  <2>. QED  BY ONLY <2>1, type \in {"paper", "project"}, FiveProducts
<1>4. \A k \in 1..5 : results[k].score * weights[k] = v[k]
  BY <1>0, <1>3
<1>5. v \in [1..5 -> Int]
  <2>1. \A k \in 1..5 : Product(type, score, k) \in Int
    BY <1>0
  <2>. QED  BY <2>1
<1>6. v[1] + v[2] + v[3] + v[4] + v[5]
             = Weighted(type, score[1], score[2], score[3], score[4], score[5])
  <2>1. /\ v[1] = Product(type, score, 1) /\ v[2] = Product(type, score, 2)
        /\ v[3] = Product(type, score, 3) /\ v[4] = Product(type, score, 4)
        /\ v[5] = Product(type, score, 5)
    OBVIOUS
  <2>. HIDE DEF v
  <2>. QED  BY <1>0, <2>1
<1>. HIDE DEF v
<1>7. OverallScore(results, weights) = (v[1] + v[2] + v[3] + v[4] + v[5] + 50) \div 100
  BY <1>1, <1>4, <1>5, SumOfFive
<1>. QED  BY <1>2, <1>6, <1>7 DEF weights

(* What five scores make of the sum.                                       *)
Tells(type, score, overall) ==
    /\ overall \in Int
    /\ overall >= 800 => \E k \in 1..5 : score[k] >= 800
    /\ overall < 600 => \E k \in 1..5 : score[k] < 600
    /\ type = "project" /\ score[1] <= 950 /\ score[2] <= 544 /\ score[3] <= 700
          /\ score[4] <= 820 /\ score[5] <= 950 => overall < 800
    /\ type = "paper" /\ score[1] <= 950 /\ score[2] <= 485 /\ score[3] <= 900
          /\ score[4] <= 900 /\ score[5] <= 720 => overall < 800

LEMMA SumsOfScores ==
    ASSUME NEW type \in {"paper", "project"}, NEW score \in [1..5 -> Int],
           NEW overall, overall = (Weighted(type, score[1], score[2], score[3], score[4], score[5]) + 50)
                                      \div 100
    PROVE  Tells(type, score, overall)
<1>1. /\ score[1] \in Int /\ score[2] \in Int /\ score[3] \in Int
      /\ score[4] \in Int /\ score[5] \in Int
  OBVIOUS
<1>2. (\A k \in 1..5 : ~(score[k] >= 800))
         => score[1] < 800 /\ score[2] < 800 /\ score[3] < 800 /\ score[4] < 800 /\ score[5] < 800
  BY <1>1
<1>3. (\A k \in 1..5 : ~(score[k] < 600))
         => score[1] >= 600 /\ score[2] >= 600 /\ score[3] >= 600 /\ score[4] >= 600 /\ score[5] >= 600
  BY <1>1
<1>. DEFINE a == score[1]  b == score[2]  c == score[3]  d == score[4]  e == score[5]
            some == \E k \in 1..5 : score[k] >= 800
            low == \E k \in 1..5 : score[k] < 600
<1>4. /\ a \in Int /\ b \in Int /\ c \in Int /\ d \in Int /\ e \in Int
      /\ ~some => a < 800 /\ b < 800 /\ c < 800 /\ d < 800 /\ e < 800
      /\ ~low => a >= 600 /\ b >= 600 /\ c >= 600 /\ d >= 600 /\ e >= 600
      /\ overall = (Weighted(type, a, b, c, d, e) + 50) \div 100
  BY <1>1, <1>2, <1>3
<1>5. SUFFICES /\ overall \in Int
               /\ overall >= 800 => some
               /\ overall < 600 => low
               /\ type = "project" /\ a <= 950 /\ b <= 544 /\ c <= 700 /\ d <= 820 /\ e <= 950
                     => overall < 800
               /\ type = "paper" /\ a <= 950 /\ b <= 485 /\ c <= 900 /\ d <= 900 /\ e <= 720
                     => overall < 800
  BY DEF Tells
<1>. HIDE DEF a, b, c, d, e, some, low
<1>6. CASE type = "paper"
  BY <1>4, <1>6 DEF Weighted
<1>7. CASE type = "project"
  BY <1>4, <1>7 DEF Weighted
<1>. QED  BY <1>6, <1>7

(* What the heuristic can give to a document without a method, an          *)
(* experiment or results.                                                  *)
LEMMA ModestGrades ==
    ASSUME NEW d \in Documents, {"method", "experiment", "results"} \cap d.has = {}
    PROVE  /\ ClampScore(HeuristicGrade("science", d)) <= 544
           /\ ClampScore(HeuristicGrade("feasibility", d)) <= 700
           /\ ClampScore(HeuristicGrade("application", d)) <= 820
           /\ ClampScore(HeuristicGrade("quality", d)) <= 485
           /\ ClampScore(HeuristicGrade("writing", d)) <= 900
           /\ ClampScore(HeuristicGrade("relevance", d)) <= 900
           /\ ClampScore(HeuristicGrade("completeness", d)) <= 720
<1>1. /\ d.references \in Nat /\ d.words \in Nat /\ d.paragraphs \in Nat /\ d.alignment \in 0..100
      /\ "method" \notin d.has /\ "experiment" \notin d.has /\ "results" \notin d.has
  BY AnalysisAssumption
<1>2. /\ d.words \div 50 \in Nat /\ 2 * d.paragraphs \in Nat /\ d.words \div 80 \in Nat
      /\ (8 * d.alignment) \div 10 \in 0..80 /\ (15 * d.alignment) \div 10 \in 0..150
  BY <1>1
<1>3. /\ Min({d.references, 12}) \in 0..12 /\ Min({d.words \div 50, 80}) \in 0..80
      /\ Min({d.references, 15}) \in 0..15 /\ Min({2 * d.paragraphs, 80}) \in 0..80
      /\ Min({d.words \div 80, 80}) \in 0..80 /\ Min({d.references, 8}) \in 0..8
  <2>1. \A m, n \in Nat : Min({m, n}) \in 0..n
    BY LesserOfTwo
  <2>. QED  BY <1>1, <1>2, <2>1
<1>4. /\ HeuristicGrade("science", d) <= 544 /\ HeuristicGrade("feasibility", d) <= 700
      /\ HeuristicGrade("quality", d) <= 485 /\ HeuristicGrade("completeness", d) <= 720
  BY <1>1, <1>3 DEF HeuristicGrade
<1>5. HeuristicGrade("application", d) <= 820 /\ HeuristicGrade("relevance", d) <= 900
  BY <1>1, <1>2 DEF HeuristicGrade
<1>6. HeuristicGrade("writing", d) <= 900
  BY <1>1, <1>3 DEF HeuristicGrade
<1>7. \A dimension \in Named, most \in Int :
         most >= 350 /\ HeuristicGrade(dimension, d) <= most
            => ClampScore(HeuristicGrade(dimension, d)) <= most
  BY GradesAreNumbers, ScoresAreClamped
<1>. QED  BY <1>4, <1>5, <1>6, <1>7 DEF Named

(* Of some dimensions there is one that none of them is weaker than.       *)
LEMMA OneIsWeakest ==
    ASSUME NEW score \in [1..5 -> Int], \A k \in 1..5 : 0 <= score[k],
           NEW weights \in [1..5 -> Int], \A k \in 1..5 : 0 <= weights[k] /\ weights[k] <= 100,
           NEW below, below \subseteq 1..5, below # {}
    PROVE  \E first \in below : \A j \in below :
               /\ ~(score[j] < score[first])
               /\ ~(score[j] = score[first] /\ weights[j] > weights[first])
               /\ ~(score[j] = score[first] /\ weights[j] = weights[first] /\ j < first)
<1>. DEFINE Order(k) == 10000 * score[k] + 10 * (100 - weights[k]) + k
            Orders == {Order(k) : k \in below}
<1>1. \A k \in 1..5 : Order(k) \in Nat
  OBVIOUS
<1>2. Orders \subseteq Nat /\ Orders # {}
  <2>. HIDE DEF Order
  <2>. QED  BY <1>1
<1>3. PICK m \in Orders : \A k \in Orders : m <= k
  <2>. HIDE DEF Orders
  <2>. QED  BY <1>2, Smallest
<1>4. PICK first \in below : m = Order(first)
  BY <1>3
<1>5. ASSUME NEW j \in below
      PROVE  /\ ~(score[j] < score[first])
             /\ ~(score[j] = score[first] /\ weights[j] > weights[first])
             /\ ~(score[j] = score[first] /\ weights[j] = weights[first] /\ j < first)
  <2>1. Order(j) \in Orders
    OBVIOUS
  <2>2. Order(first) <= Order(j)
    <3>. HIDE DEF Order, Orders
    <3>. QED  BY <1>3, <1>4, <2>1
  <2>. DEFINE s == score[j]  t == score[first]  v == weights[j]  w == weights[first]
  <2>3. /\ s \in Int /\ t \in Int /\ v \in Int /\ w \in Int /\ j \in 1..5 /\ first \in 1..5
        /\ 0 <= v /\ v <= 100 /\ 0 <= w /\ w <= 100
    OBVIOUS
  <2>4. 10000 * t + 10 * (100 - w) + first <= 10000 * s + 10 * (100 - v) + j
    BY <2>2
  <2>. HIDE DEF s, t, v, w
  <2>5. ~(s < t) /\ ~(s = t /\ v > w) /\ ~(s = t /\ v = w /\ j < first)
    BY <2>3, <2>4
  <2>. QED  BY <2>5 DEF s, t, v, w
<1>. QED  BY <1>4, <1>5

LEMMA FiveAreFinite == IsFiniteSet(1..5)
<1>1. \A n \in Int : IsFiniteSet(1..n)
  BY FS_Interval
<1>2. 5 \in Int
  OBVIOUS
<1>. QED  BY <1>1, <1>2, Zenon

(* The next actions begin with a dimension that none is weaker than.       *)
LEMMA WeakestComesFirst ==
    ASSUME NEW type \in {"paper", "project"}, NEW results, DOMAIN results = 1..5,
           \A k \in 1..5 : results[k] \in Grading,
           NEW weak, weak = ReviewNarrative(results, TypeWeights(type)).weak,
           NEW low \in 1..5, results[low].score < 600
    PROVE  weak # <<>> /\ results[Head(weak)].score < 600
<1>0. IsFiniteSet(1..5)
  BY FiveAreFinite
<1>. DEFINE score == [k \in 1..5 |-> results[k].score]
            weights == TypeWeights(type)
            below == Where(results, LAMBDA r : r.score < 750)
            Weaker(j, k) == \/ results[j].score < results[k].score
                            \/ results[j].score = results[k].score /\ weights[j] > weights[k]
                            \/ results[j].score = results[k].score /\ weights[j] = weights[k] /\ j < k
            Rank(k) == Cardinality({j \in below : Weaker(j, k)})
            chosen == CHOOSE k \in below : Rank(k) = 0
<1>1. weak = [n \in 1..Cardinality(below) |-> CHOOSE k \in below : Rank(k) = n - 1]
  BY DEF ReviewNarrative
<1>2. score \in [1..5 -> Int] /\ \A k \in 1..5 : 350 <= score[k] /\ score[k] <= 950
  BY GradeBounds
<1>3. /\ weights \in [1..5 -> Int]
      /\ \A k \in 1..5 : 10 <= weights[k] /\ weights[k] <= 30
  <2>1. \A k \in 1..5 : WeightIn(type, k) \in Int /\ 10 <= WeightIn(type, k) /\ WeightIn(type, k) <= 30
    BY DEF WeightIn
  <2>2. weights = [k \in DOMAIN weights |-> weights[k]]
    BY DEF TypeWeights
  <2>. HIDE DEF weights
  <2>3. DOMAIN weights = 1..5 /\ \A k \in 1..5 : weights[k] = WeightIn(type, k)
    BY Weights DEF weights
  <2>. QED  BY <2>1, <2>2, <2>3
<1>4. /\ below = {k \in 1..5 : score[k] < 750}
      /\ score[low] < 600
      /\ \A k \in 1..5 : score[k] = results[k].score
  BY DEF Where
<1>. HIDE DEF score, weights, below
<1>5. below \subseteq 1..5 /\ low \in below
  <2>1. score[low] \in Int
    BY <1>2
  <2>2. score[low] < 750
    BY <1>4, <2>1
  <2>. QED  BY <1>4, <2>2
<1>6. PICK first \in below : \A j \in below :
         /\ ~(score[j] < score[first])
         /\ ~(score[j] = score[first] /\ weights[j] > weights[first])
         /\ ~(score[j] = score[first] /\ weights[j] = weights[first] /\ j < first)
  <2>1. \A k \in 1..5 : 0 <= score[k] /\ 0 <= weights[k] /\ weights[k] <= 100
    <3>1. ASSUME NEW k \in 1..5 PROVE 0 <= score[k] /\ 0 <= weights[k] /\ weights[k] <= 100
      <4>. DEFINE s == score[k]  w == weights[k]
      <4>1. s \in Int /\ w \in Int /\ 350 <= s /\ 10 <= w /\ w <= 30
        BY <1>2, <1>3
      <4>. HIDE DEF s, w
      <4>2. 0 <= s /\ 0 <= w /\ w <= 100
        BY <4>1
      <4>. QED  BY <4>2 DEF s, w
    <3>. QED  BY <3>1
  <2>. QED  BY <1>2, <1>3, <1>5, <2>1, OneIsWeakest
<1>7. \A j \in below : ~Weaker(j, first)
  BY <1>4, <1>5, <1>6
<1>8. \A j, k \in below : score[j] < score[k] => Weaker(j, k)
  BY <1>4, <1>5
<1>. HIDE DEF Weaker
<1>9. Rank(first) = 0
  <2>1. {j \in below : Weaker(j, first)} = {}
    BY <1>7
  <2>. QED  BY <2>1, FS_EmptySet
<1>10. IsFiniteSet(below)
  <2>2. below \in SUBSET (1..5)
    BY <1>5
  <2>. QED  BY <1>0, <2>2, FS_Subset
<1>11. chosen \in below /\ Rank(chosen) = 0
  <2>. HIDE DEF Rank
  <2>. QED  BY <1>6, <1>9
<1>12. \A j \in below : ~Weaker(j, chosen)
  <2>. DEFINE Ahead == {j \in below : Weaker(j, chosen)}
  <2>1. Ahead \subseteq below /\ Cardinality(Ahead) = 0
    BY <1>11
  <2>2. Ahead = {}
    <3>. HIDE DEF Ahead
    <3>. QED  BY <1>10, <2>1, FS_Subset, FS_EmptySet
  <2>. QED  BY <2>2
<1>. HIDE DEF chosen
<1>13. score[chosen] < 600
  <2>1. ~(score[low] < score[chosen])
    BY <1>5, <1>8, <1>11, <1>12
  <2>2. score[low] \in Int /\ score[chosen] \in Int
    BY <1>2, <1>5, <1>11
  <2>. DEFINE s == score[low]  t == score[chosen]
  <2>3. s \in Int /\ t \in Int /\ s < 600 /\ ~(s < t)
    BY <1>4, <2>1, <2>2
  <2>. HIDE DEF s, t
  <2>4. t < 600
    BY <2>3
  <2>. QED  BY <2>4 DEF t
<1>14. weak # <<>> /\ Head(weak) = chosen
  <2>. DEFINE many == Cardinality(below)
              Nth(n) == CHOOSE k \in below : Rank(k) = n - 1
  <2>1. many \in Nat /\ many # 0
    BY <1>5, <1>10, FS_CardinalityType, FS_EmptySet
  <2>2. weak = [n \in 1..many |-> Nth(n)]
    BY <1>1
  <2>. HIDE DEF many
  <2>3. Nth(1) = chosen
    BY DEF chosen
  <2>. HIDE DEF Nth
  <2>4. DOMAIN weak = 1..many /\ 1 \in 1..many /\ weak[1] = chosen
    BY <2>1, <2>2, <2>3
  <2>5. weak # <<>>
    <3>1. DOMAIN <<>> = {}
      OBVIOUS
    <3>. QED  BY <2>4, <3>1
  <2>6. Head(weak) = weak[1]
    OBVIOUS
  <2>. QED  BY <2>4, <2>5, <2>6
<1>15. results[chosen].score < 600
  BY <1>4, <1>5, <1>11, <1>13
<1>. QED  BY <1>14, <1>15

LEMMA ReviewsAddUp ==
    ASSUME NEW type \in {"paper", "project"}, NEW results \in Seq(Grading), Len(results) = 5,
           NEW document \in SUBSET Documents, Judgement(type, document, results),
           NEW r, r = ReviewReport(results, TypeWeights(type), document)
    PROVE  /\ Len(r.results) = 5
           /\ r.recommendation = "accept" => \E k \in r.narrative.strong : r.results[k].score >= 800
           /\ r.recommendation = "reject" =>
                 r.narrative.weak # <<>> /\ r.results[Head(r.narrative.weak)].score < 600
           /\ (\A k \in DOMAIN r.results : r.results[k].by = "heuristic") =>
                 \A d \in r.document : {"method", "experiment", "results"} \cap d.has = {} =>
                     r.recommendation # "accept"
<1>. DEFINE score == [k \in 1..5 |-> results[k].score]
            overall == OverallScore(results, TypeWeights(type))
            narrative == ReviewNarrative(results, TypeWeights(type))
<1>1. /\ r.results = results /\ r.document = document /\ r.narrative = narrative
      /\ r.recommendation = ResolveRecommendation(overall)
  BY DEF ReviewReport
<1>2. DOMAIN results = 1..5 /\ \A k \in 1..5 : results[k] \in Grading
  BY LenProperties, ElementOfSeq
<1>3. narrative.strong = {k \in 1..5 : results[k].score >= 750}
  BY <1>2 DEF ReviewNarrative, Where
<1>4. \A k \in 1..5 : score[k] = results[k].score
  OBVIOUS
<1>5. /\ score \in [1..5 -> Int]
      /\ overall = (Weighted(type, score[1], score[2], score[3], score[4], score[5]) + 50) \div 100
  <2>1. score = [k \in 1..5 |-> results[k].score]
    OBVIOUS
  <2>. HIDE DEF score
  <2>. QED  BY <2>1, OverallIsWeighted
<1>. HIDE DEF score, overall, narrative
<1>6. Tells(type, score, overall)
  BY <1>5, SumsOfScores
<1>7. /\ r.recommendation = "accept" => overall >= 800
      /\ r.recommendation = "reject" => overall < 600
  BY <1>1, <1>6 DEF Tells, ResolveRecommendation
<1>8. ASSUME r.recommendation = "accept"
      PROVE  \E k \in narrative.strong : results[k].score >= 800
  <2>1. PICK k \in 1..5 : results[k].score >= 800
    BY <1>4, <1>6, <1>7, <1>8 DEF Tells
  <2>2. results[k].score \in Int
    BY <1>2, GradeBounds
  <2>3. results[k].score >= 750
    BY <2>1, <2>2
  <2>. QED  BY <1>3, <2>1, <2>3
<1>9. ASSUME r.recommendation = "reject"
      PROVE  narrative.weak # <<>> /\ results[Head(narrative.weak)].score < 600
  <2>1. PICK low \in 1..5 : results[low].score < 600
    BY <1>4, <1>6, <1>7, <1>9 DEF Tells
  <2>. QED  BY <1>2, <2>1, WeakestComesFirst DEF narrative
<1>10. ASSUME \A k \in 1..5 : results[k].by = "heuristic",
              NEW d \in document, {"method", "experiment", "results"} \cap d.has = {}
       PROVE  overall < 800
  <2>1. d \in Documents
    OBVIOUS
  <2>2. \A k \in 1..5 : score[k] = ClampScore(HeuristicGrade(DimensionConfigs[type][k].name, d))
    BY <1>2, <1>4, <1>10 DEF Judgement
  <2>3. score[1] <= 950
    BY <1>2, <1>4, GradeBounds
  <2>4. CASE type = "project"
    <3>1. /\ score[2] = ClampScore(HeuristicGrade("science", d))
          /\ score[3] = ClampScore(HeuristicGrade("feasibility", d))
          /\ score[4] = ClampScore(HeuristicGrade("application", d))
      BY <2>2, <2>4 DEF DimensionConfigs
    <3>2. score[5] <= 950
      BY <1>2, <1>4, GradeBounds
    <3>. QED  BY <1>6, <1>10, <2>1, <2>3, <2>4, <3>1, <3>2, ModestGrades DEF Tells
  <2>5. CASE type = "paper"
    <3>1. /\ score[2] = ClampScore(HeuristicGrade("quality", d))
          /\ score[3] = ClampScore(HeuristicGrade("writing", d))
          /\ score[4] = ClampScore(HeuristicGrade("relevance", d))
          /\ score[5] = ClampScore(HeuristicGrade("completeness", d))
      BY <2>2, <2>5 DEF DimensionConfigs
    <3>. QED  BY <1>6, <1>10, <2>1, <2>3, <2>5, <3>1, ModestGrades DEF Tells
  <2>. QED  BY <2>4, <2>5
<1>11. ASSUME \A k \in 1..5 : results[k].by = "heuristic",
              NEW d \in document, {"method", "experiment", "results"} \cap d.has = {}
       PROVE  r.recommendation # "accept"
  BY <1>6, <1>7, <1>10, <1>11 DEF Tells
<1>. QED  BY <1>1, <1>2, <1>8, <1>9, <1>11

(* Reports of checks and reviews say what the judgements they were made of *)
(* say, whatever the documents hold and whoever graded them                *)
(* (buildReportMetrics, buildReviewReport, deriveReviewNarrative).         *)
THEOREM ReportsStayTrue == ProgressSpec => []ReportsAddUp
<1>1. AnalysisInv => ReportsAddUp
  <2>. SUFFICES ASSUME AnalysisInv PROVE ReportsAddUp
    OBVIOUS
  <2>1. \A a \in Analyses : rows[a] \in RowRecords /\ Fits(a, rows[a], work[a])
    BY DEF AnalysisInv
  <2>2. ASSUME NEW a \in Checks, NEW r \in rows[a].report
        PROVE  /\ r.attention + r.watch + r.clear = rows[a].units
               /\ r.clear = Count(r.results, LAMBDA p : p.score = 0)
               /\ Cardinality(r.details) + Count(r.results, LAMBDA p : ~p.duplicate /\ p.score = 70)
                      = r.attention
               /\ r.risk = "clean" <=> ~\E k \in DOMAIN r.results : r.results[k].duplicate
    <3>1. PICK results \in Seq(ParagraphResults) :
             Len(results) = rows[a].units /\ r = CheckReport(results)
      BY <2>1 DEF Analyses, Fits, CheckFits
    <3>. QED  BY <3>1, ChecksAddUp
  <2>3. ASSUME NEW a \in Reviews, NEW r \in rows[a].report
        PROVE  /\ Len(r.results) = rows[a].units
               /\ r.recommendation = "accept" => \E k \in r.narrative.strong : r.results[k].score >= 800
               /\ r.recommendation = "reject" =>
                     r.narrative.weak # <<>> /\ r.results[Head(r.narrative.weak)].score < 600
               /\ (\A k \in DOMAIN r.results : r.results[k].by = "heuristic") =>
                     \A d \in r.document : {"method", "experiment", "results"} \cap d.has = {} =>
                         r.recommendation # "accept"
    <3>1. /\ rows[a].type \in {"paper", "project"} /\ rows[a].report # {}
          /\ Fits(a, rows[a], work[a])
      BY <2>1 DEF Analyses, RowRecords
    <3>2. PICK results \in Seq(Grading) : \E document \in SUBSET Documents :
             /\ Len(results) = rows[a].units
             /\ Judgement(rows[a].type, document, results)
             /\ r = ReviewReport(results, TypeWeights(rows[a].type), document)
      BY <3>1 DEF Fits, ReviewFits
    <3>3. PICK document \in SUBSET Documents :
             /\ Len(results) = rows[a].units
             /\ Judgement(rows[a].type, document, results)
             /\ r = ReviewReport(results, TypeWeights(rows[a].type), document)
      BY <3>2
    <3>4. rows[a].units = 5
      <4>1. rows[a].status = "completed"
        BY <3>1 DEF Fits
      <4>2. rows[a].units = Len(DimensionConfigs[rows[a].type])
        BY <3>1, <4>1 DEF Fits, ReviewFits
      <4>. QED  BY <3>1, <4>2, Dimensions
    <3>. DEFINE type == rows[a].type
    <3>. HIDE DEF type
    <3>5. type \in {"paper", "project"} /\ Len(results) = 5
          /\ Judgement(type, document, results)
          /\ r = ReviewReport(results, TypeWeights(type), document)
      BY <3>1, <3>3, <3>4 DEF type
    <3>. QED  BY <3>4, <3>5, ReviewsAddUp
  <2>. QED  BY <2>2, <2>3 DEF ReportsAddUp
<1>2. ProgressInit => AnalysisInv
  BY AnalysesBegin DEF ProgressInit
<1>3. AnalysisInv /\ [ProgressNext]_progressVars => AnalysisInv'
  <2>. SUFFICES ASSUME AnalysisInv, [ProgressNext]_progressVars PROVE AnalysisInv'
    OBVIOUS
  <2>1. CheckNext \/ ReviewNext \/ RestartAnalyses \/ UNCHANGED analysisVars
    BY DEF ProgressNext, LinesStep, TurnsStep, AnalysesStep, ShowsStep, progressVars
  <2>. QED  BY <2>1, AnalysesGoOn
<1>. QED  BY <1>1, <1>2, <1>3, PTL DEF ProgressSpec

-----------------------------------------------------------------------------
(* The lines in Redis.                                                     *)
LEMMA LinesOfLists ==
    ASSUME NEW S
    PROVE  /\ Elements(<<>>) = {}
           /\ \A s \in Seq(S) : Elements(s) \subseteq S
           /\ \A s \in Seq(S), e \in S : Elements(Append(s, e)) = Elements(s) \cup {e}
           /\ \A s, t \in Seq(S) : Elements(s \o t) = Elements(s) \cup Elements(t)
BY ItemsOfLists DEF Elements, Items

(* What a list holds at chosen places, in their order.                     *)
AtPlaces(q, places) == [n \in 1..Cardinality(places) |-> q[PlaceOf(places, n)]]

LEMMA PlacesAreInOrder ==
    ASSUME NEW top \in Nat, NEW places \in SUBSET (1..top)
    PROVE  /\ IsFiniteSet(places) /\ Cardinality(places) \in Nat
           /\ \A n \in 1..Cardinality(places) : PlaceOf(places, n) \in places
           /\ \A i \in places : \E n \in 1..Cardinality(places) : PlaceOf(places, n) = i
<1>. DEFINE upTo(i) == {j \in places : j <= i}
            rank == [i \in places |-> Cardinality(upTo(i))]
            size == Cardinality(places)
<1>1. IsFiniteSet(places) /\ size \in Nat
  <2>1. IsFiniteSet(1..top)
    BY FS_Interval
  <2>. QED  BY <2>1, FS_Subset, FS_CardinalityType
<1>2. \A i \in places : i \in Int
  OBVIOUS
<1>3. ASSUME NEW i \in places
      PROVE  IsFiniteSet(upTo(i)) /\ Cardinality(upTo(i)) \in 1..size
  <2>1. upTo(i) \in SUBSET places /\ i \in upTo(i)
    BY <1>2
  <2>. HIDE DEF upTo
  <2>2. IsFiniteSet(upTo(i)) /\ Cardinality(upTo(i)) <= size /\ Cardinality(upTo(i)) \in Nat
    BY <1>1, <2>1, FS_Subset, FS_CardinalityType
  <2>3. Cardinality(upTo(i)) # 0
    BY <2>1, <2>2, FS_EmptySet
  <2>. QED  BY <1>1, <2>2, <2>3
<1>4. ASSUME NEW i \in places, NEW j \in places, i < j
      PROVE  rank[i] # rank[j]
  <2>1. upTo(i) \in SUBSET upTo(j) /\ j \in upTo(j) /\ j \notin upTo(i)
    <3>1. \A k \in places : k <= i => k <= j
      BY <1>2, <1>4
    <3>2. j <= j /\ ~(j <= i)
      BY <1>2, <1>4
    <3>. QED  BY <3>1, <3>2
  <2>. HIDE DEF upTo
  <2>2. Cardinality(upTo(i)) # Cardinality(upTo(j))
    BY <1>3, <2>1, FS_Subset
  <2>. QED  BY <2>2
<1>5. rank \in [places -> 1..size]
  BY <1>3
<1>6. \A i, j \in places : rank[i] = rank[j] => i = j
  <2>1. ASSUME NEW i \in places, NEW j \in places, i # j PROVE rank[i] # rank[j]
    <3>1. i < j \/ j < i
      BY <1>2, <2>1
    <3>. QED  BY <1>4, <3>1
  <2>. QED  BY <2>1
<1>7. \A i \in places : rank[i] = Cardinality({j \in places : j <= i})
  OBVIOUS
<1>. HIDE DEF rank
<1>8. \A n \in 1..size : \E i \in places : rank[i] = n
  <2>1. rank \in Injection(places, 1..size)
    BY <1>5, <1>6 DEF Injection, IsInjective
  <2>2. IsFiniteSet(1..size) /\ Cardinality(1..size) = size
    <3>1. Cardinality(1..size) = IF 1 > size THEN 0 ELSE size - 1 + 1
      BY <1>1, FS_Interval
    <3>2. IsFiniteSet(1..size)
      BY <1>1, FS_Interval
    <3>. QED  BY <1>1, <3>1, <3>2
  <2>. HIDE DEF size
  <2>3. rank \in Surjection(places, 1..size)
    BY <2>1, <2>2, FS_Injection DEF size
  <2>. QED  BY <2>3 DEF Surjection
<1>9. \A n \in 1..size : PlaceOf(places, n) = CHOOSE i \in places : rank[i] = n
  BY <1>7 DEF PlaceOf
<1>. HIDE DEF size
<1>10. \A n \in 1..size : PlaceOf(places, n) \in places /\ rank[PlaceOf(places, n)] = n
  BY <1>8, <1>9
<1>11. ASSUME NEW i \in places PROVE \E n \in 1..size : PlaceOf(places, n) = i
  <2>1. rank[i] \in 1..size
    BY <1>5
  <2>2. PlaceOf(places, rank[i]) = i
    BY <1>6, <1>10, <2>1
  <2>. QED  BY <2>1, <2>2
<1>. QED  BY <1>1, <1>10, <1>11 DEF size

LEMMA LinesAtPlaces ==
    ASSUME NEW S, NEW q \in Seq(S), NEW places \in SUBSET (DOMAIN q)
    PROVE  /\ AtPlaces(q, places) \in Seq(S)
           /\ Elements(AtPlaces(q, places)) = {q[i] : i \in places}
<1>1. Len(q) \in Nat /\ DOMAIN q = 1..Len(q) /\ \A i \in 1..Len(q) : q[i] \in S
  BY LenProperties, ElementOfSeq
<1>2. /\ Cardinality(places) \in Nat
      /\ \A n \in 1..Cardinality(places) : PlaceOf(places, n) \in places
      /\ \A i \in places : \E n \in 1..Cardinality(places) : PlaceOf(places, n) = i
  BY <1>1, PlacesAreInOrder
<1>3. AtPlaces(q, places) \in [1..Cardinality(places) -> S]
  BY <1>1, <1>2 DEF AtPlaces
<1>4. AtPlaces(q, places) \in Seq(S)
  BY <1>2, <1>3, SeqDef
<1>5. Elements(AtPlaces(q, places)) = {q[i] : i \in places}
  BY <1>2 DEF AtPlaces, Elements
<1>. QED  BY <1>4, <1>5

(* The places from one to another, in their order                          *)
LEMMA PlacesInARow ==
    ASSUME NEW m \in Nat, NEW top \in Nat, m <= top
    PROVE  /\ Cardinality((m + 1)..top) = top - m
           /\ \A n \in 1..(top - m) : PlaceOf((m + 1)..top, n) = m + n
<1>. DEFINE places == (m + 1)..top
<1>1. \A k \in m..top : Cardinality((m + 1)..k) = k - m
  <2>1. ASSUME NEW k \in m..top PROVE Cardinality((m + 1)..k) = k - m
    <3>1. k \in Int /\ m + 1 \in Int
      OBVIOUS
    <3>2. Cardinality((m + 1)..k) = IF m + 1 > k THEN 0 ELSE k - (m + 1) + 1
      BY <3>1, FS_Interval
    <3>. QED  BY <3>2
  <2>. QED  BY <2>1
<1>2. ASSUME NEW n \in 1..(top - m) PROVE PlaceOf(places, n) = m + n
  <2>1. \A i \in places : {j \in places : j <= i} = (m + 1)..i
    OBVIOUS
  <2>2. \A i \in places : Cardinality({j \in places : j <= i}) = i - m
    <3>1. \A i \in places : i \in m..top
      OBVIOUS
    <3>. QED  BY <1>1, <2>1, <3>1
  <2>3. m + n \in places /\ \A i \in places : i - m = n <=> i = m + n
    OBVIOUS
  <2>. HIDE DEF places
  <2>4. \A i \in places : Cardinality({j \in places : j <= i}) = n <=> i = m + n
    BY <2>2, <2>3
  <2>. QED  BY <2>3, <2>4 DEF PlaceOf
<1>. QED  BY <1>1, <1>2

(* How the list, the batch and the files keep together: the list is the    *)
(* end of what was accepted, the batch the beginning of the list until it  *)
(* is trimmed (once too often only when an answer is lost), and the file   *)
(* the beginning of what was accepted.                                     *)
Gone == Len(accepted) - Len(list)
LostLines == {line \in Elements(accepted) : line \notin Elements(list) /\ ~Written(line)}
BatchIsNext == Len(batch) <= Len(list) /\ \A i \in 1..Len(batch) : list[i] = batch[i]

ClosedOK ==
    /\ \A x \in Files : stream[x] = "closed" => phase = "stopped"
    /\ phase = "stopped" => client = "ended"
BatchOK ==
    /\ Len(batch) <= BatchSize
    /\ wipes = 0 /\ pc \in {"write", "error"} => BatchIsNext
    /\ pc = "error" => Elements(batch) \subseteq Elements(file["combined"])
    /\ pc = "confirm" /\ client # "ended" => \A line \in Elements(batch) : Written(line)
LossOK ==
    /\ IsFiniteSet(Elements(accepted))
    /\ wipes = 0 => Cardinality(LostLines) <= BatchSize * lostReplies
    /\ wipes = 0 /\ pc = "confirm" =>
          BatchIsNext \/ Cardinality(LostLines) + BatchSize <= BatchSize * lostReplies
OnceOK ==
    NoLostCommand =>
        /\ \A i, j \in DOMAIN accepted : i < j => accepted[i] # accepted[j]
        /\ \A line \in Lines : push[line] \in {"none", "len", "add"} => line \notin Elements(accepted)
        /\ Gone \in Nat /\ \A i \in DOMAIN list : list[i] = accepted[Gone + i]
FileOK ==
    NoLostCommand =>
        /\ Len(file["combined"]) <= Len(accepted)
        /\ \A i \in DOMAIN file["combined"] : file["combined"][i] = accepted[i]
        /\ Gone <= Len(file["combined"])
        /\ pc = "error" \/ (pc = "confirm" /\ client # "ended") =>
              Gone + Len(batch) <= Len(file["combined"])
QuietOK ==
    NoLostCommand /\ outages = 0 /\ restarts = 0 /\ faults = 0 /\ phase = "running" =>
        /\ server /\ client = "up" /\ pc # "off" /\ again = {}
        /\ \A x \in Files : stream[x] = "open"
        /\ Len(file["combined"]) = IF pc \in {"error", "confirm"} THEN Gone + Len(batch) ELSE Gone
BufferInv == TypeOK /\ ClosedOK /\ BatchOK /\ LossOK /\ OnceOK /\ FileOK /\ QuietOK

LEMMA BufferBegins == Init => BufferInv
<1>. SUFFICES ASSUME Init PROVE BufferInv
  OBVIOUS
<1>1. Elements(<<>>) = {} /\ DOMAIN <<>> = {} /\ Len(<<>>) = 0 /\ IsFiniteSet({})
  BY LinesOfLists, EmptySeq, FS_EmptySet
<1>2. TypeOK
  <2>1. <<>> \in Seq(Lines) /\ <<>> \in Seq(ErrorLines)
    BY EmptySeq
  <2>2. file \in [Files -> Seq(Lines)] /\ file["error"] = <<>> /\ stream \in [Files -> {"open", "broken", "closed"}]
    BY <2>1 DEF Init, Files
  <2>3. outages \in 0..MaxOutages /\ lostReplies \in 0..MaxLostReplies /\ wipes \in 0..MaxWipes
        /\ restarts \in 0..MaxRestarts /\ faults \in 0..MaxFaults
    BY BufferAssumption DEF Init
  <2>. QED  BY <2>1, <2>2, <2>3 DEF Init, TypeOK
<1>3. file["combined"] = <<>> /\ \A x \in Files : stream[x] = "open"
  BY DEF Init, Files
<1>4. ClosedOK /\ BatchOK
  BY <1>1, <1>3, BufferAssumption DEF Init, ClosedOK, BatchOK
<1>5. LossOK
  <2>1. LostLines = {} /\ lostReplies = 0 /\ pc = "fetch"
    BY <1>1 DEF LostLines, Init
  <2>2. Cardinality({}) = 0 /\ BatchSize * 0 = 0
    BY FS_EmptySet, BufferAssumption
  <2>3. Cardinality(LostLines) <= BatchSize * lostReplies
    BY <2>1, <2>2
  <2>4. IsFiniteSet(Elements(accepted))
    BY <1>1 DEF Init
  <2>. QED  BY <2>1, <2>3, <2>4 DEF LossOK
<1>6. Gone = 0
  BY <1>1 DEF Gone, Init
<1>7. OnceOK /\ FileOK /\ QuietOK
  BY <1>1, <1>3, <1>6 DEF Init, OnceOK, FileOK, QuietOK
<1>. QED  BY <1>2, <1>4, <1>5, <1>7 DEF BufferInv

(* Steps that neither add, trim nor write                                  *)
LEMMA LinesStay ==
    ASSUME BufferInv, TypeOK', ClosedOK', QuietOK',
           UNCHANGED <<accepted, file, lostReplies>>,
           (list' = list /\ wipes' = wipes) \/ wipes' # 0,
           \A line \in Lines : push'[line] \in {"none", "len", "add"}
                                  => push[line] \in {"none", "len", "add"},
           \/ batch' = batch /\ pc' = pc /\ (client' # "ended" => client # "ended")
           \/ Len(batch') <= BatchSize /\ pc' \in {"fetch", "off"}
           \/ Len(batch') <= BatchSize /\ pc' = "write" /\ BatchIsNext'
    PROVE  BufferInv'
<1>1. BatchOK /\ LossOK /\ OnceOK /\ FileOK
  BY DEF BufferInv
<1>2. list' = list => LostLines' = LostLines /\ Gone' = Gone
  BY DEF LostLines, Written, Gone
<1>3. BatchOK'
  <2>1. CASE batch' = batch /\ pc' = pc /\ (client' # "ended" => client # "ended")
    BY <1>1, <2>1 DEF BatchOK, BatchIsNext, Written
  <2>2. CASE Len(batch') <= BatchSize /\ pc' \in {"fetch", "off"}
    BY <2>2 DEF BatchOK
  <2>3. CASE Len(batch') <= BatchSize /\ pc' = "write" /\ BatchIsNext'
    BY <2>3 DEF BatchOK
  <2>. QED  BY <2>1, <2>2, <2>3
<1>4. LossOK'
  <2>1. CASE wipes' # 0
    BY <1>1, <2>1 DEF LossOK
  <2>2. CASE list' = list /\ wipes' = wipes
    <3>1. pc' = "confirm" => pc = "confirm" /\ (BatchIsNext => BatchIsNext')
      BY <2>2 DEF BatchIsNext
    <3>. QED  BY <1>1, <1>2, <2>2, <3>1 DEF LossOK
  <2>. QED  BY <2>1, <2>2
<1>5. OnceOK' /\ FileOK'
  <2>1. CASE wipes' # 0
    BY <2>1 DEF OnceOK, FileOK, NoLostCommand
  <2>2. CASE list' = list /\ wipes' = wipes
    <3>1. NoLostCommand' = NoLostCommand
      BY <2>2 DEF NoLostCommand
    <3>2. OnceOK'
      BY <1>1, <1>2, <2>2, <3>1 DEF OnceOK
    <3>3. FileOK'
      BY <1>1, <1>2, <2>2, <3>1 DEF FileOK
    <3>. QED  BY <3>2, <3>3
  <2>. QED  BY <2>1, <2>2
<1>. QED  BY <1>3, <1>4, <1>5 DEF BufferInv

(* pushLog, until it sends the line                                        *)
LEMMA PushGoesOn ==
    ASSUME BufferInv, NEW line \in Lines, Log(line) \/ PushLen(line) \/ PushFails(line)
    PROVE  BufferInv'
<1>1. /\ UNCHANGED <<server, list, accepted, ready, client, pc, batch, stream, file, again, phase,
                     outages, lostReplies, wipes, restarts, faults>>
      /\ push' \in [Lines -> {"none", "len", "add", "done", "memory", "refused"}]
      /\ \A l \in Lines : push'[l] \in {"none", "len", "add"} => push[l] \in {"none", "len", "add"}
  <2>1. push \in [Lines -> {"none", "len", "add", "done", "memory", "refused"}]
    BY DEF BufferInv, TypeOK
  <2>2. PICK new \in {"len", "add", "memory", "refused"} :
           push' = [push EXCEPT ![line] = new] /\ push[line] \in {"none", "len", "add"}
    BY DEF Log, PushLen, PushFails, Refuse
  <2>. QED  BY <2>1, <2>2 DEF Log, PushLen, PushFails, listVars, loopVars, fileVars, boundVars
<1>2. TypeOK' /\ ClosedOK' /\ QuietOK'
  BY <1>1 DEF BufferInv, TypeOK, ClosedOK, QuietOK, NoLostCommand, Gone
<1>. QED  BY <1>1, <1>2, LinesStay

(* The loop fetches, ends, opens new files or gives a trim up.             *)
LEMMA LoopGoesOn ==
    ASSUME BufferInv, Fetch \/ LoopEnds \/ NewDay \/ ConfirmFails
    PROVE  BufferInv'
<1>1. /\ UNCHANGED <<server, list, accepted, ready, push, client, file, again, phase,
                     outages, lostReplies, wipes, restarts, faults>>
      /\ TypeOK /\ ClosedOK /\ BatchOK /\ QuietOK
  BY DEF BufferInv, Fetch, LoopEnds, NewDay, ConfirmFails, listVars, pushVars, fileVars, boundVars,
         loopVars
<1>2. /\ Len(list) \in Nat /\ BatchLength \in 0..Len(list) /\ BatchLength <= BatchSize
      /\ list \in Seq(Lines)
  BY <1>1, LenProperties, BufferAssumption DEF TypeOK, BatchLength
<1>3. CASE Fetch
  <2>1. /\ batch' = SubSeq(list, 1, BatchLength) /\ pc' = "write" /\ pc = "fetch" /\ stream' = stream
    BY <1>3 DEF Fetch, Oldest, fileVars
  <2>2. /\ batch' \in Seq(Lines) /\ Len(batch') = BatchLength
        /\ \A i \in 1..BatchLength : batch'[i] = list[i]
    <3>1. \A i \in 1..BatchLength : list[i] \in Lines
      BY <1>2, ElementOfSeq
    <3>2. /\ SubSeq(list, 1, BatchLength) \in Seq(Lines)
          /\ Len(SubSeq(list, 1, BatchLength)) = IF 1 <= BatchLength THEN BatchLength - 1 + 1 ELSE 0
          /\ \A i \in 1..(BatchLength - 1 + 1) : SubSeq(list, 1, BatchLength)[i] = list[1 + i - 1]
      BY <1>2, <3>1, SubSeqProperties
    <3>3. BatchLength - 1 + 1 = BatchLength /\ \A i \in 1..BatchLength : 1 + i - 1 = i
      BY <1>2
    <3>. HIDE DEF BatchLength
    <3>. QED  BY <1>2, <2>1, <3>2, <3>3
  <2>3. TypeOK' /\ ClosedOK' /\ QuietOK'
    BY <1>1, <2>1, <2>2 DEF TypeOK, ClosedOK, QuietOK, NoLostCommand, Gone
  <2>4. BatchIsNext' /\ Len(batch') <= BatchSize
    BY <1>1, <1>2, <2>2 DEF BatchIsNext
  <2>. QED  BY <1>1, <2>1, <2>3, <2>4, LinesStay
<1>4. CASE LoopEnds
  <2>1. pc' = "off" /\ phase # "running" /\ UNCHANGED <<batch, stream>>
    BY <1>4 DEF LoopEnds, fileVars
  <2>2. TypeOK' /\ ClosedOK' /\ QuietOK'
    BY <1>1, <2>1 DEF TypeOK, ClosedOK, QuietOK
  <2>3. Len(batch') <= BatchSize
    BY <1>1, <2>1 DEF BatchOK
  <2>. QED  BY <1>1, <2>1, <2>2, <2>3, LinesStay
<1>5. CASE NewDay
  <2>1. phase = "running" /\ UNCHANGED <<batch, pc>> /\ stream' = [x \in Files |-> "open"]
    BY <1>5 DEF NewDay, loopVars
  <2>2. TypeOK' /\ ClosedOK' /\ QuietOK'
    BY <1>1, <2>1 DEF TypeOK, ClosedOK, QuietOK, NoLostCommand, Gone
  <2>. QED  BY <1>1, <2>1, <2>2, LinesStay
<1>6. CASE ConfirmFails
  <2>1. pc' = "fetch" /\ ~Connected /\ UNCHANGED <<batch, stream>>
    BY <1>6 DEF ConfirmFails, fileVars
  <2>2. TypeOK' /\ ClosedOK' /\ QuietOK'
    BY <1>1, <2>1 DEF TypeOK, ClosedOK, QuietOK, NoLostCommand, Connected
  <2>3. Len(batch') <= BatchSize
    BY <1>1, <2>1 DEF BatchOK
  <2>. QED  BY <1>1, <2>1, <2>2, <2>3, LinesStay
<1>. QED  BY <1>3, <1>4, <1>5, <1>6

(* Connections, streams, the stop and the restart                          *)
LEMMA BufferIsDisturbed ==
    ASSUME BufferInv,
           \/ ServerDown \/ ServerBack \/ ProducerConnects \/ ConsumerConnects
           \/ \E x \in Files : StreamBreaks(x)
           \/ Stop \/ StopCloses \/ Restart
    PROVE  BufferInv'
<1>1. TypeOK /\ ClosedOK /\ BatchOK /\ QuietOK
  BY DEF BufferInv
<1>2. CASE ServerDown
  <2>1. /\ UNCHANGED <<accepted, list, file, push, batch, pc, stream, again, phase,
                       lostReplies, wipes, restarts, faults>>
        /\ outages' = outages + 1 /\ outages < MaxOutages /\ server' = FALSE /\ ready' = FALSE
        /\ client' = IF client = "up" THEN "down" ELSE client
    BY <1>2 DEF ServerDown, Disconnect, listVars, loopVars, fileVars
  <2>2. outages' \in 0..MaxOutages /\ outages' # 0
    BY <1>1, <2>1, BufferAssumption DEF TypeOK
  <2>3. TypeOK' /\ ClosedOK' /\ QuietOK'
    BY <1>1, <2>1, <2>2 DEF TypeOK, ClosedOK, QuietOK
  <2>. QED  BY <2>1, <2>3, LinesStay
<1>3. CASE ServerBack
  <2>1. /\ UNCHANGED <<accepted, ready, file, push, batch, pc, client, stream, again, phase,
                       outages, lostReplies, restarts, faults>>
        /\ server' = TRUE /\ ~server
        /\ \/ list' = list /\ wipes' = wipes
           \/ wipes < MaxWipes /\ wipes' = wipes + 1 /\ list' = <<>>
    BY <1>3 DEF ServerBack, pushVars, loopVars, fileVars
  <2>2. wipes' \in 0..MaxWipes /\ (wipes' = wipes \/ wipes' # 0)
    BY <1>1, <2>1, BufferAssumption DEF TypeOK
  <2>3. list' \in Seq(Lines)
    BY <1>1, <2>1, EmptySeq DEF TypeOK
  <2>4. wipes' = wipes => list' = list
    BY <1>1, <2>1, BufferAssumption DEF TypeOK
  <2>5. TypeOK' /\ ClosedOK'
    BY <1>1, <2>1, <2>2, <2>3 DEF TypeOK, ClosedOK
  <2>6. QuietOK'
    BY <1>1, <2>1, <2>2, <2>4 DEF QuietOK, NoLostCommand
  <2>. QED  BY <2>1, <2>2, <2>4, <2>5, <2>6, LinesStay
<1>4. CASE ProducerConnects
  <2>1. /\ UNCHANGED <<server, accepted, list, file, push, batch, pc, client, stream, again, phase,
                       outages, lostReplies, wipes, restarts, faults>>
        /\ ready' = TRUE
    BY <1>4 DEF ProducerConnects, listVars, loopVars, fileVars, boundVars
  <2>2. TypeOK' /\ ClosedOK' /\ QuietOK'
    BY <1>1, <2>1 DEF TypeOK, ClosedOK, QuietOK, NoLostCommand, Gone
  <2>. QED  BY <2>1, <2>2, LinesStay
<1>5. CASE ConsumerConnects
  <2>1. /\ UNCHANGED <<server, ready, accepted, list, file, push, batch, pc, stream, again, phase,
                       outages, lostReplies, wipes, restarts, faults>>
        /\ client = "down" /\ client' \in {"up", "ended"}
    BY <1>5 DEF ConsumerConnects, listVars, pushVars, loopVars, fileVars, boundVars
  <2>2. TypeOK' /\ ClosedOK' /\ QuietOK'
    BY <1>1, <2>1 DEF TypeOK, ClosedOK, QuietOK, NoLostCommand
  <2>. QED  BY <2>1, <2>2, LinesStay
<1>6. ASSUME NEW x \in Files, StreamBreaks(x) PROVE BufferInv'
  <2>1. /\ UNCHANGED <<server, ready, accepted, list, file, push, batch, pc, client, again, phase,
                       outages, lostReplies, wipes, restarts>>
        /\ stream' = [stream EXCEPT ![x] = "broken"] /\ faults' = faults + 1 /\ faults < MaxFaults
    BY <1>6 DEF StreamBreaks, listVars, pushVars, loopVars
  <2>2. faults' \in 0..MaxFaults /\ faults' # 0
    BY <1>1, <2>1, BufferAssumption DEF TypeOK
  <2>3. TypeOK' /\ ClosedOK' /\ QuietOK'
    BY <1>1, <2>1, <2>2 DEF TypeOK, ClosedOK, QuietOK
  <2>. QED  BY <2>1, <2>3, LinesStay
<1>7. CASE Stop
  <2>1. /\ UNCHANGED <<server, accepted, list, file, push, batch, pc, client, stream, again,
                       outages, lostReplies, wipes, restarts, faults>>
        /\ ready' = FALSE /\ phase = "running" /\ phase' = "stopping"
    BY <1>7 DEF Stop, listVars, loopVars, fileVars, boundVars
  <2>2. TypeOK' /\ ClosedOK' /\ QuietOK'
    BY <1>1, <2>1 DEF TypeOK, ClosedOK, QuietOK
  <2>. QED  BY <2>1, <2>2, LinesStay
<1>8. CASE StopCloses
  <2>1. /\ UNCHANGED <<server, ready, accepted, list, file, push, batch, pc, again,
                       outages, lostReplies, wipes, restarts, faults>>
        /\ stream' = [x \in Files |-> "closed"] /\ client' = "ended" /\ phase' = "stopped"
    BY <1>8 DEF StopCloses, listVars, pushVars, loopVars, boundVars
  <2>2. TypeOK' /\ ClosedOK' /\ QuietOK'
    BY <1>1, <2>1 DEF TypeOK, ClosedOK, QuietOK
  <2>. QED  BY <2>1, <2>2, LinesStay
<1>9. CASE Restart
  <2>1. /\ UNCHANGED <<server, accepted, list, file, again, outages, lostReplies, wipes, faults>>
        /\ restarts' = restarts + 1 /\ restarts < MaxRestarts
        /\ phase' = "running" /\ ready' = server /\ batch' = <<>>
        /\ pc' \in {"fetch", "off"} /\ client' \in {"up", "ended"}
        /\ stream' = [x \in Files |-> "open"]
        /\ push' = [l \in Lines |-> IF push[l] \in {"len", "add"} THEN "done" ELSE push[l]]
    BY <1>9 DEF Restart, listVars
  <2>2. restarts' \in 0..MaxRestarts /\ restarts' # 0
    BY <1>1, <2>1, BufferAssumption DEF TypeOK
  <2>3. <<>> \in Seq(Lines) /\ Len(<<>>) = 0 /\ 0 <= BatchSize
    BY EmptySeq, BufferAssumption
  <2>4. TypeOK'
    <3>1. push' \in [Lines -> {"none", "len", "add", "done", "memory", "refused"}]
      BY <1>1, <2>1 DEF TypeOK
    <3>. QED  BY <1>1, <2>1, <2>2, <2>3, <3>1 DEF TypeOK
  <2>5. ClosedOK' /\ QuietOK'
    BY <2>1, <2>2 DEF ClosedOK, QuietOK
  <2>6. \A line \in Lines : push'[line] \in {"none", "len", "add"} => push[line] \in {"none", "len", "add"}
    BY <2>1
  <2>. QED  BY <2>1, <2>3, <2>4, <2>5, <2>6, LinesStay
<1>. QED  BY <1>2, <1>3, <1>4, <1>5, <1>6, <1>7, <1>8, <1>9

(* Each answer that is lost may cost one batch.                            *)
LEMMA Budget ==
    ASSUME NEW r \in Nat
    PROVE  /\ BatchSize * r \in Nat /\ BatchSize * (r + 1) = BatchSize * r + BatchSize
           /\ BatchSize \in Nat \ {0}
<1>1. BatchSize \in Nat \ {0}
  BY BufferAssumption
<1>2. \A b \in Nat : b * r \in Nat /\ b * (r + 1) = b * r + b
  OBVIOUS
<1>. QED  BY <1>1, <1>2

(* LPUSH                                                                   *)
LEMMA LineIsAdded ==
    ASSUME BufferInv, NEW line \in Lines, Add(line), push[line] = "add",
           UNCHANGED <<file, pc, batch, wipes>>, client' # "ended" => client # "ended",
           \/ lostReplies' = lostReplies /\ push' = [push EXCEPT ![line] = "done"]
           \/ lostReplies' = lostReplies + 1
    PROVE  /\ BatchOK' /\ LossOK' /\ OnceOK' /\ FileOK' /\ Gone' = Gone
           /\ list' \in Seq(Lines) /\ accepted' \in Seq(Lines)
<1>1. TypeOK /\ BatchOK /\ LossOK /\ OnceOK /\ FileOK
  BY DEF BufferInv
<1>2. /\ list' = Append(list, line) /\ accepted' = Append(accepted, line)
      /\ list \in Seq(Lines) /\ accepted \in Seq(Lines)
      /\ push \in [Lines -> {"none", "len", "add", "done", "memory", "refused"}]
      /\ lostReplies \in Nat
  BY <1>1, BufferAssumption DEF Add, TypeOK
<1>3. /\ Len(list) \in Nat /\ Len(list') = Len(list) + 1 /\ list' \in Seq(Lines)
      /\ DOMAIN list = 1..Len(list) /\ DOMAIN list' = 1..(Len(list) + 1)
      /\ list'[Len(list) + 1] = line /\ \A i \in 1..Len(list) : list'[i] = list[i]
      /\ Elements(list') = Elements(list) \cup {line}
  BY <1>2, LenProperties, AppendProperties, LinesOfLists
<1>4. /\ Len(accepted) \in Nat /\ Len(accepted') = Len(accepted) + 1 /\ accepted' \in Seq(Lines)
      /\ DOMAIN accepted = 1..Len(accepted) /\ DOMAIN accepted' = 1..(Len(accepted) + 1)
      /\ accepted'[Len(accepted) + 1] = line
      /\ \A i \in 1..Len(accepted) : accepted'[i] = accepted[i]
      /\ Elements(accepted') = Elements(accepted) \cup {line}
  BY <1>2, LenProperties, AppendProperties, LinesOfLists
<1>5. Len(batch) \in Nat /\ DOMAIN batch = 1..Len(batch)
  BY <1>1, LenProperties DEF TypeOK
<1>6. BatchIsNext => BatchIsNext'
  <2>. SUFFICES ASSUME BatchIsNext PROVE BatchIsNext'
    OBVIOUS
  <2>1. Len(batch) <= Len(list') /\ \A i \in 1..Len(batch) : i \in 1..Len(list)
    BY <1>3, <1>5 DEF BatchIsNext
  <2>. QED  BY <1>3, <2>1 DEF BatchIsNext
<1>7. BatchOK'
  BY <1>1, <1>6 DEF BatchOK, Written
<1>8. LossOK'
  <2>1. LostLines' \in SUBSET LostLines
    BY <1>3, <1>4 DEF LostLines, Written
  <2>2. IsFiniteSet(Elements(accepted')) /\ IsFiniteSet(LostLines)
    <3>1. LostLines \in SUBSET Elements(accepted)
      BY DEF LostLines
    <3>. QED  BY <1>1, <1>4, <3>1, FS_AddElement, FS_Subset DEF LossOK
  <2>3. Cardinality(LostLines') <= Cardinality(LostLines) /\ Cardinality(LostLines) \in Nat
        /\ Cardinality(LostLines') \in Nat
    BY <2>1, <2>2, FS_Subset, FS_CardinalityType
  <2>4. BatchSize * lostReplies \in Nat /\ BatchSize * lostReplies' \in Nat
        /\ BatchSize * lostReplies <= BatchSize * lostReplies' /\ BatchSize \in Nat
    <3>1. BatchSize * lostReplies \in Nat /\ BatchSize \in Nat
          /\ BatchSize * (lostReplies + 1) = BatchSize * lostReplies + BatchSize
      BY <1>2, Budget
    <3>2. BatchSize * lostReplies' = BatchSize * lostReplies
          \/ BatchSize * lostReplies' = BatchSize * (lostReplies + 1)
      OBVIOUS
    <3>. DEFINE spent == BatchSize * lostReplies  spentNow == BatchSize * lostReplies'
                more == BatchSize * (lostReplies + 1)
    <3>. HIDE DEF spent, spentNow, more
    <3>3. spent \in Nat /\ BatchSize \in Nat /\ more = spent + BatchSize /\ (spentNow = spent \/ spentNow = more)
      BY <3>1, <3>2 DEF spent, spentNow, more
    <3>4. spentNow \in Nat /\ spent <= spentNow
      BY <3>3
    <3>. QED  BY <3>3, <3>4 DEF spent, spentNow
  <2>. DEFINE spent == BatchSize * lostReplies  spentNow == BatchSize * lostReplies'
              lost == Cardinality(LostLines)  lostNow == Cardinality(LostLines')
  <2>. HIDE DEF spent, spentNow, lost, lostNow
  <2>5. lost \in Nat /\ lostNow \in Nat /\ spent \in Nat /\ spentNow \in Nat /\ lostNow <= lost
        /\ spent <= spentNow /\ BatchSize \in Nat
    BY <2>3, <2>4 DEF spent, spentNow, lost, lostNow
  <2>6. wipes = 0 => lost <= spent
    BY <1>1 DEF LossOK, lost, spent
  <2>7. wipes = 0 /\ pc = "confirm" => BatchIsNext \/ lost + BatchSize <= spent
    BY <1>1 DEF LossOK, lost, spent
  <2>8. wipes = 0 => lostNow <= spentNow
    BY <2>5, <2>6
  <2>9. wipes = 0 /\ pc = "confirm" => BatchIsNext' \/ lostNow + BatchSize <= spentNow
    BY <1>6, <2>5, <2>7
  <2>. QED  BY <2>2, <2>8, <2>9 DEF LossOK, lostNow, spentNow
<1>9. Gone' = Gone /\ Gone \in Int /\ Gone = Len(accepted) - Len(list)
  BY <1>3, <1>4 DEF Gone
<1>10. OnceOK' /\ FileOK'
  <2>1. CASE lostReplies' = lostReplies + 1
    <3>1. lostReplies' # 0
      BY <1>2, <2>1
    <3>. QED  BY <3>1 DEF OnceOK, FileOK, NoLostCommand
  <2>2. CASE lostReplies' = lostReplies /\ push' = [push EXCEPT ![line] = "done"]
    <3>1. SUFFICES ASSUME NoLostCommand PROVE OnceOK' /\ FileOK'
      BY <2>2 DEF OnceOK, FileOK, NoLostCommand
    <3>2. line \notin Elements(accepted)
      BY <1>1, <3>1 DEF OnceOK
    <3>3. \A i \in 1..Len(accepted) : accepted[i] # line
      BY <1>4, <3>2 DEF Elements
    <3>4. ASSUME NEW i \in DOMAIN accepted', NEW j \in DOMAIN accepted', i < j
          PROVE  accepted'[i] # accepted'[j]
      <4>1. i \in 1..Len(accepted) /\ (j \in 1..Len(accepted) \/ j = Len(accepted) + 1)
        BY <1>4, <3>4
      <4>. QED  BY <1>1, <1>4, <3>1, <3>3, <3>4, <4>1 DEF OnceOK
    <3>5. \A l \in Lines : push'[l] \in {"none", "len", "add"} => l \notin Elements(accepted')
      BY <1>1, <1>2, <1>4, <2>2, <3>1 DEF OnceOK
    <3>6. ASSUME NEW i \in DOMAIN list' PROVE list'[i] = accepted'[Gone + i]
      <4>1. CASE i \in 1..Len(list)
        <5>1. Gone + i \in 1..Len(accepted)
          BY <1>1, <1>3, <1>4, <1>9, <3>1, <4>1 DEF OnceOK
        <5>. QED  BY <1>1, <1>3, <1>4, <3>1, <4>1, <5>1 DEF OnceOK
      <4>2. CASE i = Len(list) + 1
        <5>1. Gone + i = Len(accepted) + 1
          BY <1>3, <1>4, <1>9, <4>2
        <5>. QED  BY <1>3, <1>4, <4>2, <5>1
      <4>. QED  BY <1>3, <4>1, <4>2
    <3>7. OnceOK'
      BY <1>1, <1>9, <3>1, <3>4, <3>5, <3>6 DEF OnceOK
    <3>8. FileOK'
      <4>1. /\ Len(file["combined"]) \in Nat
            /\ DOMAIN file["combined"] = 1..Len(file["combined"])
        BY <1>1, LenProperties DEF TypeOK, Files
      <4>2. Len(file["combined"]) <= Len(accepted)
        BY <1>1, <3>1 DEF FileOK
      <4>3. Len(file["combined"]) <= Len(accepted') /\ \A i \in DOMAIN file["combined"] : i \in 1..Len(accepted)
        BY <1>4, <4>1, <4>2
      <4>4. \A i \in DOMAIN file["combined"] : file["combined"][i] = accepted'[i]
        BY <1>1, <1>4, <3>1, <4>3 DEF FileOK
      <4>. QED  BY <1>1, <1>9, <3>1, <4>3, <4>4 DEF FileOK
    <3>. QED  BY <3>7, <3>8
  <2>. QED  BY <2>1, <2>2
<1>. QED  BY <1>3, <1>4, <1>7, <1>8, <1>9, <1>10

LEMMA LineReachesRedis ==
    ASSUME BufferInv, NEW line \in Lines, PushAdd(line)
    PROVE  BufferInv'
<1>1. /\ UNCHANGED <<server, ready, file, pc, batch, client, stream, again, phase, outages, lostReplies,
                     wipes, restarts, faults>>
      /\ Add(line) /\ push[line] = "add" /\ push' = [push EXCEPT ![line] = "done"]
  BY DEF PushAdd, loopVars, fileVars, boundVars
<1>2. /\ BatchOK' /\ LossOK' /\ OnceOK' /\ FileOK' /\ Gone' = Gone
      /\ list' \in Seq(Lines) /\ accepted' \in Seq(Lines)
  BY <1>1, LineIsAdded
<1>3. TypeOK' /\ ClosedOK' /\ QuietOK'
  BY <1>1, <1>2 DEF BufferInv, TypeOK, ClosedOK, QuietOK, NoLostCommand
<1>. QED  BY <1>2, <1>3 DEF BufferInv

LEMMA TrimmedPlaces ==
    ASSUME NEW n \in Nat, NEW length \in Nat
    PROVE  LET left == IF n + 1 <= length THEN length - (n + 1) + 1 ELSE 0 IN
           /\ left = IF n <= length THEN length - n ELSE 0
           /\ \A i \in 1..left : /\ i \in 1..(length - (n + 1) + 1)
                                 /\ n + 1 + i - 1 = n + i
                                 /\ n + i \in 1..length
           /\ \A i \in 1..length : ~(i <= n) => i - n \in 1..left /\ n + (i - n) = i
OBVIOUS

(* LTRIM                                                                   *)
LEMMA LinesAreTrimmed ==
    ASSUME BufferInv, pc = "confirm", client # "ended", Trim, UNCHANGED <<accepted, file>>
    PROVE  /\ list' \in Seq(Lines) /\ IsFiniteSet(LostLines) /\ IsFiniteSet(LostLines')
           /\ BatchIsNext => /\ LostLines' \subseteq LostLines
                             /\ Gone' = Gone + Len(batch)
                             /\ Len(list') = Len(list) - Len(batch)
                             /\ \A i \in DOMAIN list' : list'[i] = list[Len(batch) + i]
           /\ Cardinality(LostLines') <= Cardinality(LostLines) + BatchSize
<1>1. /\ list \in Seq(Lines) /\ Len(list) \in Nat /\ DOMAIN list = 1..Len(list)
      /\ \A i \in 1..Len(list) : list[i] \in Lines
      /\ batch \in Seq(Lines) /\ Len(batch) \in Nat /\ DOMAIN batch = 1..Len(batch)
      /\ Len(batch) <= BatchSize /\ BatchSize \in Nat
      /\ Len(accepted) \in Nat
      /\ \A line \in Elements(batch) : Written(line)
  BY LenProperties, ElementOfSeq, BufferAssumption DEF BufferInv, TypeOK, BatchOK
<1>. DEFINE n == Len(batch)
<1>2. /\ list' = SubSeq(list, n + 1, Len(list)) /\ list' \in Seq(Lines)
      /\ Len(list') = (IF n + 1 <= Len(list) THEN Len(list) - (n + 1) + 1 ELSE 0)
      /\ \A i \in 1..(Len(list) - (n + 1) + 1) : list'[i] = list[n + 1 + i - 1]
  <2>1. list' = SubSeq(list, n + 1, Len(list))
    BY DEF Trim
  <2>2. \A i \in (n + 1)..Len(list) : list[i] \in Lines
    BY <1>1
  <2>3. n + 1 \in Int /\ Len(list) \in Int
    BY <1>1
  <2>. HIDE DEF n
  <2>. QED  BY <2>1, <2>2, <2>3, SubSeqProperties
<1>3. DOMAIN list' = 1..Len(list')
  BY <1>2, LenProperties
<1>4. /\ Len(list') = IF n <= Len(list) THEN Len(list) - n ELSE 0
      /\ \A i \in 1..Len(list') : n + i \in 1..Len(list) /\ list'[i] = list[n + i]
      /\ \A i \in 1..Len(list) : ~(i <= n) => i - n \in 1..Len(list') /\ n + (i - n) = i
  <2>1. n \in Nat /\ Len(list) \in Nat
    BY <1>1
  <2>. HIDE DEF n
  <2>2. /\ Len(list') = IF n <= Len(list) THEN Len(list) - n ELSE 0
        /\ \A i \in 1..Len(list') : /\ i \in 1..(Len(list) - (n + 1) + 1)
                                    /\ n + 1 + i - 1 = n + i
                                    /\ n + i \in 1..Len(list)
        /\ \A i \in 1..Len(list) : ~(i <= n) => i - n \in 1..Len(list') /\ n + (i - n) = i
    BY <1>2, <2>1, TrimmedPlaces
  <2>. QED  BY <1>2, <2>2
<1>. DEFINE trimmed == {list[i] : i \in {j \in 1..n : j <= Len(list)}}
<1>5. Elements(list) \subseteq Elements(list') \cup trimmed
  <2>1. ASSUME NEW i \in 1..Len(list) PROVE list[i] \in Elements(list') \cup trimmed
    <3>1. CASE i <= n
      BY <1>1, <3>1
    <3>2. CASE ~(i <= n)
      <4>1. PICK k \in 1..Len(list') : n + k = i
        BY <1>4, <3>2
      <4>2. list'[k] = list[i]
        BY <1>4, <4>1
      <4>. QED  BY <1>3, <4>1, <4>2 DEF Elements
    <3>. QED  BY <1>1, <3>1, <3>2
  <2>. QED  BY <1>1, <2>1 DEF Elements
<1>6. LostLines' \subseteq LostLines \cup {line \in trimmed : ~Written(line)}
  BY <1>5 DEF LostLines, Written
<1>7. IsFiniteSet(trimmed) /\ Cardinality(trimmed) <= n
  <2>. DEFINE kept == {j \in 1..n : j <= Len(list)}
              trim == [i \in kept |-> list[i]]
  <2>1. IsFiniteSet(kept) /\ Cardinality(kept) <= n
    <3>1. kept \in SUBSET (1..n) /\ IsFiniteSet(1..n) /\ Cardinality(1..n) = n
      <4>1. n \in Nat /\ 1 \in Int /\ n \in Int
        BY <1>1
      <4>. HIDE DEF n
      <4>2. IsFiniteSet(1..n) /\ Cardinality(1..n) = IF 1 > n THEN 0 ELSE n - 1 + 1
        BY <4>1, FS_Interval
      <4>3. Cardinality(1..n) = n
        BY <4>1, <4>2
      <4>4. \A j \in 1..n : j \in 1..n
        OBVIOUS
      <4>. QED  BY <4>2, <4>3, <4>4
    <3>. HIDE DEF kept, n
    <3>. QED  BY <3>1, FS_Subset
  <2>2. trim \in Surjection(kept, trimmed)
    BY DEF Surjection
  <2>. HIDE DEF kept, trim, trimmed, n
  <2>3. IsFiniteSet(trimmed) /\ Cardinality(trimmed) <= Cardinality(kept)
    BY <2>1, <2>2, FS_Surjection
  <2>4. Cardinality(trimmed) \in Nat /\ Cardinality(kept) \in Nat
    BY <2>1, <2>3, FS_CardinalityType
  <2>. QED  BY <1>1, <2>1, <2>3, <2>4 DEF n
<1>8. IsFiniteSet(LostLines)
  <2>1. LostLines \in SUBSET Elements(accepted) /\ IsFiniteSet(Elements(accepted))
    BY DEF LostLines, BufferInv, LossOK
  <2>. QED  BY <2>1, FS_Subset
<1>9. ASSUME BatchIsNext PROVE LostLines' \subseteq LostLines
  <2>1. \A i \in 1..n : list[i] \in Elements(batch)
    BY <1>1, <1>9 DEF BatchIsNext, Elements
  <2>2. \A line \in trimmed : Written(line)
    BY <1>1, <2>1
  <2>. QED  BY <1>6, <2>2
<1>10. ASSUME BatchIsNext
       PROVE  Gone' = Gone + n /\ Len(list') = Len(list) - n
  <2>1. Len(list') = Len(list) - n
    BY <1>1, <1>4, <1>10 DEF BatchIsNext
  <2>. QED  BY <1>1, <2>1 DEF Gone
<1>. HIDE DEF trimmed
<1>11. IsFiniteSet(LostLines') /\ Cardinality(LostLines') <= Cardinality(LostLines) + BatchSize
  <2>. DEFINE both == LostLines \cup trimmed
  <2>1. IsFiniteSet(both) /\ LostLines' \in SUBSET both
        /\ Cardinality(both) = Cardinality(LostLines) + Cardinality(trimmed) - Cardinality(LostLines \cap trimmed)
    BY <1>6, <1>7, <1>8, FS_Union
  <2>2. IsFiniteSet(LostLines \cap trimmed)
    BY <1>8, FS_Intersection
  <2>. HIDE DEF both
  <2>3. IsFiniteSet(LostLines') /\ Cardinality(LostLines') <= Cardinality(both)
    BY <2>1, FS_Subset
  <2>4. /\ Cardinality(LostLines') \in Nat /\ Cardinality(both) \in Nat /\ Cardinality(LostLines) \in Nat
        /\ Cardinality(trimmed) \in Nat /\ Cardinality(LostLines \cap trimmed) \in Nat
    BY <1>7, <1>8, <2>1, <2>2, <2>3, FS_CardinalityType
  <2>5. Cardinality(trimmed) <= BatchSize /\ BatchSize \in Nat
    <3>1. n \in Nat /\ n <= BatchSize /\ BatchSize \in Nat /\ Cardinality(trimmed) <= n
          /\ Cardinality(trimmed) \in Nat
      BY <1>1, <1>7, <2>4
    <3>. HIDE DEF n
    <3>. QED  BY <3>1
  <2>6. \A a, b, c, d, e, f \in Nat : a <= b /\ b = c + d - e /\ d <= f => a <= c + f
    OBVIOUS
  <2>. QED  BY <2>1, <2>3, <2>4, <2>5, <2>6
<1>. QED  BY <1>2, <1>3, <1>4, <1>8, <1>9, <1>10, <1>11

(* What a trim loses is paid for.                                          *)
LEMMA TrimsArePaid ==
    ASSUME BufferInv, pc = "confirm", client # "ended", Trim, UNCHANGED <<accepted, file>>, wipes = 0
    PROVE  /\ IsFiniteSet(LostLines') /\ Cardinality(LostLines') \in Nat
           /\ Cardinality(LostLines') <= BatchSize * lostReplies
           /\ lostReplies = 0 => BatchIsNext
<1>1. /\ IsFiniteSet(LostLines) /\ IsFiniteSet(LostLines')
      /\ BatchIsNext => LostLines' \in SUBSET LostLines
      /\ Cardinality(LostLines') <= Cardinality(LostLines) + BatchSize
  BY LinesAreTrimmed
<1>2. Cardinality(LostLines) \in Nat /\ Cardinality(LostLines') \in Nat
      /\ (BatchIsNext => Cardinality(LostLines') <= Cardinality(LostLines))
  BY <1>1, FS_Subset, FS_CardinalityType
<1>3. /\ Cardinality(LostLines) <= BatchSize * lostReplies
      /\ BatchIsNext \/ Cardinality(LostLines) + BatchSize <= BatchSize * lostReplies
  BY DEF BufferInv, LossOK
<1>4. BatchSize * lostReplies \in Nat /\ BatchSize \in Nat \ {0} /\ BatchSize * 0 = 0
  <2>1. lostReplies \in Nat
    BY BufferAssumption DEF BufferInv, TypeOK
  <2>2. BatchSize \in Nat \ {0} /\ \A b \in Nat : b * 0 = 0
    BY BufferAssumption
  <2>. QED  BY <2>1, <2>2, Budget
<1>. DEFINE spent == BatchSize * lostReplies  lost == Cardinality(LostLines)
            lostNow == Cardinality(LostLines')
<1>. HIDE DEF spent, lost, lostNow
<1>5. /\ spent \in Nat /\ lost \in Nat /\ lostNow \in Nat /\ BatchSize \in Nat \ {0}
      /\ lost <= spent /\ lostNow <= lost + BatchSize
      /\ BatchIsNext \/ lost + BatchSize <= spent
      /\ BatchIsNext => lostNow <= lost
  BY <1>1, <1>2, <1>3, <1>4 DEF spent, lost, lostNow
<1>6. lostNow <= spent
  BY <1>5
<1>7. spent = 0 => BatchIsNext
  BY <1>5
<1>8. lostReplies = 0 => spent = 0
  BY <1>4 DEF spent
<1>. QED  BY <1>1, <1>2, <1>6, <1>7, <1>8 DEF spent, lostNow

LEMMA LinesAreConfirmed ==
    ASSUME BufferInv, Confirm
    PROVE  BufferInv'
<1>1. /\ UNCHANGED <<server, accepted, ready, push, client, batch, stream, file, again, phase,
                     outages, lostReplies, wipes, restarts, faults>>
      /\ Trim /\ pc = "confirm" /\ pc' = "fetch" /\ client = "up"
      /\ TypeOK /\ ClosedOK /\ BatchOK /\ LossOK /\ OnceOK /\ FileOK /\ QuietOK
  BY DEF Confirm, Connected, pushVars, fileVars, boundVars, BufferInv
<1>2. /\ list' \in Seq(Lines) /\ IsFiniteSet(LostLines')
      /\ BatchIsNext => /\ Gone' = Gone + Len(batch)
                        /\ Len(list') = Len(list) - Len(batch)
                        /\ \A i \in DOMAIN list' : list'[i] = list[Len(batch) + i]
  BY <1>1, LinesAreTrimmed
<1>3. TypeOK' /\ ClosedOK' /\ BatchOK'
  BY <1>1, <1>2 DEF TypeOK, ClosedOK, BatchOK
<1>4. LossOK'
  <2>1. wipes = 0 => Cardinality(LostLines') <= BatchSize * lostReplies
    BY <1>1, TrimsArePaid
  <2>. QED  BY <1>1, <2>1 DEF LossOK
<1>5. NoLostCommand => BatchIsNext
  BY <1>1, TrimsArePaid DEF NoLostCommand
<1>6. /\ Len(batch) \in Nat /\ Len(list) \in Nat /\ Len(list') \in Nat /\ Len(accepted) \in Nat
      /\ DOMAIN list' = 1..Len(list') /\ DOMAIN list = 1..Len(list)
  BY <1>1, <1>2, LenProperties DEF TypeOK
<1>7. OnceOK'
  <2>1. SUFFICES ASSUME NoLostCommand
                 PROVE  Gone' \in Nat /\ \A i \in DOMAIN list' : list'[i] = accepted[Gone' + i]
    BY <1>1 DEF OnceOK, NoLostCommand
  <2>2. BatchIsNext /\ Gone \in Nat /\ \A i \in DOMAIN list : list[i] = accepted[Gone + i]
    BY <1>1, <1>5, <2>1 DEF OnceOK
  <2>3. Gone' = Gone + Len(batch) /\ Gone' \in Nat
    BY <1>2, <1>6, <2>2
  <2>4. ASSUME NEW i \in DOMAIN list' PROVE list'[i] = accepted[Gone' + i]
    <3>1. Len(batch) + i \in 1..Len(list) /\ Gone + (Len(batch) + i) = Gone' + i
      <4>. DEFINE b == Len(batch)  l == Len(list)  m == Len(list')
      <4>1. m = l - b /\ i \in 1..m /\ b \in Nat /\ l \in Nat /\ m \in Nat /\ Gone' = Gone + b
        BY <1>2, <1>6, <2>2, <2>3
      <4>. HIDE DEF b, l, m
      <4>2. b + i \in 1..l /\ Gone + (b + i) = Gone' + i
        BY <2>2, <4>1
      <4>. QED  BY <4>2 DEF b, l
    <3>. QED  BY <1>2, <1>6, <2>2, <3>1
  <2>. QED  BY <2>3, <2>4
<1>8. FileOK'
  <2>1. SUFFICES ASSUME NoLostCommand PROVE Gone' <= Len(file["combined"])
    BY <1>1 DEF FileOK, NoLostCommand
  <2>2. Gone' = Gone + Len(batch) /\ Gone + Len(batch) <= Len(file["combined"])
    BY <1>1, <1>2, <1>5, <2>1 DEF FileOK
  <2>. QED  BY <2>2
<1>9. QuietOK'
  <2>1. NoLostCommand => Gone' = Gone + Len(batch)
    BY <1>2, <1>5
  <2>. QED  BY <1>1, <2>1 DEF QuietOK, NoLostCommand
<1>. QED  BY <1>3, <1>4, <1>7, <1>8, <1>9 DEF BufferInv

(* An answer is lost after the command.                                    *)
LEMMA AnswersAreLost ==
    ASSUME BufferInv, ReplyLost
    PROVE  BufferInv'
<1>1. /\ UNCHANGED <<push, pc, batch, stream, file, again, phase, outages, wipes, restarts, faults>>
      /\ lostReplies' = lostReplies + 1 /\ lostReplies < MaxLostReplies
      /\ server' = FALSE /\ ready' = FALSE /\ client' = IF client = "up" THEN "down" ELSE client
      /\ TypeOK /\ ClosedOK /\ BatchOK /\ LossOK
  BY DEF ReplyLost, Disconnect, loopVars, fileVars, BufferInv
<1>2. lostReplies \in Nat /\ lostReplies' \in 0..MaxLostReplies /\ lostReplies' # 0
  BY <1>1, BufferAssumption DEF TypeOK
<1>3. QuietOK'
  BY <1>2 DEF QuietOK, NoLostCommand
<1>4. CASE pc = "confirm" /\ client = "up" /\ Trim /\ accepted' = accepted
  <2>1. list' \in Seq(Lines)
    BY <1>1, <1>4, LinesAreTrimmed
  <2>2. TypeOK' /\ ClosedOK' /\ OnceOK' /\ FileOK'
    BY <1>1, <1>2, <1>4, <2>1 DEF TypeOK, ClosedOK, OnceOK, FileOK, NoLostCommand
  <2>3. BatchOK'
    BY <1>1, <1>4 DEF BatchOK, Written
  <2>4. LossOK'
    <3>1. wipes = 0 => /\ Cardinality(LostLines') \in Nat
                       /\ Cardinality(LostLines') <= BatchSize * lostReplies
      BY <1>1, <1>4, TrimsArePaid
    <3>2. /\ BatchSize * lostReplies \in Nat /\ BatchSize \in Nat
          /\ BatchSize * lostReplies' = BatchSize * lostReplies + BatchSize
      BY <1>1, <1>2, Budget
    <3>3. \A a, b, c, d \in Nat : a <= b /\ d = b + c => a <= d /\ a + c <= d
      OBVIOUS
    <3>4. BatchSize * lostReplies' \in Nat
      BY <3>2
    <3>5. wipes = 0 => /\ Cardinality(LostLines') <= BatchSize * lostReplies'
                       /\ Cardinality(LostLines') + BatchSize <= BatchSize * lostReplies'
      BY <3>1, <3>2, <3>3, <3>4
    <3>. QED  BY <1>1, <1>4, <3>5 DEF LossOK
  <2>. QED  BY <1>3, <2>2, <2>3, <2>4 DEF BufferInv
<1>5. ASSUME NEW line \in Lines, push[line] = "add", Add(line) PROVE BufferInv'
  <2>1. BatchOK' /\ LossOK' /\ OnceOK' /\ FileOK' /\ list' \in Seq(Lines) /\ accepted' \in Seq(Lines)
    BY <1>1, <1>5, LineIsAdded
  <2>2. TypeOK' /\ ClosedOK'
    BY <1>1, <1>2, <2>1 DEF TypeOK, ClosedOK
  <2>. QED  BY <1>3, <2>1, <2>2 DEF BufferInv
<1>. QED  BY <1>4, <1>5 DEF ReplyLost

(* What a write adds to a file                                             *)
LEMMA NewLines ==
    ASSUME TypeOK, NEW x \in Files
    PROVE  /\ New(x) = AtPlaces(batch, Fresh(x)) /\ New(x) \in Seq(Lines)
           /\ Elements(New(x)) = {batch[i] : i \in Fresh(x)}
           /\ Elements(file[x] \o New(x)) = Elements(file[x]) \cup {batch[i] : i \in Fresh(x)}
<1>1. batch \in Seq(Lines) /\ file[x] \in Seq(Lines)
  BY DEF TypeOK
<1>2. Fresh(x) \in SUBSET (DOMAIN batch)
  BY DEF Fresh
<1>3. New(x) = AtPlaces(batch, Fresh(x))
  BY DEF New, AtPlaces
<1>4. New(x) \in Seq(Lines) /\ Elements(New(x)) = {batch[i] : i \in Fresh(x)}
  BY <1>1, <1>2, <1>3, LinesAtPlaces
<1>. QED  BY <1>1, <1>3, <1>4, LinesOfLists

LEMMA WholeBatchIsWritten ==
    ASSUME TypeOK
    PROVE  Elements(file["combined"] \o New("combined")) = Elements(file["combined"]) \cup Elements(batch)
<1>1. Elements(file["combined"] \o New("combined"))
        = Elements(file["combined"]) \cup {batch[i] : i \in Fresh("combined")}
  BY NewLines DEF Files
<1>2. Fresh("combined") = {i \in DOMAIN batch : batch[i] \notin Elements(file["combined"])}
  BY DEF Fresh
<1>. QED  BY <1>1, <1>2 DEF Elements

(* Without a lost command the file goes on where it ended.                 *)
LEMMA FileGoesOn ==
    ASSUME BufferInv, NoLostCommand, pc = "write",
           NEW G, G = file["combined"] \o New("combined")
    PROVE  /\ Len(G) <= Len(accepted) /\ \A i \in DOMAIN G : G[i] = accepted[i]
           /\ Gone <= Len(G) /\ Gone + Len(batch) <= Len(G)
           /\ Len(file["combined"]) = Gone => /\ Len(G) = Gone + Len(batch)
                                              /\ Elements(batch) \cap Elements(file["combined"]) = {}
<1>. DEFINE F == file["combined"]  f == Len(F)  b == Len(batch)  l == Len(list)  a == Len(accepted)
<1>1. /\ TypeOK /\ BatchIsNext /\ Gone \in Nat /\ Gone = a - l
      /\ \A i \in DOMAIN list : list[i] = accepted[Gone + i]
      /\ \A i, j \in DOMAIN accepted : i < j => accepted[i] # accepted[j]
      /\ f <= a /\ Gone <= f /\ \A i \in DOMAIN F : F[i] = accepted[i]
  BY DEF BufferInv, BatchOK, OnceOK, FileOK, NoLostCommand, Gone
<1>2. /\ F \in Seq(Lines) /\ f \in Nat /\ DOMAIN F = 1..f
      /\ b \in Nat /\ DOMAIN batch = 1..b /\ batch \in Seq(Lines)
      /\ l \in Nat /\ DOMAIN list = 1..l
      /\ a \in Nat /\ DOMAIN accepted = 1..a
  BY <1>1, LenProperties DEF TypeOK, Files
<1>3. b <= l /\ \A i \in 1..b : batch[i] = list[i]
  BY <1>1, <1>2 DEF BatchIsNext
<1>4. New("combined") = AtPlaces(batch, Fresh("combined")) /\ New("combined") \in Seq(Lines)
  BY <1>1, NewLines DEF Files
<1>5. Fresh("combined") = {i \in 1..b : batch[i] \notin Elements(F)}
  BY <1>2 DEF Fresh
<1>6. Elements(F) = {F[i] : i \in 1..f}
  BY <1>2 DEF Elements
<1>. HIDE DEF F, f, b, l, a
<1>7. ASSUME NEW i \in 1..b
      PROVE  Gone + i \in 1..a /\ batch[i] = accepted[Gone + i] /\ (batch[i] \in Elements(F) <=> Gone + i <= f)
  <2>1. i \in 1..l /\ Gone + i \in 1..a
    BY <1>1, <1>2, <1>3
  <2>2. batch[i] = accepted[Gone + i]
    BY <1>1, <1>2, <1>3, <2>1
  <2>3. Gone + i <= f => batch[i] \in Elements(F)
    <3>1. Gone + i <= f => Gone + i \in 1..f
      BY <1>2, <2>1
    <3>. QED  BY <1>1, <1>2, <1>6, <2>2, <3>1
  <2>4. ASSUME batch[i] \in Elements(F) PROVE Gone + i <= f
    <3>1. PICK j \in 1..f : F[j] = batch[i]
      BY <1>6, <2>4
    <3>2. j \in 1..a /\ accepted[j] = accepted[Gone + i]
      BY <1>1, <1>2, <2>2, <3>1
    <3>3. ~(j < Gone + i) /\ ~(Gone + i < j)
      BY <1>1, <1>2, <2>1, <3>2
    <3>. QED  BY <1>2, <2>1, <3>3
  <2>. QED  BY <2>1, <2>2, <2>3, <2>4
<1>. DEFINE m == IF f - Gone <= b THEN f - Gone ELSE b
<1>8. m \in Nat /\ m <= b /\ b - m \in Nat
  BY <1>1, <1>2
<1>9. Fresh("combined") = (m + 1)..b
  <2>1. \A i \in 1..b : ~(Gone + i <= f) <=> i \in (m + 1)..b
    BY <1>1, <1>2
  <2>2. \A i \in (m + 1)..b : i \in 1..b
    BY <1>8
  <2>. HIDE DEF m
  <2>. QED  BY <1>5, <1>7, <2>1, <2>2
<1>10. m < b => m = f - Gone
  BY <1>1, <1>2
<1>11. f = Gone => m = 0
  BY <1>1, <1>2
<1>12. IF Gone + b <= f THEN f + (b - m) = f ELSE f + (b - m) = Gone + b
  BY <1>1, <1>2
<1>. HIDE DEF m
<1>13. Cardinality((m + 1)..b) = b - m /\ \A n \in 1..(b - m) : PlaceOf((m + 1)..b, n) = m + n
  BY <1>2, <1>8, PlacesInARow
<1>14. New("combined") = [n \in 1..(b - m) |-> batch[m + n]]
  BY <1>4, <1>9, <1>13 DEF AtPlaces
<1>15. Len(New("combined")) = b - m
  BY <1>4, <1>8, <1>14, LenProperties
<1>16. /\ G \in Seq(Lines) /\ Len(G) = f + (b - m) /\ DOMAIN G = 1..(f + (b - m))
       /\ \A i \in 1..f : G[i] = F[i]
       /\ \A n \in 1..(b - m) : G[f + n] = New("combined")[n]
  <2>1. /\ G \in Seq(Lines) /\ Len(G) = Len(F) + Len(New("combined"))
        /\ \A i \in 1..Len(F) : G[i] = F[i]
        /\ \A i \in (Len(F) + 1)..(Len(F) + Len(New("combined"))) : G[i] = New("combined")[i - Len(F)]
    BY <1>2, <1>4, ConcatProperties DEF F
  <2>2. DOMAIN G = 1..Len(G)
    BY <2>1, LenProperties
  <2>3. Len(F) = f
    BY DEF f
  <2>. DEFINE d == b - m  N == New("combined")  after == f + d
  <2>4. d \in Nat /\ f \in Nat /\ Len(N) = d
    BY <1>2, <1>8, <1>15
  <2>. HIDE DEF d, N
  <2>. DEFINE row == (f + 1)..after
  <2>5. \A n \in 1..d : \E k \in row : k = f + n /\ k - f = n
    <3>1. ASSUME NEW n \in 1..d PROVE \E k \in row : k = f + n /\ k - f = n
      <4>1. f + n \in row /\ (f + n) - f = n
        BY <2>4
      <4>. HIDE DEF row
      <4>. QED  BY <4>1
    <3>. QED  BY <3>1
  <2>6. ASSUME NEW n \in 1..d PROVE G[f + n] = N[n]
    <3>1. \A i \in row : G[i] = N[i - f]
      BY <2>1, <2>3, <2>4 DEF N
    <3>2. PICK k \in row : k = f + n /\ k - f = n
      BY <2>5
    <3>. HIDE DEF row
    <3>3. G[k] = N[k - f]
      BY <3>1
    <3>4. G[k] = N[n]
      BY <3>2, <3>3
    <3>. QED  BY <3>2, <3>4
  <2>7. Len(G) = f + d /\ \A i \in 1..f : G[i] = F[i]
    BY <2>1, <2>3, <2>4 DEF N
  <2>. QED  BY <2>1, <2>2, <2>6, <2>7 DEF d, N
<1>17. Len(G) <= a /\ Gone <= Len(G) /\ Gone + b <= Len(G)
  <2>1. f + (b - m) <= a /\ Gone <= f + (b - m) /\ Gone + b <= f + (b - m)
    BY <1>1, <1>2, <1>3, <1>8, <1>12
  <2>. QED  BY <1>16, <2>1
<1>18. ASSUME NEW i \in DOMAIN G PROVE G[i] = accepted[i]
  <2>1. CASE i <= f
    <3>1. i \in 1..f
      BY <1>2, <1>8, <1>16, <2>1
    <3>. QED  BY <1>1, <1>2, <1>16, <3>1
  <2>2. CASE ~(i <= f)
    <3>1. \A k \in 1..(f + (b - m)) : ~(k <= f) =>
             k - f \in 1..(b - m) /\ f + (k - f) = k /\ m + (k - f) \in 1..b /\ m < b
      <4>1. f \in Nat /\ b \in Nat /\ m \in Nat
        BY <1>2, <1>8
      <4>. QED  BY <4>1
    <3>2. i - f \in 1..(b - m) /\ f + (i - f) = i
      BY <1>16, <2>2, <3>1
    <3>3. m + (i - f) \in 1..b /\ m < b
      BY <1>16, <2>2, <3>1
    <3>4. Gone + (m + (i - f)) = i
      BY <1>1, <1>2, <1>10, <3>2, <3>3
    <3>5. G[i] = batch[m + (i - f)]
      BY <1>14, <1>16, <3>2
    <3>. QED  BY <1>7, <3>3, <3>4, <3>5
  <2>. QED  BY <2>1, <2>2
<1>19. ASSUME f = Gone PROVE Len(G) = Gone + b /\ Elements(batch) \cap Elements(F) = {}
  <2>1. Len(G) = Gone + b
    BY <1>1, <1>2, <1>11, <1>16, <1>19
  <2>2. \A i \in 1..b : ~(Gone + i <= f)
    BY <1>1, <1>2, <1>19
  <2>. QED  BY <1>2, <1>7, <2>1, <2>2 DEF Elements
<1>. QED  BY <1>17, <1>18, <1>19 DEF F, f, b, a

(* Writing loses no line.                                                  *)
LEMMA WritingLosesNothing ==
    ASSUME TypeOK, LossOK, BatchOK, UNCHANGED <<list, accepted, batch, wipes, lostReplies>>,
           pc \in {"write", "error"}, \A line : Written(line) => Written(line)'
    PROVE  LossOK'
<1>1. LostLines' \in SUBSET LostLines
  BY DEF LostLines
<1>2. IsFiniteSet(LostLines)
  <2>1. LostLines \in SUBSET Elements(accepted) /\ IsFiniteSet(Elements(accepted))
    BY DEF LostLines, LossOK
  <2>. QED  BY <2>1, FS_Subset
<1>3. Cardinality(LostLines') <= Cardinality(LostLines) /\ Cardinality(LostLines) \in Nat
      /\ Cardinality(LostLines') \in Nat
  BY <1>1, <1>2, FS_Subset, FS_CardinalityType
<1>4. wipes = 0 => BatchIsNext'
  BY DEF BatchOK, BatchIsNext
<1>. DEFINE lost == Cardinality(LostLines)  lostNow == Cardinality(LostLines')
            spent == BatchSize * lostReplies
<1>5. wipes = 0 => lost <= spent
  BY DEF LossOK
<1>6. spent \in Int
  <2>1. lostReplies \in Nat
    BY BufferAssumption DEF TypeOK
  <2>. QED  BY <2>1, Budget
<1>. HIDE DEF lost, lostNow, spent
<1>7. wipes = 0 => lostNow <= spent
  BY <1>3, <1>5, <1>6 DEF lost, lostNow
<1>8. wipes = 0 => Cardinality(LostLines') <= BatchSize * lostReplies
  BY <1>7 DEF lostNow, spent
<1>9. wipes' = wipes /\ lostReplies' = lostReplies /\ Elements(accepted') = Elements(accepted)
  OBVIOUS
<1>. QED  BY <1>4, <1>8, <1>9 DEF LossOK

LEMMA LinesAreWritten ==
    ASSUME BufferInv, Write
    PROVE  BufferInv'
<1>1. /\ UNCHANGED <<server, list, accepted, ready, push, client, batch, stream, phase,
                     outages, lostReplies, wipes, restarts, faults>>
      /\ pc = "write"
      /\ TypeOK /\ ClosedOK /\ BatchOK /\ LossOK /\ OnceOK /\ FileOK /\ QuietOK
  BY DEF Write, listVars, pushVars, boundVars, BufferInv
<1>2. OnceOK'
  BY <1>1 DEF OnceOK, NoLostCommand, Gone
<1>3. wipes = 0 => BatchIsNext'
  BY <1>1 DEF BatchOK, BatchIsNext
<1>4. CASE stream["combined"] \in {"closed", "broken"} /\ UNCHANGED <<file, again>>
           /\ pc' = IF stream["combined"] = "closed" THEN "confirm" ELSE "fetch"
  <2>1. TypeOK' /\ ClosedOK'
    BY <1>1, <1>4 DEF TypeOK, ClosedOK
  <2>2. stream["combined"] = "closed" => client = "ended"
    BY <1>1 DEF ClosedOK, Files
  <2>3. BatchOK'
    BY <1>1, <1>4, <2>2 DEF BatchOK
  <2>4. \A line : Written(line) => Written(line)'
    BY <1>4 DEF Written
  <2>5. LossOK'
    BY <1>1, <2>4, WritingLosesNothing
  <2>6. FileOK'
    BY <1>1, <1>4, <2>2 DEF FileOK, NoLostCommand, Gone
  <2>7. QuietOK'
    BY <1>1, <1>4 DEF QuietOK, NoLostCommand, Files
  <2>. QED  BY <1>2, <2>1, <2>3, <2>5, <2>6, <2>7 DEF BufferInv
<1>5. CASE /\ stream["combined"] = "open"
           /\ file' = [file EXCEPT !["combined"] = @ \o New("combined")]
           /\ again' = again \cup (Elements(batch) \cap Elements(file["combined"]))
           /\ pc' = IF HasErrors THEN "error" ELSE "confirm"
  <2>. DEFINE G == file["combined"] \o New("combined")
  <2>1. /\ file' = [file EXCEPT !["combined"] = G]
        /\ file'["combined"] = G /\ file'["error"] = file["error"]
    BY <1>1, <1>5 DEF TypeOK, Files
  <2>2. G \in Seq(Lines)
    <3>1. New("combined") \in Seq(Lines) /\ file["combined"] \in Seq(Lines)
      BY <1>1, NewLines DEF TypeOK, Files
    <3>. QED  BY <3>1, ConcatProperties
  <2>3. Elements(G) = Elements(file["combined"]) \cup Elements(batch)
    BY <1>1, WholeBatchIsWritten
  <2>4. Elements(batch) \subseteq Lines /\ again' \in SUBSET Lines
    <3>1. Elements(batch) \subseteq Lines /\ again \in SUBSET Lines
      BY <1>1, LinesOfLists DEF TypeOK
    <3>. QED  BY <1>5, <3>1
  <2>5. NoLostCommand => /\ Len(G) <= Len(accepted) /\ \A i \in DOMAIN G : G[i] = accepted[i]
                         /\ Gone <= Len(G) /\ Gone + Len(batch) <= Len(G)
                         /\ Len(file["combined"]) = Gone
                              => /\ Len(G) = Gone + Len(batch)
                                 /\ Elements(batch) \cap Elements(file["combined"]) = {}
    BY <1>1, FileGoesOn
  <2>. HIDE DEF G
  <2>6. TypeOK'
    <3>1. file' \in [Files -> Seq(Lines)]
      BY <1>1, <2>1, <2>2 DEF TypeOK
    <3>2. pc' \in {"fetch", "write", "error", "confirm", "off"}
      BY <1>5
    <3>. QED  BY <1>1, <2>1, <2>4, <3>1, <3>2 DEF TypeOK
  <2>7. ClosedOK'
    BY <1>1 DEF ClosedOK
  <2>8. \A line : Written(line) => Written(line)'
    BY <2>1, <2>3 DEF Written
  <2>9. BatchOK'
    <3>1. Elements(batch) \subseteq Elements(file'["combined"])
      BY <2>1, <2>3
    <3>2. pc' = "confirm" => \A line \in Elements(batch) : line \notin ErrorLines
      BY <1>5 DEF HasErrors
    <3>3. pc' = "confirm" => \A line \in Elements(batch') : Written(line)'
      BY <1>1, <3>1, <3>2 DEF Written
    <3>4. pc' = "error" => Elements(batch') \subseteq Elements(file'["combined"])
      BY <1>1, <3>1
    <3>5. pc' \in {"error", "confirm"}
      BY <1>5
    <3>. QED  BY <1>1, <1>3, <3>3, <3>4, <3>5 DEF BatchOK
  <2>10. LossOK'
    BY <1>1, <2>8, WritingLosesNothing
  <2>11. FileOK'
    BY <1>1, <2>1, <2>5 DEF FileOK, NoLostCommand, Gone
  <2>12. QuietOK'
    <3>1. SUFFICES ASSUME NoLostCommand, outages = 0, restarts = 0, faults = 0, phase = "running"
                   PROVE  again' = {} /\ Len(G) = Gone + Len(batch)
      BY <1>1, <1>5, <2>1 DEF QuietOK, NoLostCommand, Gone
    <3>2. again = {} /\ Len(file["combined"]) = Gone
      BY <1>1, <3>1 DEF QuietOK
    <3>. QED  BY <1>5, <2>5, <3>1, <3>2
  <2>. QED  BY <1>2, <2>6, <2>7, <2>9, <2>10, <2>11, <2>12 DEF BufferInv
<1>6. \/ /\ stream["combined"] \in {"closed", "broken"} /\ UNCHANGED <<file, again>>
         /\ pc' = IF stream["combined"] = "closed" THEN "confirm" ELSE "fetch"
      \/ /\ stream["combined"] = "open"
         /\ file' = [file EXCEPT !["combined"] = @ \o New("combined")]
         /\ again' = again \cup (Elements(batch) \cap Elements(file["combined"]))
         /\ pc' = IF HasErrors THEN "error" ELSE "confirm"
  BY DEF Write
<1>. QED  BY <1>4, <1>5, <1>6

LEMMA ErrorsAreWritten ==
    ASSUME BufferInv, WriteErrors
    PROVE  BufferInv'
<1>1. /\ UNCHANGED <<server, list, accepted, ready, push, client, batch, stream, again, phase,
                     outages, lostReplies, wipes, restarts, faults>>
      /\ pc = "error"
      /\ TypeOK /\ ClosedOK /\ BatchOK /\ LossOK /\ OnceOK /\ FileOK /\ QuietOK
  BY DEF WriteErrors, listVars, pushVars, boundVars, BufferInv
<1>2. OnceOK' /\ ClosedOK'
  BY <1>1 DEF OnceOK, NoLostCommand, Gone, ClosedOK
<1>3. CASE stream["error"] # "open" /\ file' = file /\ pc' = "fetch"
  <2>1. TypeOK' /\ BatchOK'
    BY <1>1, <1>3 DEF TypeOK, BatchOK
  <2>2. \A line : Written(line) => Written(line)'
    BY <1>3 DEF Written
  <2>3. LossOK'
    BY <1>1, <2>2, WritingLosesNothing
  <2>4. FileOK'
    BY <1>1, <1>3 DEF FileOK, NoLostCommand, Gone
  <2>5. QuietOK'
    BY <1>1, <1>3 DEF QuietOK, NoLostCommand, Files
  <2>. QED  BY <1>2, <2>1, <2>3, <2>4, <2>5 DEF BufferInv
<1>4. CASE /\ stream["error"] = "open" /\ pc' = "confirm"
           /\ file' = [file EXCEPT !["error"] = @ \o New("error")]
  <2>. DEFINE G == file["error"] \o New("error")
  <2>1. /\ file' = [file EXCEPT !["error"] = G]
        /\ file'["error"] = G /\ file'["combined"] = file["combined"]
    BY <1>1, <1>4 DEF TypeOK, Files
  <2>2. Elements(G) = Elements(file["error"]) \cup {batch[i] : i \in Fresh("error")}
    BY <1>1, NewLines DEF Files
  <2>3. G \in Seq(Lines) /\ G \in Seq(ErrorLines)
    <3>1. New("error") \in Seq(Lines) /\ file["error"] \in Seq(Lines) /\ file["error"] \in Seq(ErrorLines)
          /\ Elements(New("error")) = {batch[i] : i \in Fresh("error")}
      BY <1>1, NewLines DEF TypeOK, Files
    <3>2. New("error") \in Seq(ErrorLines)
      <4>1. /\ Len(New("error")) \in Nat
            /\ New("error") \in [1..Len(New("error")) -> Lines]
            /\ DOMAIN New("error") = 1..Len(New("error"))
        BY <3>1, LenProperties
      <4>2. \A i \in 1..Len(New("error")) : New("error")[i] \in ErrorLines
        BY <3>1, <4>1 DEF Elements, Fresh
      <4>3. New("error") \in [1..Len(New("error")) -> ErrorLines]
        BY <4>1, <4>2
      <4>. QED  BY <4>1, <4>3, SeqDef
    <3>. QED  BY <3>1, <3>2, ConcatProperties
  <2>4. \A line \in Elements(batch) : line \in ErrorLines => line \in Elements(G)
    BY <2>2 DEF Elements, Fresh
  <2>. HIDE DEF G
  <2>5. TypeOK'
    <3>1. file' \in [Files -> Seq(Lines)]
      BY <1>1, <2>1, <2>3 DEF TypeOK
    <3>. QED  BY <1>1, <1>4, <2>1, <2>3, <3>1 DEF TypeOK
  <2>6. \A line : Written(line) => Written(line)'
    BY <2>1, <2>2 DEF Written
  <2>7. BatchOK'
    <3>1. \A line \in Elements(batch) : Written(line)'
      BY <1>1, <2>1, <2>4 DEF BatchOK, Written
    <3>. QED  BY <1>1, <1>4, <3>1 DEF BatchOK
  <2>8. LossOK'
    BY <1>1, <2>6, WritingLosesNothing
  <2>9. FileOK'
    BY <1>1, <1>4, <2>1 DEF FileOK, NoLostCommand, Gone
  <2>10. QuietOK'
    BY <1>1, <1>4, <2>1 DEF QuietOK, NoLostCommand, Gone
  <2>. QED  BY <1>2, <2>5, <2>7, <2>8, <2>9, <2>10 DEF BufferInv
<1>. QED  BY <1>3, <1>4 DEF WriteErrors

LEMMA BufferGoesOn == BufferInv /\ [Next]_vars => BufferInv'
<1>. SUFFICES ASSUME BufferInv, [Next]_vars PROVE BufferInv'
  OBVIOUS
<1>1. CASE UNCHANGED vars
  BY <1>1 DEF vars, listVars, pushVars, loopVars, fileVars, boundVars, BufferInv, TypeOK, ClosedOK, BatchOK,
              LossOK, OnceOK, FileOK, QuietOK, NoLostCommand, Gone, LostLines, Written, BatchIsNext
<1>2. CASE Next
  <2>1. ASSUME NEW line \in Lines, Log(line) \/ PushLen(line) \/ PushAdd(line) \/ PushFails(line)
        PROVE  BufferInv'
    BY <2>1, PushGoesOn, LineReachesRedis
  <2>2. CASE Fetch \/ LoopEnds \/ NewDay \/ ConfirmFails
    BY <2>2, LoopGoesOn
  <2>3. CASE Write \/ WriteErrors \/ Confirm \/ ReplyLost
    BY <2>3, LinesAreWritten, ErrorsAreWritten, LinesAreConfirmed, AnswersAreLost
  <2>4. CASE \/ ServerDown \/ ServerBack \/ ProducerConnects \/ ConsumerConnects
             \/ \E x \in Files : StreamBreaks(x)
             \/ Stop \/ StopCloses \/ Restart
    BY <2>4, BufferIsDisturbed
  <2>. QED  BY <1>2, <2>1, <2>2, <2>3, <2>4 DEF Next
<1>. QED  BY <1>1, <1>2

(* The list, the batch and the files keep together as BufferInv says.      *)
THEOREM BufferKeepsTogether == Spec => []BufferInv
BY BufferBegins, BufferGoesOn, PTL DEF Spec

(* What the consumer trims from Redis is in the files, whatever restarts,  *)
(* outages, failing streams and the stop come between (confirmLogs): each  *)
(* lost answer to an LTRIM may cost one batch, and nothing else a line.    *)
THEOREM TrimmedLinesStayWritten == Spec => []TrimmedLinesAreWritten
<1>1. BufferInv => TrimmedLinesAreWritten
  BY DEF BufferInv, LossOK, LostLines, TrimmedLinesAreWritten
<1>. QED  BY <1>1, BufferKeepsTogether, PTL

(* However often a batch is fetched and written again, the combined file   *)
(* has the lines in the order Redis received them, without a gap, and none *)
(* twice while nothing fails (startConsuming, writeLogs, confirmLogs).     *)
THEOREM FileStaysInOrder == Spec => []FileFollowsTheBuffer
<1>1. BufferInv => FileHasNoGaps
  <2>. DEFINE F == file["combined"]
  <2>. SUFFICES ASSUME BufferInv, NoLostCommand, NEW i \in DOMAIN F,
                       NEW j \in DOMAIN accepted, NEW k \in DOMAIN accepted,
                       accepted[k] = F[i], j < k
                PROVE  \E h \in 1..(i - 1) : F[h] = accepted[j]
    BY DEF FileHasNoGaps
  <2>1. /\ Len(F) \in Nat /\ DOMAIN F = 1..Len(F)
        /\ Len(accepted) \in Nat /\ DOMAIN accepted = 1..Len(accepted)
    BY LenProperties DEF BufferInv, TypeOK, Files
  <2>2. /\ Len(F) <= Len(accepted) /\ \A n \in DOMAIN F : F[n] = accepted[n]
        /\ \A m, n \in DOMAIN accepted : m < n => accepted[m] # accepted[n]
    BY DEF BufferInv, FileOK, OnceOK
  <2>. HIDE DEF F
  <2>3. i \in DOMAIN accepted /\ accepted[k] = accepted[i]
    BY <2>1, <2>2
  <2>4. ~(i < k) /\ ~(k < i)
    BY <2>2, <2>3
  <2>5. k = i
    BY <2>1, <2>3, <2>4
  <2>6. j \in 1..(i - 1) /\ j \in DOMAIN F
    BY <2>1, <2>5
  <2>. QED  BY <2>2, <2>6
<1>2. BufferInv => NoRepetitions
  BY DEF BufferInv, QuietOK, NoRepetitions
<1>. QED  BY <1>1, <1>2, BufferKeepsTogether, PTL DEF FileFollowsTheBuffer
-----------------------------------------------------------------------------
LEMMA AnalysisTypesHold == AnalysisInv => AnalysisTypeOK
<1>. SUFFICES ASSUME AnalysisInv PROVE AnalysisTypeOK
  OBVIOUS
<1>1. ASSUME NEW a \in Analyses
      PROVE  /\ rows[a].status \in Statuses /\ rows[a].units \in Nat /\ rows[a].readable \in BOOLEAN
             /\ rows[a].report # {} <=> rows[a].status = "completed"
             /\ work[a].phase \in {"none", "called", "running"}
             /\ work[a].document \in SUBSET Documents
             /\ Len(work[a].results) <= rows[a].units
  <2>1. rows[a] \in RowRecords /\ work[a] \in WorkRecords /\ Fits(a, rows[a], work[a])
    BY DEF AnalysisInv
  <2>2. /\ rows[a].status \in Statuses /\ rows[a].units \in Nat /\ rows[a].readable \in BOOLEAN
        /\ work[a].phase \in {"none", "called", "running"}
        /\ work[a].document \in SUBSET Documents
    BY <2>1 DEF RowRecords, WorkRecords
  <2>. QED  BY <2>1, <2>2 DEF Fits
<1>2. ages \in [Analyses -> 0..StaleAge]
  BY DEF AnalysisInv
<1>. QED  BY <1>1, <1>2 DEF AnalysisTypeOK, Statuses

(* Every variable of the work that must come to an end keeps its type: the *)
(* lines in Redis, the turns, the analyses and the avatars' tasks.         *)
THEOREM ProgressTypesCorrect == ProgressSpec => []ProgressTypeOK
<1>. DEFINE Parts == part \in {"lines", "turns", "checks", "reviews", "shows"}
            Inv == Parts /\ BufferInv /\ TurnInv /\ AnalysisInv /\ AvatarInv
<1>1. ProgressInit => Inv
  BY BufferBegins, TurnsBegin, AnalysesBegin, ShowsBegin DEF ProgressInit
<1>2. Inv /\ [ProgressNext]_progressVars => Inv'
  <2>. SUFFICES ASSUME Inv, [ProgressNext]_progressVars PROVE Inv'
    OBVIOUS
  <2>1. /\ [Next]_vars /\ [TurnNext]_turnVars /\ [AvatarNext]_avatarVars /\ part' = part
        /\ \/ CheckNext \/ ReviewNext \/ RestartAnalyses \/ UNCHANGED analysisVars
    BY DEF ProgressNext, LinesStep, TurnsStep, AnalysesStep, ShowsStep, progressVars
  <2>. QED  BY <2>1, BufferGoesOn, TurnsGoOn, AnalysesGoOn, ShowsGoOn
<1>3. Inv => ProgressTypeOK
  BY TurnTypesHold, AnalysisTypesHold DEF BufferInv, AvatarInv, ProgressTypeOK
<1>. HIDE DEF Inv
<1>. QED  BY <1>1, <1>2, <1>3, PTL DEF ProgressSpec
=============================================================================
