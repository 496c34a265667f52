----------------------------- MODULE MCProgress ------------------------------
(***************************************************************************)
(* Instances for TLC of the work that must come to an end: turns of a      *)
(* conversation, analyses, avatars' videos and the log lines in Redis.     *)
(* They share no state: each runs while the others rest, checks and        *)
(* reviews of AnalysisTask one after the other as well.                    *)
(***************************************************************************)
EXTENDS LogBuffer, ChatTurn, AnalysisTask, AvatarTask

CONSTANTS e1, m1, m2   (* one line of level ERROR, two others *)

VARIABLE part          (* what runs *)

progressVars == <<part, vars, turnVars, analysisVars, avatarVars>>

(* One event brings a piece of text or white space.                        *)
MCChunks == {<<"a">>, <<" ">>}

(* A short note; what has most without method, experiments and results; and*)
(* the same with results.                                                  *)
MCDocuments ==
    LET rich(has) == [has |-> {"title", "abstract", "conclusion", "delivery", "application"} \cup has,
                      contributions |-> 8, references |-> 20, figures |-> 3,
                      words |-> 8000, paragraphs |-> 90, alignment |-> 100]
    IN  {[has |-> {}, contributions |-> 0, references |-> 0, figures |-> 0,
          words |-> 300, paragraphs |-> 4, alignment |-> 0], rich({}), rich({"results"})}

ProgressTypeOK ==
    /\ part \in {"lines", "turns", "checks", "reviews", "shows"}
    /\ TypeOK /\ TurnTypeOK /\ AnalysisTypeOK /\ AvatarTypeOK

ProgressInit ==
    /\ part \in {"lines", "turns", "checks", "reviews", "shows"}
    /\ Init /\ TurnInit /\ AnalysisInit /\ AvatarInit
    /\ part # "turns" => conv = NotRead /\ acl = [k \in Kbs |-> "own"]

LinesStep    == part = "lines" /\ UNCHANGED <<part, turnVars, analysisVars, avatarVars>>
TurnsStep    == part = "turns" /\ UNCHANGED <<part, vars, analysisVars, avatarVars>>
AnalysesStep == UNCHANGED <<part, vars, turnVars, avatarVars>>
ShowsStep    == part = "shows" /\ UNCHANGED <<part, vars, turnVars, analysisVars>>

ProgressNext ==
    \/ LinesStep /\ Next
    \/ TurnsStep /\ TurnNext
    \/ part = "checks" /\ AnalysesStep /\ (CheckNext \/ RestartAnalyses)
    \/ part = "reviews" /\ AnalysesStep /\ (ReviewNext \/ RestartAnalyses)
    \/ ShowsStep /\ AvatarNext

(* The fairness of each module, of the steps of the part that runs.        *)
LinesFairness ==
    /\ \A line \in Lines :
          WF_progressVars(LinesStep /\ (PushLen(line) \/ PushAdd(line) \/ PushFails(line)))
    /\ WF_progressVars(LinesStep /\ (\/ Fetch \/ LoopEnds \/ Write \/ WriteErrors
                                     \/ Confirm \/ ConfirmFails))
    /\ SF_progressVars(LinesStep /\ NewDay)
    /\ WF_progressVars(LinesStep /\ ServerBack)
    /\ WF_progressVars(LinesStep /\ ProducerConnects)
    /\ WF_progressVars(LinesStep /\ ConsumerConnects)

OtherFairness ==
    /\ \A t \in Turns : WF_progressVars(TurnsStep /\ TurnWork(t))
    /\ \A a \in Checks : WF_progressVars(part = "checks" /\ AnalysesStep /\ AnalysisTick(a))
    /\ \A v \in Videos : WF_progressVars(ShowsStep /\ VideoWork(v))
    /\ \A t \in Talks : WF_progressVars(ShowsStep /\ TalkWork(t))

ProgressSpec ==
    ProgressInit /\ [][ProgressNext]_progressVars /\ LinesFairness /\ OtherFairness
-----------------------------------------------------------------------------
(* Analyses and avatars' tasks live the life of a job: they end once, with *)
(* a result that appears at the end and stays, and what was removed does   *)
(* not come back (ai-review, ai-check, avatar, linly-talker).              *)
JobsKeepTheirLife == AnalysesAreJobs /\ ShowsAreJobs

(* Whoever waits is released: a turn completes its answer unless the       *)
(* process stopped, a database call failed or the model's stream never     *)
(* ends; a check that lost its work is shown as stale; an avatar's task    *)
(* ends however the services behave; a log line in Redis is written unless *)
(* the process stops.                                                      *)
WorkComesToAnEnd ==
    /\ AnswersArrive
    /\ LostChecksAreShown
    /\ ShowsEnd
    /\ BufferedLinesAreWritten
=============================================================================
