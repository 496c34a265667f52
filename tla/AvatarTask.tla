----------------------------- MODULE AvatarTask -----------------------------
(***************************************************************************)
(* Talking heads: src/avatar makes a video of a text, src/linly-talker     *)
(* answers a question in text, sound and video.  Tasks live in the memory  *)
(* of the process; each step calls a service that may refuse, time out or  *)
(* stay silent.  An avatar's video is rendered elsewhere and asked for     *)
(* every two seconds; a talker goes on with less when a service fails.     *)
(***************************************************************************)
EXTENDS Integers

CONSTANTS
    Videos,      (* tasks of createVideoFromText                           *)
    Talks,       (* tasks of createChatTask                                *)
    MaxAttempts  (* how often a video is asked for: 300                    *)

ASSUME AvatarAssumption == Videos \cap Talks = {} /\ MaxAttempts \in Nat \ {0}

Shows == Videos \cup Talks

VARIABLES
    shows,   (* the two Maps of tasks; `step` is where the work stands     *)
    render   (* external: the video service's own tasks                    *)

avatarVars == <<shows, render>>

NoShow == [status |-> "none", step |-> "none", attempts |-> 0, has |-> {}]

AvatarTypeOK ==
    /\ shows \in [Shows -> [status : {"none", "pending", "processing", "tts", "generating",
                                      "success", "failed", "gone"},
                            step : {"none", "answer", "speech", "submit", "poll", "video"},
                            attempts : 0..MaxAttempts,
                            has : SUBSET {"text", "sound", "video"}]]
    /\ render \in [Videos -> {"none", "busy", "done", "failed"}]

AvatarInit ==
    /\ shows = [s \in Shows |-> NoShow]
    /\ render = [v \in Videos |-> "none"]

(* updateTask: the fields given replace those of the task.                 *)
UpdateShow(s, status, step, has) ==
    shows' = [shows EXCEPT ![s].status = status, ![s].step = step, ![s].has = has]

Ended(s, status, has) == UpdateShow(s, status, "none", has)
-----------------------------------------------------------------------------
(* createVideoFromText: the work runs up to its first await at once.       *)
CreateVideo(v) ==
    /\ shows[v].status = "none"
    /\ UpdateShow(v, "processing", "speech", {})
    /\ UNCHANGED render

(* generateAudio; an error of it or of the submission reaches the catch.   *)
GenerateAudio(v) ==
    /\ shows[v].step = "speech"
    /\ \/ UpdateShow(v, "processing", "submit", {"sound"})
       \/ Ended(v, "failed", {})
    /\ UNCHANGED render

(* submitVideoTask: without an answer the service may have accepted.       *)
SubmitVideo(v) ==
    /\ shows[v].step = "submit"
    /\ \/ UpdateShow(v, "processing", "poll", {"sound"}) /\ render' = [render EXCEPT ![v] = "busy"]
       \/ /\ Ended(v, "failed", {"sound"})
          /\ \E r \in {"none", "busy"} : render' = [render EXCEPT ![v] = r]

RenderEnds(v) ==
    /\ render[v] = "busy"
    /\ \E r \in {"done", "failed"} : render' = [render EXCEPT ![v] = r]
    /\ UNCHANGED shows

(* What a query may bring: the state of the rendering, or an error or a    *)
(* code that is not known, which are passed over.                          *)
Replies(v) == {render[v], "error"}

(* One turn of pollVideoProgress.                                          *)
Poll(v) ==
    /\ shows[v].step = "poll" /\ shows[v].attempts < MaxAttempts
    /\ \E reply \in Replies(v) :
          shows' = [shows EXCEPT
             ![v].attempts = @ + 1,
             ![v].status = CASE reply = "done" -> "success" [] reply = "failed" -> "failed"
                             [] OTHER -> @,
             ![v].step = IF reply \in {"done", "failed"} THEN "none" ELSE @,
             ![v].has = IF reply = "done" THEN @ \cup {"video"} ELSE @]
    /\ UNCHANGED render

GiveUp(v) ==
    /\ shows[v].step = "poll" /\ shows[v].attempts = MaxAttempts
    /\ Ended(v, "failed", shows[v].has)
    /\ UNCHANGED render
-----------------------------------------------------------------------------
CreateTalk(t) ==
    /\ shows[t].status = "none"
    /\ UpdateShow(t, "pending", "answer", {})
    /\ UNCHANGED render

(* chat answers in any case, with an apology when the model does not.      *)
Chat(t) ==
    /\ shows[t].step = "answer"
    /\ UpdateShow(t, "tts", "speech", {"text"})
    /\ UNCHANGED render

Speak(t) ==
    /\ shows[t].step = "speech"
    /\ \/ UpdateShow(t, "generating", "video", {"text", "sound"})
       \/ Ended(t, "success", {"text"})
    /\ UNCHANGED render

GenerateVideo(t) ==
    /\ shows[t].step = "video"
    /\ \E more \in SUBSET {"video"} : Ended(t, "success", {"text", "sound"} \cup more)
    /\ UNCHANGED render

(* The Maps are gone with the process.                                     *)
ForgetShows ==
    /\ \E s \in Shows : shows[s].status \notin {"none", "gone"}
    /\ shows' = [s \in Shows |-> IF shows[s].status = "none" THEN NoShow
                                 ELSE [NoShow EXCEPT !.status = "gone"]]
    /\ UNCHANGED render

VideoWork(v) == GenerateAudio(v) \/ SubmitVideo(v) \/ Poll(v) \/ GiveUp(v)
TalkWork(t) == Chat(t) \/ Speak(t) \/ GenerateVideo(t)

AvatarNext ==
    \/ \E v \in Videos : CreateVideo(v) \/ VideoWork(v) \/ RenderEnds(v)
    \/ \E t \in Talks : CreateTalk(t) \/ TalkWork(t)
    \/ ForgetShows

AvatarSpec == AvatarInit /\ [][AvatarNext]_avatarVars

(* Every call has a timeout, so a step that was begun ends; the video      *)
(* service need not ever finish.                                           *)
AvatarFairness ==
    /\ \A v \in Videos : WF_avatarVars(VideoWork(v))
    /\ \A t \in Talks : WF_avatarVars(TalkWork(t))
-----------------------------------------------------------------------------
(* Nobody watches a task for ever: each comes to an end, or the process    *)
(* restarts and its tasks are unknown, however the services behave         *)
(* (pollVideoProgress, the nested catches of processChatTask).             *)
ShowsEnd ==
    \A s \in Shows :
        shows[s].status # "none" ~> shows[s].status \in {"success", "failed", "gone"}

(* A task runs through the life of a job: it ends once, its result appears *)
(* with the end and stays, and late news of the rendering change nothing   *)
(* (processVideoTask, processChatTask).                                    *)
ShowLife == INSTANCE JobLife WITH
    Jobs <- Shows,
    state <- [s \in Shows |->
        CASE shows[s].status \in {"none", "failed", "gone"} -> shows[s].status
          [] shows[s].status = "pending" -> "queued"
          [] shows[s].status = "success" -> "done"
          [] OTHER -> "running"],
    result <- [s \in Shows |-> IF shows[s].status = "success" THEN shows[s].has ELSE {}]

ShowsAreJobs == ShowLife!Spec
=============================================================================
