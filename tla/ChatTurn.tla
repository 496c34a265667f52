------------------------------ MODULE ChatTurn ------------------------------
(***************************************************************************)
(* A turn of a STIGPT conversation: src/stigpt-chat.                       *)
(*                                                                         *)
(* A turn reads the conversation, settles which knowledge base it may use, *)
(* adds the question and an empty answer in one transaction, collects the  *)
(* model's answer (piece by piece when it is streamed to the browser) and  *)
(* completes the answer's row.  Turns of one conversation may overlap, and *)
(* access to a knowledge base may change at any time.  A text is a         *)
(* sequence of pieces.                                                     *)
(***************************************************************************)
EXTENDS Integers, SequencesExt, FiniteSetsExt

CONSTANTS
    Turns,          (* turns of the conversation                           *)
    StreamTurns,    (* those sent to messages/stream, to bound the runs    *)
    Kbs, NoKb,      (* knowledge bases; none                               *)
    Chunks,         (* what one event of the model's stream may carry      *)
    Blank,          (* a piece of white space                              *)
    MaxChunks,      (* bound on the events of a stream                     *)
    MaxAclChanges   (* bound on changes of access                          *)

(* What stands for the local answer and the notice is nobody's text.       *)
Notes == {"fallback", "interrupted"}

ASSUME TurnAssumption ==
    /\ StreamTurns \subseteq Turns
    /\ NoKb \notin Kbs
    /\ \A chunk \in Chunks : chunk \in Seq(ToSet(chunk)) /\ ToSet(chunk) \cap Notes = {}
    /\ Blank \notin Notes
    /\ MaxChunks \in Nat
    /\ MaxAclChanges \in Nat

VARIABLES
    conv,       (* the conversation: its title and its knowledge base      *)
    acl,        (* what this user has to do with each knowledge base       *)
    turns,      (* one record per turn                                     *)
    aclChanges

turnVars == <<conv, acl, turns, aclChanges>>

Scopes == {"public", "own", "listed", "internal", "private", "deleted"}
Phases == {"idle", "requested", "current", "recommend", "prepare",
           "generate", "answered", "done", "failed", "lost"}
NotRead == [title |-> "new", kb |-> NoKb]
NewTurn == [phase |-> "idle", requested |-> NoKb,
            read |-> NotRead, kb |-> NoKb,
            text |-> <<>>, chunks |-> 0, shown |-> <<>>, degraded |-> FALSE,
            row |-> "none", stored |-> <<>>, flagged |-> FALSE, readable |-> {}]

TurnTypeOK ==
    /\ conv.title \in {"new", "named"} \cup Turns /\ conv.kb \in Kbs \cup {NoKb}
    /\ acl \in [Kbs -> Scopes]
    /\ aclChanges \in 0..MaxAclChanges
    /\ \A t \in Turns :
          /\ turns[t].phase \in Phases
          /\ turns[t].requested \in Kbs \cup {NoKb} /\ turns[t].kb \in Kbs \cup {NoKb}
          /\ turns[t].chunks \in 0..MaxChunks
          /\ turns[t].row \in {"none", "streaming", "completed"}
          /\ turns[t].readable \in SUBSET Kbs

(* RetrievalService.checkKbAccess                                          *)
CheckKbAccess(k) == acl[k] \in {"public", "own", "listed"}

(* findAccessibleKnowledgeBases: whom a knowledge base is recommended to.  *)
Offered == {k \in Kbs : acl[k] \in {"public", "own", "internal"}}

Readable == Offered \cup {k \in Kbs : CheckKbAccess(k)}

(* String.trim                                                             *)
TrimText(text) ==
    LET solid == {i \in DOMAIN text : text[i] # Blank}
    IN  IF solid = {} THEN <<>> ELSE SubSeq(text, Min(solid), Max(solid))
-----------------------------------------------------------------------------
(* createConversation stores the knowledge base it is given unchecked.     *)
TurnInit ==
    /\ conv \in [title : {"new", "named"}, kb : Kbs \cup {NoKb}]
    /\ acl \in [Kbs -> {"own", "private"}]
    /\ turns = [t \in Turns |-> NewTurn]
    /\ aclChanges = 0

Set(t, record) == turns' = [turns EXCEPT ![t] = record]

(* prepareConversationTurn: the conversation is read.                      *)
StartTurn(t) ==
    /\ turns[t].phase = "idle"
    /\ \E k \in Kbs \cup {NoKb} :
          Set(t, [turns[t] EXCEPT !.phase = "requested", !.requested = k,
                                  !.read = conv, !.readable = Readable])
    /\ UNCHANGED <<conv, acl, aclChanges>>

(* resolveKnowledgeBaseId: the one asked for, else the one the             *)
(* conversation has, else one that is recommended.                         *)
TryRequested(t) ==
    /\ turns[t].phase = "requested"
    /\ LET k == turns[t].requested
           ok == k # NoKb /\ CheckKbAccess(k)
       IN  Set(t, [turns[t] EXCEPT !.kb = IF ok THEN k ELSE NoKb,
                                   !.phase = IF ok THEN "prepare" ELSE "current"])
    /\ UNCHANGED <<conv, acl, aclChanges>>

(* Mutant: the conversation's own knowledge base needs no check.           *)
TryCurrentUnchecked(t) ==
    /\ turns[t].phase = "current"
    /\ LET k == turns[t].read.kb
       IN  Set(t, [turns[t] EXCEPT !.kb = k,
                      !.phase = IF k # NoKb THEN "prepare" ELSE "recommend"])
    /\ UNCHANGED <<conv, acl, aclChanges>>

TryCurrent(t) ==
    /\ turns[t].phase = "current"
    /\ LET k == turns[t].read.kb
           ok == k # NoKb /\ CheckKbAccess(k)
       IN  Set(t, [turns[t] EXCEPT !.kb = IF ok THEN k ELSE NoKb,
                                   !.phase = IF ok THEN "prepare" ELSE "recommend"])
    /\ UNCHANGED <<conv, acl, aclChanges>>

(* selectRecommendedKnowledgeBase: the best by score, if any scores.       *)
Recommend(t) ==
    /\ turns[t].phase = "recommend"
    /\ \E k \in Offered \cup {NoKb} :
          Set(t, [turns[t] EXCEPT !.kb = k, !.phase = "prepare"])
    /\ UNCHANGED <<conv, acl, aclChanges>>

(* The transaction: both rows, and the conversation as it was read with    *)
(* this turn's title and knowledge base.                                   *)
PrepareTurn(t) ==
    /\ turns[t].phase = "prepare"
    /\ conv' = [title |-> IF turns[t].read.title = "new" THEN t ELSE turns[t].read.title,
                kb |-> IF turns[t].kb # NoKb THEN turns[t].kb ELSE turns[t].read.kb]
    /\ Set(t, [turns[t] EXCEPT !.phase = "generate", !.row = "streaming",
                               !.requested = NoKb, !.read = NotRead])
    /\ UNCHANGED <<acl, aclChanges>>

(* normalizeStreamDelta: an event that repeats all of the text so far is   *)
(* taken for a cumulative one.                                             *)
NormalizeStreamDelta(chunk, text) ==
    IF text # <<>> /\ IsPrefix(text, chunk)
    THEN SubSeq(chunk, Len(text) + 1, Len(chunk)) ELSE chunk

(* generateTurnReply, an event of the stream.                              *)
StreamChunk(t, chunk) ==
    /\ turns[t].phase = "generate" /\ t \in StreamTurns
    /\ turns[t].chunks < MaxChunks
    /\ LET delta == NormalizeStreamDelta(chunk, turns[t].text)
       IN  Set(t, [turns[t] EXCEPT !.text = @ \o delta, !.shown = @ \o delta,
                                   !.chunks = @ + 1])
    /\ UNCHANGED <<conv, acl, aclChanges>>

(* What follows the text: a notice when the model failed half way, a local *)
(* answer in place of a blank one.                                         *)
Ending(text, failed) ==
    IF TrimText(text) = <<>> THEN <<"fallback">>
    ELSE IF failed THEN <<"interrupted">> ELSE <<>>

(* Mutant: the local answer is stored and not sent.                        *)
StreamEndSilent(t) ==
    /\ turns[t].phase = "generate" /\ t \in StreamTurns
    /\ \E failed \in BOOLEAN :
          LET text == turns[t].text
              end  == Ending(text, failed)
          IN  Set(t, [turns[t] EXCEPT
                 !.text = TrimText(IF TrimText(text) = <<>> THEN end ELSE text \o end),
                 !.shown = IF TrimText(text) = <<>> THEN @ ELSE @ \o end,
                 !.degraded = failed \/ end # <<>>, !.phase = "answered"])
    /\ UNCHANGED <<conv, acl, aclChanges>>

(* The stream ends or breaks.                                              *)
StreamEnd(t) ==
    /\ turns[t].phase = "generate" /\ t \in StreamTurns
    /\ \E failed \in BOOLEAN :
          LET text == turns[t].text
              end  == Ending(text, failed)
          IN  Set(t, [turns[t] EXCEPT
                 !.text = TrimText(IF TrimText(text) = <<>> THEN end ELSE text \o end),
                 !.shown = @ \o end,
                 !.degraded = failed \/ end # <<>>, !.phase = "answered"])
    /\ UNCHANGED <<conv, acl, aclChanges>>

(* createMessage: one call, which answers with a text or fails.            *)
Answer(t) ==
    /\ turns[t].phase = "generate" /\ t \notin StreamTurns
    /\ \E text \in Chunks \cup {<<>>} :
          LET end == Ending(text, FALSE)
          IN  Set(t, [turns[t] EXCEPT !.text = TrimText(text) \o end,
                          !.degraded = end # <<>>, !.phase = "answered"])
    /\ UNCHANGED <<conv, acl, aclChanges>>

(* Mutant: a degraded answer is not written.                               *)
FinalizeWhenWhole(t) ==
    /\ turns[t].phase = "answered" /\ ~turns[t].degraded
    /\ Set(t, [turns[t] EXCEPT !.row = "completed", !.stored = turns[t].text,
                  !.flagged = turns[t].degraded, !.phase = "done",
                  !.text = <<>>, !.chunks = 0, !.degraded = FALSE])
    /\ UNCHANGED <<conv, acl, aclChanges>>

(* finalizeAssistantMessage                                                *)
FinalizeAssistantMessage(t) ==
    /\ turns[t].phase = "answered"
    /\ Set(t, [turns[t] EXCEPT !.row = "completed", !.stored = turns[t].text,
                  !.flagged = turns[t].degraded, !.phase = "done",
                  !.text = <<>>, !.chunks = 0, !.degraded = FALSE])
    /\ UNCHANGED <<conv, acl, aclChanges>>

(* A database call fails: what was prepared stays a streaming row.         *)
TurnFails(t) ==
    /\ turns[t].phase \in {"requested", "current", "recommend", "prepare", "answered"}
    /\ Set(t, [turns[t] EXCEPT !.phase = "failed"])
    /\ UNCHANGED <<conv, acl, aclChanges>>

Running(t) == turns[t].phase \notin {"idle", "done", "failed", "lost"}

(* The process stops: nothing takes the running turns up again.            *)
RestartLosesTurns ==
    /\ \E t \in Turns : Running(t)
    /\ turns' = [t \in Turns |->
          IF Running(t) THEN [turns[t] EXCEPT !.phase = "lost"] ELSE turns[t]]
    /\ UNCHANGED <<conv, acl, aclChanges>>

(* The owner deletes a knowledge base or changes who may read it.          *)
ChangeAccess(k) ==
    /\ aclChanges < MaxAclChanges
    /\ \E scope \in Scopes \ {"own"} :
          /\ acl' = [acl EXCEPT ![k] = scope]
          /\ turns' = [t \in Turns |->
                IF Running(t) /\ turns[t].row = "none"
                THEN [turns[t] EXCEPT !.readable = @ \cup
                         (IF scope \in {"public", "listed", "internal"} THEN {k} ELSE {})]
                ELSE turns[t]]
    /\ aclChanges' = aclChanges + 1
    /\ UNCHANGED conv

(* What the handler and calls of bounded length do, and what the model's   *)
(* stream does.                                                            *)
TurnWork(t) ==
    \/ TryRequested(t) \/ TryCurrent(t) \/ Recommend(t) \/ PrepareTurn(t)
    \/ Answer(t) \/ FinalizeAssistantMessage(t)

StreamStep(t) == StreamEnd(t) \/ \E chunk \in Chunks : StreamChunk(t, chunk)

TurnStep(t) == TurnWork(t) \/ StreamStep(t)

TurnNext ==
    \/ \E t \in Turns : StartTurn(t) \/ TurnStep(t) \/ TurnFails(t)
    \/ \E k \in Kbs : ChangeAccess(k)
    \/ RestartLosesTurns

(* The handler goes on whether or not the browser still listens, and a call*)
(* with one answer is cut after its timeout.  Nothing cuts a stream whose  *)
(* headers have come: it may stand still for ever (llm.service.ts:153-165).*)
TurnFairness == \A t \in Turns : WF_turnVars(TurnWork(t))

TurnSpec == TurnInit /\ [][TurnNext]_turnVars /\ TurnFairness
-----------------------------------------------------------------------------
(* What the reader was shown piece by piece is what the conversation keeps,*)
(* through interruptions and blank answers, and the row says so when it is *)
(* not all the model's (generateTurnReply, finalizeAssistantMessage).      *)
CompletedTurnsAreHonest ==
    \A t \in Turns : turns[t].row = "completed" =>
        /\ turns[t].stored # <<>>
        /\ t \in StreamTurns => turns[t].stored = TrimText(turns[t].shown)
        /\ turns[t].flagged <=> \E i \in DOMAIN turns[t].stored : turns[t].stored[i] \in Notes

(* A turn only searches a knowledge base its user could read at some       *)
(* moment while it was being prepared, whatever the conversation or the    *)
(* request named (resolveKnowledgeBaseId).                                 *)
KnowledgeIsChecked ==
    \A t \in Turns : turns[t].row # "none" /\ turns[t].kb # NoKb =>
        turns[t].kb \in turns[t].readable

(* A turn that was begun completes its answer in the end, unless the       *)
(* process stopped, a database call failed, or the turn listens to the     *)
(* model's stream for ever (streamMessage, createMessage,                  *)
(* generateTurnReply).                                                     *)
Listening(t) == turns[t].phase = "generate" /\ t \in StreamTurns

AnswersArrive ==
    \A t \in Turns : Running(t) ~>
        \/ turns[t].row = "completed" \/ turns[t].phase \in {"failed", "lost"}
        \/ []Listening(t)
=============================================================================
