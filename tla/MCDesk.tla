------------------------------- MODULE MCDesk -------------------------------
(***************************************************************************)
(* Instances for TLC of what an agent works with beside the chat itself:   *)
(* the queue, who is online, the cached lists, translations and quick      *)
(* replies; and of the breaker of the log.  They share no state: each runs *)
(* while the others rest.                                                  *)
(***************************************************************************)
EXTENDS MCSessionQueue, Presence, ReadThroughCache, Translation, QuickReplies,
        CircuitBreaker

Symmetry == Permutations(Refusals)

VARIABLE part   (* what runs *)

deskVars == <<part, vars, presenceVars, cacheVars, translationVars, replyVars, breakerVars>>

(* What rests has not moved from where it began.                           *)
DeskTypeOK ==
    /\ part = "queue" => TypeOK
    /\ part = "presence" => PresenceTypeOK
    /\ part = "cache" => CacheTypeOK
    /\ part = "translation" => TranslationTypeOK
    /\ part = "replies" => RepliesTypeOK

DeskInit ==
    /\ part \in {"queue", "presence", "cache", "translation", "replies", "breaker"}
    /\ Init /\ PresenceInit /\ CacheInit /\ TranslationInit /\ RepliesInit /\ BreakerInit
    /\ part # "queue" => \A s \in Sessions : prio[s] = 0 /\ zset[s] = Absent

DeskNext ==
    /\ UNCHANGED part
    /\ \/ /\ part = "queue" /\ Next
          /\ UNCHANGED <<presenceVars, cacheVars, translationVars, replyVars, breakerVars>>
       \/ /\ part = "presence" /\ PresenceNext
          /\ UNCHANGED <<vars, cacheVars, translationVars, replyVars, breakerVars>>
       \/ /\ part = "cache" /\ CacheNext
          /\ UNCHANGED <<vars, presenceVars, translationVars, replyVars, breakerVars>>
       \/ /\ part = "translation" /\ TranslationNext
          /\ UNCHANGED <<vars, presenceVars, cacheVars, replyVars, breakerVars>>
       \/ /\ part = "replies" /\ RepliesNext
          /\ UNCHANGED <<vars, presenceVars, cacheVars, translationVars, breakerVars>>
       \/ /\ part = "breaker" /\ BreakerNext
          /\ UNCHANGED <<vars, presenceVars, cacheVars, translationVars, replyVars>>

DeskSpec == DeskInit /\ [][DeskNext]_deskVars
=============================================================================
