----------------------------- MODULE Translation -----------------------------
(***************************************************************************)
(* Languages and translations: src/message, src/ticket-message and         *)
(* src/shared/translation.  The language of a player is detected in the    *)
(* background of every message and kept in the session's metadata; the     *)
(* translation of a message is kept in the message's metadata, one at a    *)
(* time.  Both are read, changed after a call of the translation service,  *)
(* and written back whole.                                                 *)
(***************************************************************************)
EXTENDS Integers

CONSTANTS
    PlayerTexts,   (* text messages of the player, each detected once      *)
    StaffTexts,    (* messages of the session that may be translated       *)
    TicketTexts,   (* messages of its ticket                               *)
    TranslateCalls,(* requests for a translation in progress               *)
    Targets,       (* languages asked for                                  *)
    HistoryMax     (* detections after which none is made: 20              *)

ASSUME TranslationAssumption == HistoryMax \in Nat \ {0}

VARIABLES
    language,      (* Session.metadata                                     *)
    detections,    (* detectLanguageInBackground, by message               *)
    translated,    (* Message.metadata.translation                         *)
    translating,   (* translateMessage                                     *)
    sessionOpen    (* Session.status is not CLOSED                         *)

translationVars == <<language, detections, translated, translating, sessionOpen>>

TranslatedTexts == StaffTexts \cup TicketTexts

(* The codes both lists of the code name; "auto" only translateMessage's.  *)
ValidCodes == {"zh", "en", "ja", "jp", "ko", "kor", "es", "spa", "fr", "fra", "de", "ru"}

(* mapToBaiduLangCode                                                      *)
MapToBaiduLangCode(code) ==
    CASE code \in {"ja", "jp"} -> "jp" [] code \in {"ko", "kor"} -> "kor"
      [] code \in {"es", "spa"} -> "spa" [] code \in {"fr", "fra"} -> "fra"
      [] code \in {"zh", "en", "de", "ru"} -> code [] OTHER -> "auto"

(* Any two or three letters pass; other requests become "zh".              *)
NormalizedTarget(code) == IF code = "invalid" THEN "zh" ELSE code

UnknownLanguage == [player |-> "none", history |-> 0, locked |-> FALSE]
NoTranslation == [target |-> "none", content |-> "none"]
NotTranslating == [message |-> "none", asked |-> "none"]

TranslationTypeOK ==
    /\ language.player \in ValidCodes \cup {"none"}
    /\ language.history \in 0..HistoryMax /\ language.locked \in BOOLEAN
    /\ \A p \in PlayerTexts :
          /\ detections[p].phase \in {"none", "called", "done"}
          /\ detections[p].read.history \in 0..HistoryMax
    /\ \A m \in TranslatedTexts : translated[m].target \in ValidCodes \cup {"none", "auto"}
    /\ \A c \in TranslateCalls : translating[c].message \in TranslatedTexts \cup {"none"}
    /\ sessionOpen \in BOOLEAN

TranslationInit ==
    /\ language = UnknownLanguage
    /\ detections = [p \in PlayerTexts |-> [phase |-> "none", read |-> UnknownLanguage]]
    /\ translated = [m \in TranslatedTexts |-> NoTranslation]
    /\ translating = [c \in TranslateCalls |-> NotTranslating]
    /\ sessionOpen = TRUE
-----------------------------------------------------------------------------
(* create of a player's message: the session is read before the message is *)
(* added, and the detection works with what was read then.                 *)
CreatePlayerText(p) ==
    /\ detections[p].phase = "none"
    /\ detections' = [detections EXCEPT ![p] =
          [phase |-> IF language.locked \/ language.history >= HistoryMax
                     THEN "done" ELSE "called",
           read |-> language]]
    /\ UNCHANGED <<language, translated, translating, sessionOpen>>

(* The service's idea of the source language: a code, anything else, or    *)
(* "auto" with confidence 0 when the call failed.  The confidence of an    *)
(* answer is always 0.8.                                                   *)
Detected == {"zh", "en", "ja", "auto", "other"}
Confidence(code) == IF code = "auto" THEN 0 ELSE 80

(* Mutant: the last detection decides.                                     *)
ConfirmLast(read, code) == code

(* confirmLang                                                             *)
ConfirmLanguage(read, code) ==
    IF Confidence(code) > 90 THEN code
    ELSE IF read.player \in ValidCodes THEN read.player ELSE code

DetectEnds(p) ==
    /\ detections[p].phase = "called"
    /\ \E answer \in Detected :
          LET code == IF answer \in ValidCodes THEN answer ELSE "zh"
          IN  language' = [player |-> ConfirmLanguage(detections[p].read, code),
                           history |-> detections[p].read.history + 1,
                           locked |-> Confidence(answer) > 90]
    /\ detections' = [detections EXCEPT ![p].phase = "done"]
    /\ UNCHANGED <<translated, translating, sessionOpen>>

(* The update of the session fails: only the log knows.                    *)
DetectFails(p) ==
    /\ detections[p].phase = "called"
    /\ detections' = [detections EXCEPT ![p].phase = "done"]
    /\ UNCHANGED <<language, translated, translating, sessionOpen>>

(* translateMessage: asked for a language, or for the player's (by create, *)
(* for an answer to a player whose language is not Chinese).  A message of *)
(* the ticket knows the player's language while the session is open.       *)
PlayersTarget == IF language.player = "none" THEN "zh" ELSE language.player
RequestedTargets == Targets \cup {PlayersTarget}
TicketTargets == Targets \cup {IF sessionOpen THEN PlayersTarget ELSE "zh"}

(* The translation that is there is for the requested language.            *)
TranslationHit(m, target) == translated[m].target = target

AskTranslation(c, m, requests) ==
    /\ translating[c].message = "none"
    /\ \E request \in requests :
          LET target == NormalizedTarget(request)
          IN  /\ ~TranslationHit(m, target)
              /\ translating' = [translating EXCEPT ![c] = [message |-> m, asked |-> target]]
    /\ UNCHANGED <<language, detections, translated, sessionOpen>>

BeginTranslate(c, m) == m \in StaffTexts /\ AskTranslation(c, m, RequestedTargets)
BeginTicketTranslate(c, m) == m \in TicketTexts /\ AskTranslation(c, m, TicketTargets)

(* The provider translates, or without a network gives the text back under *)
(* a heading: a stand-in, kept and found again like a translation.         *)
ProviderAnswers == {"translation", "standin"}

(* The result names the language as the service does; it replaces the      *)
(* translation that is there.                                              *)
TranslateEnds(c, m) ==
    /\ translating[c].message = m
    /\ \E answer \in ProviderAnswers : translated' = [translated EXCEPT ![m] =
          [target |-> MapToBaiduLangCode(translating[c].asked), content |-> answer]]
    /\ translating' = [translating EXCEPT ![c] = NotTranslating]
    /\ UNCHANGED <<language, detections, sessionOpen>>

TranslateFails(c, m) ==
    /\ translating[c].message = m
    /\ translating' = [translating EXCEPT ![c] = NotTranslating]
    /\ UNCHANGED <<language, detections, translated, sessionOpen>>

(* The session is closed: its ticket's messages no longer find it.         *)
LeaveSession ==
    /\ sessionOpen /\ sessionOpen' = FALSE
    /\ UNCHANGED <<language, detections, translated, translating>>

TranslationNext ==
    \/ LeaveSession
    \/ \E p \in PlayerTexts : CreatePlayerText(p) \/ DetectEnds(p) \/ DetectFails(p)
    \/ \E c \in TranslateCalls, m \in TranslatedTexts :
          BeginTranslate(c, m) \/ BeginTicketTranslate(c, m) \/ TranslateEnds(c, m) \/ TranslateFails(c, m)

TranslationSpec == TranslationInit /\ [][TranslationNext]_translationVars
-----------------------------------------------------------------------------
(* The language of a player, once found, is changed only by a detection    *)
(* that began before it was found, or by one misled by such a change: with *)
(* no detection under way that read another language, it stays for good,   *)
(* whatever the service says later (detectLanguageInBackground).           *)
SettledLanguageStays ==
    [][language.player # "none" /\ language'.player # language.player =>
          \E p \in PlayerTexts : /\ detections[p].phase = "called"
                                 /\ detections[p].read.player # language.player
      ]_translationVars
=============================================================================
