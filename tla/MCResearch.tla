----------------------------- MODULE MCResearch -----------------------------
(***************************************************************************)
(* Instances for TLC of the services around knowledge and texts: writing   *)
(* tasks, conversations and their pages, answers from a knowledge base,    *)
(* the library of papers and the dashboard.  They share no state: each     *)
(* runs while the others rest.                                             *)
(***************************************************************************)
EXTENDS WriteTask, ChatTurn, ChatPages, Retrieval, PaperLibrary, Dashboard

VARIABLE part   (* what runs *)

researchVars == <<part, writeVars, turnVars, pagesVars, retrievalVars, libraryVars, dashboardVars>>

(* PUT :id with a text for one section and null for the profile.           *)
MCBodies ==
    {[profile |-> "clear", clear |-> FALSE, set |-> {1}]}

(* One event brings a piece of text or white space.                        *)
MCChunks == {<<"a">>, <<" ">>}

(* What rests has not moved from where it began.                           *)
ResearchTypeOK ==
    /\ part = "writing" => WriteTypeOK
    /\ part = "turns" => TurnTypeOK
    /\ part = "pages" => PagesTypeOK
    /\ part = "answers" => RetrievalTypeOK
    /\ part = "library" => LibraryTypeOK
    /\ part = "dashboard" => DashboardTypeOK

ResearchInit ==
    /\ part \in {"writing", "turns", "pages", "answers", "library", "dashboard"}
    /\ WriteInit /\ TurnInit /\ PagesInit /\ RetrievalInit /\ LibraryInit /\ DashboardInit
    /\ part # "turns" => conv = NotRead /\ acl = [k \in Kbs |-> "own"]
    /\ part # "dashboard" => manual = FALSE

ResearchNext ==
    /\ UNCHANGED part
    /\ \/ /\ part = "writing" /\ WriteNext
          /\ UNCHANGED <<turnVars, pagesVars, retrievalVars, libraryVars, dashboardVars>>
       \/ /\ part = "turns" /\ TurnNext
          /\ UNCHANGED <<writeVars, pagesVars, retrievalVars, libraryVars, dashboardVars>>
       \/ /\ part = "pages" /\ PagesNext
          /\ UNCHANGED <<writeVars, turnVars, retrievalVars, libraryVars, dashboardVars>>
       \/ /\ part = "answers" /\ RetrievalNext
          /\ UNCHANGED <<writeVars, turnVars, pagesVars, libraryVars, dashboardVars>>
       \/ /\ part = "library" /\ LibraryNext
          /\ UNCHANGED <<writeVars, turnVars, pagesVars, retrievalVars, dashboardVars>>
       \/ /\ part = "dashboard" /\ DashboardNext
          /\ UNCHANGED <<writeVars, turnVars, pagesVars, retrievalVars, libraryVars>>

ResearchSpec == ResearchInit /\ [][ResearchNext]_researchVars
=============================================================================
