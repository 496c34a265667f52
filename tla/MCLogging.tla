------------------------------ MODULE MCLogging ------------------------------
(***************************************************************************)
(* Instances for TLC of two parts of src/common/logger that share no       *)
(* state: the queue in front of the files and the job that archives them.  *)
(* Each runs while the other rests.                                        *)
(***************************************************************************)
EXTENDS LogQueue, LogArchive

CONSTANTS e1, m1, m2   (* one line of level ERROR, two others *)

VARIABLE part          (* what runs *)

loggingVars == <<part, vars, archiveVars>>

LoggingTypeOK == TypeOK /\ MemoryIsBounded /\ ArchiveTypeOK

LoggingInit ==
    /\ part \in {"queue", "archive"}
    /\ Init /\ ArchiveInit

LoggingNext ==
    /\ UNCHANGED part
    /\ \/ part = "queue" /\ Next /\ UNCHANGED archiveVars
       \/ part = "archive" /\ ArchiveNext /\ UNCHANGED vars

(* A queue that rests is empty, and nothing is due to it.                  *)
LoggingSpec == LoggingInit /\ [][LoggingNext]_loggingVars /\ Fairness
=============================================================================
