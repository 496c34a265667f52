----------------------------- MODULE LogArchive -----------------------------
(***************************************************************************)
(* Old log files: the archive job of src/common/logger/logger.service.ts.  *)
(*                                                                         *)
(* At two in the morning every LoggerService compresses the log files that *)
(* were not written to for some days and deletes archives that are older   *)
(* still.  The process has two LoggerServices, one made by bootstrap for   *)
(* the start and one made by the framework, so two jobs go through the     *)
(* same directory at the same time.  Files are told apart by the day of    *)
(* their last line; time goes by in days.                                  *)
(***************************************************************************)
EXTENDS Integers, FiniteSetsExt

CONSTANTS
    Loggers,       (* LoggerService instances of the process               *)
    ArchiveAfter,  (* archiveAfterDays: 7                                  *)
    CleanAfter,    (* cleanAfterDays: 30                                   *)
    LastDay        (* bound on the days                                    *)

ASSUME ArchiveAssumption ==
    /\ ArchiveAfter \in Nat \ {0}
    /\ CleanAfter \in Nat
    /\ LastDay \in Nat

VARIABLES
    day,
    logs,          (* files that end in .log                               *)
    archives,      (* files that end in .gz: how much of the log they hold *)
    jobs,          (* runArchiveAndClean of each logger                    *)
    overwritten    (* history: a whole archive was written once more       *)

archiveVars == <<day, logs, archives, jobs, overwritten>>

LogFiles == 0..LastDay
NoArchive == [holds |-> "none", at |-> 0]
NoFile == -1
Asleep == [pc |-> "asleep", todo |-> {}, file |-> NoFile]
JobOver == [Asleep EXCEPT !.pc = "over"]

ArchiveTypeOK ==
    /\ day \in LogFiles
    /\ logs \in SUBSET LogFiles
    /\ archives \in [LogFiles -> [holds : {"none", "part", "whole"}, at : LogFiles]]
    /\ jobs \in [Loggers -> [pc : {"asleep", "archive", "read", "open", "write", "unlink",
                                   "list", "clean", "delete", "over"},
                             todo : SUBSET LogFiles, file : LogFiles \cup {NoFile}]]
    /\ overwritten \in SUBSET LogFiles

ArchiveInit ==
    /\ day = 0
    /\ logs = {0}
    /\ archives = [f \in LogFiles |-> NoArchive]
    /\ jobs = [l \in Loggers |-> JobOver]
    /\ overwritten = {}

Archived(f) == archives[f].holds # "none"

JobAt(l, pc) == jobs[l].pc = pc
JobGoes(l, pc) == jobs' = [jobs EXCEPT ![l].pc = pc]

(* The loop goes on with the next file.                                    *)
NextOf(l, pc) ==
    jobs' = [jobs EXCEPT ![l] = [pc |-> pc, todo |-> jobs[l].todo \ {jobs[l].file},
                                 file |-> NoFile]]
-----------------------------------------------------------------------------
(* A job takes less than a day.  The streams move on to files of the new   *)
(* day (scheduleLogRotation) and the timers are due again.                 *)
NextMorning ==
    /\ day < LastDay
    /\ \A l \in Loggers : JobAt(l, "over")
    /\ day' = day + 1
    /\ logs' = logs \cup {day + 1}
    /\ jobs' = [l \in Loggers |-> Asleep]
    /\ UNCHANGED <<archives, overwritten>>

(* runArchiveAndClean begins: listFilesRecursive of the .log files.        *)
RunArchiveAndClean(l) ==
    /\ JobAt(l, "asleep")
    /\ jobs' = [jobs EXCEPT ![l] = [pc |-> "archive", todo |-> logs, file |-> NoFile]]
    /\ UNCHANGED <<day, logs, archives, overwritten>>

(* The next file is looked at.  One that went away in the meantime makes   *)
(* stat throw, which ends the loop; a young one, or one with an archive,   *)
(* is left alone.                                                          *)
ArchiveOldLogs(l) ==
    /\ JobAt(l, "archive")
    /\ IF jobs[l].todo = {} THEN JobGoes(l, "list")
       ELSE LET f == Min(jobs[l].todo)
            IN  IF f \notin logs THEN JobGoes(l, "list")
                ELSE IF f < day - ArchiveAfter /\ ~Archived(f)
                THEN jobs' = [jobs EXCEPT ![l].pc = "read", ![l].file = f]
                ELSE jobs' = [jobs EXCEPT ![l].todo = @ \ {f}]
    /\ UNCHANGED <<day, logs, archives, overwritten>>

(* readFile and gzip; a file that is gone by now is passed over.           *)
ReadLog(l) ==
    /\ JobAt(l, "read")
    /\ IF jobs[l].file \in logs THEN JobGoes(l, "open") ELSE NextOf(l, "archive")
    /\ UNCHANGED <<day, logs, archives, overwritten>>

(* writeFile empties the file first ...                                    *)
OpenArchive(l) ==
    /\ JobAt(l, "open")
    /\ LET f == jobs[l].file
       IN  /\ archives' = [archives EXCEPT ![f] = [holds |-> "part", at |-> day]]
           /\ overwritten' = overwritten \cup (IF archives[f].holds = "whole" THEN {f} ELSE {})
    /\ JobGoes(l, "write")
    /\ UNCHANGED <<day, logs>>

(* ... and then fills it, unless the disk is full.                         *)
WriteArchive(l) ==
    /\ JobAt(l, "write")
    /\ archives' = [archives EXCEPT ![jobs[l].file] = [holds |-> "whole", at |-> day]]
    /\ JobGoes(l, "unlink")
    /\ UNCHANGED <<day, logs, overwritten>>

WriteArchiveFails(l) ==
    /\ JobAt(l, "write")
    /\ NextOf(l, "archive")
    /\ UNCHANGED <<day, logs, archives, overwritten>>

(* The original goes; the other job may have been here first.              *)
UnlinkLog(l) ==
    /\ JobAt(l, "unlink")
    /\ logs' = logs \ {jobs[l].file}
    /\ NextOf(l, "archive")
    /\ UNCHANGED <<day, archives, overwritten>>

(* cleanExpiredLogs: listFilesRecursive of the .gz files.                  *)
ListArchives(l) ==
    /\ JobAt(l, "list")
    /\ jobs' = [jobs EXCEPT ![l] =
          [pc |-> "clean", todo |-> {f \in LogFiles : Archived(f)}, file |-> NoFile]]
    /\ UNCHANGED <<day, logs, archives, overwritten>>

(* Mutant: the age of the archive is not asked for.                        *)
ExpiredAtOnce(f) == day > ArchiveAfter

Expired(f) == archives[f].at < day - CleanAfter

(* An archive that went away in the meantime ends the loop.                *)
CleanExpiredLogs(l) ==
    /\ JobAt(l, "clean")
    /\ IF jobs[l].todo = {} THEN jobs' = [jobs EXCEPT ![l] = JobOver]
       ELSE LET f == Min(jobs[l].todo)
            IN  IF ~Archived(f) THEN jobs' = [jobs EXCEPT ![l] = JobOver]
                ELSE IF Expired(f)
                THEN jobs' = [jobs EXCEPT ![l].pc = "delete", ![l].file = f]
                ELSE jobs' = [jobs EXCEPT ![l].todo = @ \ {f}]
    /\ UNCHANGED <<day, logs, archives, overwritten>>

DeleteArchive(l) ==
    /\ JobAt(l, "delete")
    /\ archives' = [archives EXCEPT ![jobs[l].file] = NoArchive]
    /\ NextOf(l, "clean")
    /\ UNCHANGED <<day, logs, overwritten>>

(* The process stops: the jobs end where they are, until the next night.   *)
RestartLoggers ==
    /\ \E l \in Loggers : ~JobAt(l, "over")
    /\ jobs' = [l \in Loggers |-> JobOver]
    /\ UNCHANGED <<day, logs, archives, overwritten>>

ArchiveStep(l) ==
    \/ RunArchiveAndClean(l) \/ ArchiveOldLogs(l) \/ ReadLog(l) \/ OpenArchive(l)
    \/ WriteArchive(l) \/ WriteArchiveFails(l) \/ UnlinkLog(l)
    \/ ListArchives(l) \/ CleanExpiredLogs(l) \/ DeleteArchive(l)

ArchiveNext == NextMorning \/ RestartLoggers \/ \E l \in Loggers : ArchiveStep(l)

ArchiveSpec == ArchiveInit /\ [][ArchiveNext]_archiveVars
-----------------------------------------------------------------------------
(* The lines of a day are there in whole, as a log or as an archive, until *)
(* both periods are over, whatever two jobs, a full disk and a restart do  *)
(* to each other; but for the archive that one job had finished, original  *)
(* deleted, while the other was about to write it again                    *)
(* (archiveOldLogs, cleanExpiredLogs).                                     *)
LinesAreKept ==
    \A f \in 0..day :
        \/ f \in logs \/ archives[f].holds = "whole"
        \/ f \in overwritten
        \/ day > f + ArchiveAfter + CleanAfter
=============================================================================
