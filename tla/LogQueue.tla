------------------------------ MODULE LogQueue ------------------------------
(***************************************************************************)
(* The memory queue of LoggerService (src/common/logger/logger.service.ts).*)
(*                                                                         *)
(* Lines wait in two queues, all of them in the combined one and errors    *)
(* also in the error one.  A timer or a full batch asks for a flush; the   *)
(* flushes form a chain of promises and take everything that waits, write  *)
(* it to two streams at once, and print it on the console when either      *)
(* write fails.  The hourly change of files and the end of the process     *)
(* append a flush of their own to the chain and act when it is over.       *)
(***************************************************************************)
EXTENDS Naturals, Sequences, FiniteSets

CONSTANTS
    Lines,          (* log lines; each is logged at most once              *)
    ErrorLines,     (* those of level ERROR                                *)
    MaxQueueSize,   (* LOG_MAX_QUEUE_SIZE                                  *)
    BatchSize,      (* LOG_BATCH_SIZE                                      *)
    MaxFaults, MaxRotations                    (* bounds                   *)

ASSUME LogAssumption ==
    /\ ErrorLines \subseteq Lines
    /\ IsFiniteSet(Lines)
    /\ MaxQueueSize \in Nat \ {0}
    /\ BatchSize \in Nat \ {0}
    /\ MaxFaults \in Nat /\ MaxRotations \in Nat

VARIABLES
    logged,        (* history: lines in the order they were logged         *)
    combined,      (* combinedWriteQueue                                   *)
    errors,        (* errorWriteQueue                                      *)
    timer,         (* writeTimer: "none", "armed", or "fired" and not null *)
    chain,         (* flushes not over yet, with what follows each         *)
    writing,       (* the lines of the flush that runs, for both streams   *)
    awaited,       (* its writes that have not called back                 *)
    failed,        (* one of its writes has failed                         *)
    stream,        (* each stream: "open", "broken" or "ended"             *)
    buffer,        (* batches given to each stream and not yet on disk     *)
    file,          (* lines on disk, the files of all hours in sequence    *)
    console,       (* lines printed because they could not be written      *)
    dropped,       (* lines taken from a full queue                        *)
    phase,         (* "running", "stopping", "ended", "exited"             *)
    due,           (* history: lines not on disk when the stop began       *)
    faults, rotations

queueVars  == <<combined, errors, timer, dropped>>
flushVars  == <<writing, awaited, failed>>
streamVars == <<stream, buffer, file>>
boundVars  == <<faults, rotations>>
vars == <<logged, queueVars, chain, flushVars, streamVars, console, phase, due,
          boundVars>>

Streams == {"combined", "error"}
Idle == [combined |-> <<>>, error |-> <<>>]
Elements(q) == {q[i] : i \in DOMAIN q}

TypeOK ==
    /\ logged \in Seq(Lines)
    /\ combined \in Seq(Lines)
    /\ errors \in Seq(ErrorLines)
    /\ timer \in {"none", "armed", "fired"}
    /\ chain \in Seq({"flush", "rotate", "stop"})
    /\ writing \in [Streams -> Seq(Lines)]
    /\ awaited \in SUBSET Streams
    /\ failed \in BOOLEAN
    /\ stream \in [Streams -> {"open", "broken", "ended"}]
    /\ buffer \in [Streams -> Seq(Seq(Lines))]
    /\ file \in [Streams -> Seq(Lines)]
    /\ console \in SUBSET Lines
    /\ dropped \in SUBSET Lines
    /\ phase \in {"running", "stopping", "ended", "exited"}
    /\ due \in SUBSET Lines
    /\ faults \in 0..MaxFaults
    /\ rotations \in 0..MaxRotations

Flushing == writing # Idle

Init ==
    /\ logged = <<>> /\ combined = <<>> /\ errors = <<>>
    /\ timer = "none"
    /\ chain = <<>>
    /\ writing = Idle /\ awaited = {} /\ failed = FALSE
    /\ stream = [x \in Streams |-> "open"]
    /\ buffer = [x \in Streams |-> <<>>]
    /\ file = [x \in Streams |-> <<>>]
    /\ console = {} /\ dropped = {}
    /\ phase = "running" /\ due = {}
    /\ faults = 0 /\ rotations = 0
-----------------------------------------------------------------------------
(* enqueueToMemory.  A full queue loses its oldest line, but only while    *)
(* the combined queue is the longer one; then a full batch asks for a      *)
(* flush at once, and otherwise a timer is set unless there is one.        *)
Full == Len(combined) + Len(errors) >= MaxQueueSize
(* Mutant: off by one.                                                     *)
MakesRoomLate == Len(combined) + Len(errors) > MaxQueueSize /\ Len(combined) > Len(errors)

MakesRoom == Full /\ Len(combined) > Len(errors)

Push(q, line) ==
    /\ combined' = Append(q, line)
    /\ errors' = IF line \in ErrorLines THEN Append(errors, line) ELSE errors

(* Mutant: no timer while a flush is under way.                            *)
ScheduleWhenIdle(length) ==
    IF length >= BatchSize
    THEN chain' = Append(chain, "flush") /\ UNCHANGED timer
    ELSE /\ timer' = IF timer = "none" /\ chain = <<>> THEN "armed" ELSE timer
         /\ UNCHANGED chain

Schedule(length) ==
    IF length >= BatchSize
    THEN chain' = Append(chain, "flush") /\ UNCHANGED timer
    ELSE /\ timer' = IF timer = "none" THEN "armed" ELSE timer
         /\ UNCHANGED chain

Enqueue(line) ==
    /\ phase # "exited"
    /\ line \notin Elements(logged)
    /\ logged' = Append(logged, line)
    /\ \/ /\ MakesRoom
          /\ dropped' = dropped \cup {Head(combined)}
          /\ Push(Tail(combined), line)
          /\ Schedule(Len(combined))
       \/ /\ ~MakesRoom
          /\ UNCHANGED dropped
          /\ Push(combined, line)
          /\ Schedule(Len(combined) + 1)
    /\ UNCHANGED <<flushVars, streamVars, console, phase, due, boundVars>>

(* The callback asks for a flush and leaves writeTimer as it is.           *)
TimerFires ==
    /\ phase # "exited"
    /\ timer = "armed"
    /\ timer' = "fired"
    /\ chain' = Append(chain, "flush")
    /\ UNCHANGED <<logged, combined, errors, dropped, flushVars, streamVars,
                   console, phase, due, boundVars>>
-----------------------------------------------------------------------------
(* What follows a flush: nothing, initializeLogStreams after the rotation's*)
(* flush, and the end of both streams after onModuleDestroy's.             *)
Follow(kind) ==
    /\ chain' = Tail(chain)
    /\ stream' = CASE kind = "flush"  -> stream
                   [] kind = "rotate" -> [x \in Streams |-> "open"]
                   [] kind = "stop"   -> [x \in Streams |-> "ended"]
    /\ phase' = IF kind = "stop" THEN "ended" ELSE phase

(* doFlush, when nothing waits.                                            *)
FlushNothing ==
    /\ phase # "exited"
    /\ chain # <<>> /\ ~Flushing
    /\ combined = <<>> /\ errors = <<>>
    /\ Follow(Head(chain))
    /\ UNCHANGED <<logged, queueVars, flushVars, buffer, file, console, due,
                   boundVars>>

(* doFlush, up to the await: the queues are taken and cleared, the timer   *)
(* with them, and both writes begin.  A stream that has ended or was       *)
(* destroyed by an error calls back with an error.                         *)
FlushStart ==
    /\ phase # "exited"
    /\ chain # <<>> /\ ~Flushing
    /\ combined # <<>> \/ errors # <<>>
    /\ LET batch  == [combined |-> combined, error |-> errors]
           needed == {x \in Streams : batch[x] # <<>>}
           open   == {x \in needed : stream[x] = "open"}
       IN  /\ writing' = batch
           /\ awaited' = open
           /\ failed' = (open # needed)
           /\ buffer' = [x \in Streams |-> IF x \in open THEN Append(buffer[x], batch[x])
                                                         ELSE buffer[x]]
    /\ combined' = <<>> /\ errors' = <<>>
    /\ timer' = "none"
    /\ UNCHANGED <<logged, dropped, chain, stream, file, console, phase, due,
                   boundVars>>

(* A batch reaches the disk.  Only the last batch in the buffer can be one *)
(* the running flush waits for: an earlier one belongs to a flush that did *)
(* not wait for it, because its other write had failed.                    *)
WriteDone(x) ==
    /\ phase # "exited"
    /\ buffer[x] # <<>>
    /\ file' = [file EXCEPT ![x] = @ \o Head(buffer[x])]
    /\ buffer' = [buffer EXCEPT ![x] = Tail(@)]
    /\ awaited' = IF Len(buffer[x]) = 1 THEN awaited \ {x} ELSE awaited
    /\ UNCHANGED <<logged, queueVars, chain, writing, failed, stream, console,
                   phase, due, boundVars>>

(* A stream fails, and is destroyed with all it had buffered.              *)
StreamBreaks(x) ==
    /\ phase # "exited"
    /\ faults < MaxFaults
    /\ stream[x] = "open"
    /\ faults' = faults + 1
    /\ stream' = [stream EXCEPT ![x] = "broken"]
    /\ buffer' = [buffer EXCEPT ![x] = <<>>]
    /\ failed' = (failed \/ x \in awaited)
    /\ awaited' = awaited \ {x}
    /\ UNCHANGED <<logged, queueVars, chain, writing, file, console, phase, due,
                   rotations>>

(* Mutant: a failing write is only reported.                               *)
FlushEndSilent ==
    /\ phase # "exited"
    /\ Flushing
    /\ failed \/ awaited = {}
    /\ writing' = Idle /\ awaited' = {} /\ failed' = FALSE
    /\ Follow(Head(chain))
    /\ UNCHANGED <<logged, queueVars, buffer, file, console, due, boundVars>>
(* Mutant: lines that could not be written wait again.                     *)
FlushEndRequeues ==
    /\ phase # "exited"
    /\ Flushing
    /\ failed \/ awaited = {}
    /\ combined' = IF failed THEN writing["combined"] \o combined ELSE combined
    /\ errors' = IF failed THEN writing["error"] \o errors ELSE errors
    /\ writing' = Idle /\ awaited' = {} /\ failed' = FALSE
    /\ Follow(Head(chain))
    /\ UNCHANGED <<logged, timer, dropped, buffer, file, console, due, boundVars>>

(* doFlush, after the await: Promise.all fails as soon as one write does,  *)
(* and the batch is then printed.                                          *)
FlushEnd ==
    /\ phase # "exited"
    /\ Flushing
    /\ failed \/ awaited = {}
    /\ console' = IF failed THEN console \cup Elements(writing["combined"])
                                        \cup Elements(writing["error"])
                            ELSE console
    /\ writing' = Idle /\ awaited' = {} /\ failed' = FALSE
    /\ Follow(Head(chain))
    /\ UNCHANGED <<logged, queueVars, buffer, file, due, boundVars>>

-----------------------------------------------------------------------------
(* The minute timer of scheduleLogRotation finds that the hour has changed.*)
Rotate ==
    /\ phase = "running"
    /\ rotations < MaxRotations
    /\ rotations' = rotations + 1
    /\ chain' = Append(chain, "rotate")
    /\ UNCHANGED <<logged, queueVars, flushVars, streamVars, console, phase,
                   due, faults>>

(* onModuleDestroy clears the timers and waits for one more flush.         *)
Stop ==
    /\ phase = "running"
    /\ phase' = "stopping"
    /\ timer' = "none"
    /\ chain' = Append(chain, "stop")
    /\ due' = Elements(combined) \cup Elements(writing["combined"])
    /\ UNCHANGED <<logged, combined, errors, dropped, flushVars, streamVars,
                   console, boundVars>>

(* The other modules have stopped as well, and the process ends.           *)
Exit ==
    /\ phase = "ended"
    /\ phase' = "exited"
    /\ UNCHANGED <<logged, queueVars, chain, flushVars, streamVars, console,
                   due, boundVars>>

Next ==
    \/ \E line \in Lines : Enqueue(line)
    \/ TimerFires
    \/ FlushNothing \/ FlushStart \/ FlushEnd
    \/ \E x \in Streams : WriteDone(x) \/ StreamBreaks(x)
    \/ Rotate \/ Stop \/ Exit

Spec == Init /\ [][Next]_vars

(* Timers fire, promises continue and streams call back.                   *)
Fairness ==
    /\ WF_vars(TimerFires)
    /\ WF_vars(FlushNothing \/ FlushStart \/ FlushEnd)
    /\ \A x \in Streams : WF_vars(WriteDone(x))

FairSpec == Spec /\ Fairness
-----------------------------------------------------------------------------
Out(line) == line \in Elements(file["combined"]) \cup console \cup dropped

(* A line that waits is always going to be flushed: a timer is still       *)
(* running or a flush is still to start.  (A fired timer that is not null  *)
(* keeps enqueueToMemory from setting another one.)                        *)
QueueIsWatched ==
    phase # "exited" /\ combined # <<>> =>
        \/ timer = "armed"
        \/ chain # <<>> /\ (Flushing => Len(chain) > 1)

(* No error line is lost before the process ends, whatever is dropped,     *)
(* rotated or fails.                                                       *)
ErrorLinesSurvive ==
    \A line \in ErrorLines \cap Elements(logged) :
        line \in Elements(errors) \cup Elements(writing["error"])
                 \cup Elements(file["error"]) \cup console

(* Each file holds lines in the order they were logged, none of them twice.*)
Position(line) == CHOOSE i \in DOMAIN logged : logged[i] = line

FilesKeepTheOrder ==
    \A x \in Streams : \A i, j \in DOMAIN file[x] :
        i < j => Position(file[x][i]) < Position(file[x][j])

(* What MAX_QUEUE_SIZE does bound: the combined queue, unless errors fill  *)
(* it.                                                                     *)
MemoryIsBounded ==
    Len(combined) <= MaxQueueSize \/ Len(combined) <= Len(errors) + 1

(* onModuleDestroy loses nothing that was waiting or being written when it *)
(* was called.                                                             *)
StopFlushesAll ==
    phase \in {"ended", "exited"} => \A line \in due : Out(line)

(* Neither drops nor failing streams, rotations nor the stop make the queue*)
(* forget what it owes: errors are kept whatever else is dropped, a line   *)
(* that waits has a flush to come, and the stop waits for all of them      *)
(* (enqueueToMemory, doFlush, onModuleDestroy).                            *)
NoLineIsForgotten == ErrorLinesSurvive /\ QueueIsWatched /\ StopFlushesAll

(* Every line gets out: to the file, to the console, or as the oldest of a *)
(* full queue; unless the process ends.                                    *)
LinesGetOut ==
    \A line \in Lines : line \in Elements(logged) ~> Out(line) \/ phase = "exited"
=============================================================================
