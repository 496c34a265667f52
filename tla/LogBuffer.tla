------------------------------ MODULE LogBuffer ------------------------------
(***************************************************************************)
(* The Redis buffer of log lines (LOG_USE_REDIS_BUFFER=true): LoggerService*)
(* .enqueueLog, RedisLogBufferService and RedisLogConsumerService.         *)
(*                                                                         *)
(* A line is pushed onto a Redis list by two calls, LLEN and LPUSH; what   *)
(* is not pushed should go to the memory queue (module LogQueue).  One     *)
(* consumer in the same process reads the oldest lines, writes them to its *)
(* two files, and then trims as many from the list.                        *)
(*                                                                         *)
(* ioredis sends a command again after it reconnects when the reply to it  *)
(* was lost with the connection (autoResendUnfulfilledCommands, which the  *)
(* program leaves at its default).                                         *)
(***************************************************************************)
EXTENDS Integers, Sequences, FiniteSets

CONSTANTS
    Lines, ErrorLines,
    MaxSize,        (* LOG_REDIS_MAX_SIZE                                  *)
    BatchSize,      (* LOG_CONSUMER_BATCH_SIZE                             *)
    MaxOutages, MaxLostReplies, MaxWipes, MaxRestarts, MaxFaults, (* bounds *)
    LongOutages     (* may Redis be away longer than the consumer retries? *)

ASSUME BufferAssumption ==
    /\ ErrorLines \subseteq Lines
    /\ MaxSize \in Nat \ {0}
    /\ BatchSize \in Nat \ {0}
    /\ MaxOutages \in Nat /\ MaxLostReplies \in Nat /\ MaxWipes \in Nat
    /\ MaxRestarts \in Nat /\ MaxFaults \in Nat
    /\ LongOutages \in BOOLEAN

VARIABLES
    server,     (* does Redis answer                                       *)
    list,       (* the list at redisKey, oldest line first                 *)
    accepted,   (* history: the lines in the order they were added to it   *)
    ready,      (* isConnected of the producer                             *)
    push,       (* pushLog of each line: none yet, after LLEN, before LPUSH*)
                (* and how it ended; "memory": given to enqueueToMemory    *)
    client,     (* the consumer's connection: "up", "down", "ended"        *)
    pc,         (* its loop: "fetch", "write", "error", "confirm", "off"   *)
    batch,      (* the lines it fetched                                    *)
    stream,     (* its streams: "open", "broken", "closed"                 *)
    file,       (* the lines in its two files, each at its first place     *)
    again,      (* the lines that are in the combined file more than once  *)
    phase,      (* "running", "stopping", "stopped"                        *)
    outages, lostReplies, wipes, restarts, faults

listVars   == <<list, accepted>>
pushVars   == <<ready, push>>
loopVars   == <<pc, batch>>
fileVars   == <<stream, file, again>>
boundVars  == <<outages, lostReplies, wipes, restarts, faults>>
vars == <<server, listVars, pushVars, client, loopVars, fileVars, phase, boundVars>>

Files == {"combined", "error"}
Elements(q) == {q[i] : i \in DOMAIN q}

TypeOK ==
    /\ server \in BOOLEAN
    /\ list \in Seq(Lines)
    /\ accepted \in Seq(Lines)
    /\ ready \in BOOLEAN
    /\ push \in [Lines -> {"none", "len", "add", "done", "memory", "refused"}]
    /\ client \in {"up", "down", "ended"}
    /\ pc \in {"fetch", "write", "error", "confirm", "off"}
    /\ batch \in Seq(Lines)
    /\ stream \in [Files -> {"open", "broken", "closed"}]
    /\ file \in [Files -> Seq(Lines)] /\ file["error"] \in Seq(ErrorLines)
    /\ again \in SUBSET Lines
    /\ phase \in {"running", "stopping", "stopped"}
    /\ outages \in 0..MaxOutages
    /\ lostReplies \in 0..MaxLostReplies
    /\ wipes \in 0..MaxWipes
    /\ restarts \in 0..MaxRestarts
    /\ faults \in 0..MaxFaults

Init ==
    /\ server = TRUE
    /\ list = <<>> /\ accepted = <<>>
    /\ ready = TRUE
    /\ push = [l \in Lines |-> "none"]
    /\ client = "up"
    /\ pc = "fetch" /\ batch = <<>>
    /\ stream = [x \in Files |-> "open"]
    /\ file = [x \in Files |-> <<>>] /\ again = {}
    /\ phase = "running"
    /\ outages = 0 /\ lostReplies = 0 /\ wipes = 0 /\ restarts = 0 /\ faults = 0
-----------------------------------------------------------------------------
(* enqueueLog: to Redis if it is ready, to memory otherwise.               *)
Log(line) ==
    /\ push[line] = "none"
    /\ push' = [push EXCEPT ![line] = IF ready THEN "len" ELSE "memory"]
    /\ UNCHANGED <<server, listVars, ready, client, loopVars, fileVars, phase,
                   boundVars>>

(* pushLog returns false.  enqueueLog waits for an exception, which pushLog*)
(* never throws, before it turns to the memory queue.                      *)
Refuse(line) == push' = [push EXCEPT ![line] = "refused"]

PushLen(line) ==
    /\ push[line] = "len"
    /\ ready
    /\ \/ /\ Len(list) >= MaxSize
          /\ Refuse(line)
       \/ /\ Len(list) < MaxSize
          /\ push' = [push EXCEPT ![line] = "add"]
    /\ UNCHANGED <<server, listVars, ready, client, loopVars, fileVars,
                   phase, boundVars>>

Add(line) ==
    /\ list' = Append(list, line)
    /\ accepted' = Append(accepted, line)

PushAdd(line) ==
    /\ push[line] = "add"
    /\ ready
    /\ Add(line)
    /\ push' = [push EXCEPT ![line] = "done"]
    /\ UNCHANGED <<server, ready, client, loopVars, fileVars,
                   phase, boundVars>>

(* LLEN or LPUSH fails: the error is caught, and false returned.           *)
PushFails(line) ==
    /\ push[line] \in {"len", "add"}
    /\ ~ready
    /\ Refuse(line)
    /\ UNCHANGED <<server, listVars, ready, client, loopVars, fileVars,
                   phase, boundVars>>
-----------------------------------------------------------------------------
Connected == client = "up" /\ server

(* LRANGE -batchSize -1, reversed.                                         *)
Oldest(n) == SubSeq(list, 1, n)
BatchLength == IF Len(list) < BatchSize THEN Len(list) ELSE BatchSize

(* startConsuming, to the end of fetchLogs; an empty answer and an error   *)
(* both lead back here after a sleep.                                      *)
Fetch ==
    /\ pc = "fetch"
    /\ phase = "running"
    /\ Connected
    /\ list # <<>>
    /\ batch' = Oldest(BatchLength)
    /\ pc' = "write"
    /\ UNCHANGED <<server, listVars, pushVars, client, fileVars, phase, boundVars>>

(* while (this.isRunning).                                                 *)
LoopEnds ==
    /\ pc = "fetch"
    /\ phase # "running"
    /\ pc' = "off"
    /\ UNCHANGED <<server, listVars, pushVars, client, batch, fileVars, phase,
                   boundVars>>

(* The streams are replaced at the first turn of the loop on a new day.    *)
NewDay ==
    /\ pc = "fetch"
    /\ phase = "running"
    /\ stream' = [x \in Files |-> "open"]
    /\ UNCHANGED <<server, listVars, pushVars, client, loopVars, file, again, phase,
                   boundVars>>

HasErrors == \E l \in Elements(batch) : l \in ErrorLines

(* Mutant: both files get every line.                                      *)
FreshOfAnyLevel(x) == {i \in DOMAIN batch : batch[i] \notin Elements(file[x])}

(* What a batch adds to a file that may have some of its lines already:    *)
(* those at fresh places, in their order.                                  *)
Fresh(x) == {i \in DOMAIN batch : /\ batch[i] \notin Elements(file[x])
                                  /\ x = "error" => batch[i] \in ErrorLines}

PlaceOf(places, n) == CHOOSE i \in places : Cardinality({j \in places : j <= i}) = n

New(x) == [n \in 1..Cardinality(Fresh(x)) |-> batch[PlaceOf(Fresh(x), n)]]

(* writeLogs: nothing is written, and nothing said, when the streams have  *)
(* been closed; a failing write throws, and the loop begins again.         *)
Write ==
    /\ pc = "write"
    /\ \/ /\ stream["combined"] = "closed"
          /\ pc' = "confirm"
          /\ UNCHANGED <<file, again>>
       \/ /\ stream["combined"] = "open"
          /\ file' = [file EXCEPT !["combined"] = @ \o New("combined")]
          /\ again' = again \cup (Elements(batch) \cap Elements(file["combined"]))
          /\ pc' = IF HasErrors THEN "error" ELSE "confirm"
       \/ /\ stream["combined"] = "broken"
          /\ pc' = "fetch"
          /\ UNCHANGED <<file, again>>
    /\ UNCHANGED <<server, listVars, pushVars, client, batch, stream, phase,
                   boundVars>>

WriteErrors ==
    /\ pc = "error"
    /\ \/ /\ stream["error"] = "open"
          /\ file' = [file EXCEPT !["error"] = @ \o New("error")]
          /\ pc' = "confirm"
       \/ /\ stream["error"] # "open"
          /\ pc' = "fetch"
          /\ UNCHANGED file
    /\ UNCHANGED <<server, listVars, pushVars, client, batch, stream, again,
                   phase, boundVars>>

(* Mutant: off by one, LTRIM 0 -count.                                     *)
TrimTooFew == list' = SubSeq(list, Len(batch), Len(list))

(* LTRIM 0 -(count+1): as many lines go as were written, oldest first.     *)
Trim == list' = SubSeq(list, Len(batch) + 1, Len(list))

Confirm ==
    /\ pc = "confirm"
    /\ Connected
    /\ Trim
    /\ pc' = "fetch"
    /\ UNCHANGED <<server, accepted, pushVars, client, batch, fileVars, phase,
                   boundVars>>

(* confirmLogs catches what LTRIM throws; the lines will be fetched again. *)
ConfirmFails ==
    /\ pc = "confirm"
    /\ ~Connected
    /\ pc' = "fetch"
    /\ UNCHANGED <<server, listVars, pushVars, client, batch, fileVars, phase,
                   boundVars>>
-----------------------------------------------------------------------------
(* The connections break with the server.                                  *)
Disconnect ==
    /\ server' = FALSE
    /\ ready' = FALSE
    /\ client' = IF client = "up" THEN "down" ELSE client

ServerDown ==
    /\ server
    /\ outages < MaxOutages
    /\ outages' = outages + 1
    /\ Disconnect
    /\ UNCHANGED <<listVars, push, loopVars, fileVars, phase,
                   lostReplies, wipes, restarts, faults>>

(* A command is executed and the connection breaks before its reply: the   *)
(* command is still unanswered, and will be sent again or given up.        *)
ReplyLost ==
    /\ server
    /\ lostReplies < MaxLostReplies
    /\ lostReplies' = lostReplies + 1
    /\ \/ /\ pc = "confirm" /\ client = "up"
          /\ Trim
          /\ UNCHANGED accepted
       \/ \E line \in Lines : push[line] = "add" /\ ready /\ Add(line)
    /\ Disconnect
    /\ UNCHANGED <<push, loopVars, fileVars, phase, outages,
                   wipes, restarts, faults>>

(* Redis comes back, perhaps without its memory.                           *)
ServerBack ==
    /\ ~server
    /\ server' = TRUE
    /\ \/ UNCHANGED <<list, wipes>>
       \/ wipes < MaxWipes /\ wipes' = wipes + 1 /\ list' = <<>>
    /\ UNCHANGED <<accepted, pushVars, client, loopVars, fileVars, phase,
                   outages, lostReplies, restarts, faults>>

(* The producer's connection is tried for ever.                            *)
ProducerConnects ==
    /\ server
    /\ ~ready
    /\ phase = "running"
    /\ ready' = TRUE
    /\ UNCHANGED <<server, listVars, push, client, loopVars,
                   fileVars, phase, boundVars>>

(* The consumer's is given up after five attempts.                         *)
ConsumerConnects ==
    /\ client = "down"
    /\ \/ server /\ client' = "up"
       \/ ~server /\ LongOutages /\ client' = "ended"
    /\ UNCHANGED <<server, listVars, pushVars, loopVars, fileVars, phase, boundVars>>

StreamBreaks(x) ==
    /\ stream[x] = "open"
    /\ faults < MaxFaults
    /\ faults' = faults + 1
    /\ stream' = [stream EXCEPT ![x] = "broken"]
    /\ UNCHANGED <<server, listVars, pushVars, client, loopVars, file, again, phase,
                   outages, lostReplies, wipes, restarts>>
-----------------------------------------------------------------------------
(* onModuleDestroy of the consumer, and of the producer, which quits.      *)
Stop ==
    /\ phase = "running"
    /\ phase' = "stopping"
    /\ ready' = FALSE
    /\ UNCHANGED <<server, listVars, push, client, loopVars,
                   fileVars, boundVars>>

(* Mutant: the connection is left open for the loop to finish.             *)
StopClosesStreams ==
    /\ phase = "stopping"
    /\ phase' = "stopped"
    /\ stream' = [x \in Files |-> "closed"]
    /\ UNCHANGED <<server, listVars, pushVars, client, loopVars, file, again,
                   boundVars>>

(* A poll interval later the streams are closed and the connection is quit,*)
(* whatever the loop is doing.                                             *)
StopCloses ==
    /\ phase = "stopping"
    /\ phase' = "stopped"
    /\ stream' = [x \in Files |-> "closed"]
    /\ client' = "ended"
    /\ UNCHANGED <<server, listVars, pushVars, loopVars, file, again, boundVars>>

(* The process dies at any moment and starts again; without Redis the      *)
(* consumer does not start.                                                *)
Restart ==
    /\ restarts < MaxRestarts
    /\ restarts' = restarts + 1
    /\ phase' = "running"
    /\ ready' = server
    /\ push' = [l \in Lines |-> IF push[l] \in {"len", "add"} THEN "done" ELSE push[l]]
    /\ client' = IF server THEN "up" ELSE "ended"
    /\ pc' = IF server THEN "fetch" ELSE "off"
    /\ batch' = <<>>
    /\ stream' = [x \in Files |-> "open"]
    /\ UNCHANGED <<server, listVars, file, again, outages, lostReplies,
                   wipes, faults>>

Next ==
    \/ \E line \in Lines : Log(line) \/ PushLen(line) \/ PushAdd(line) \/ PushFails(line)
    \/ Fetch \/ LoopEnds \/ NewDay \/ Write \/ WriteErrors \/ Confirm \/ ConfirmFails
    \/ ServerDown \/ ReplyLost \/ ServerBack \/ ProducerConnects \/ ConsumerConnects
    \/ \E x \in Files : StreamBreaks(x)
    \/ Stop \/ StopCloses \/ Restart

Spec == Init /\ [][Next]_vars

(* Calls return, the loop goes on, days pass, Redis comes back and both    *)
(* clients try to reconnect.                                               *)
Fairness ==
    /\ \A line \in Lines : WF_vars(PushLen(line) \/ PushAdd(line) \/ PushFails(line))
    /\ WF_vars(Fetch \/ LoopEnds \/ Write \/ WriteErrors \/ Confirm \/ ConfirmFails)
    /\ SF_vars(NewDay)
    /\ WF_vars(ServerBack) /\ WF_vars(ProducerConnects) /\ WF_vars(ConsumerConnects)

FairSpec == Spec /\ Fairness
-----------------------------------------------------------------------------
Written(line) ==
    /\ line \in Elements(file["combined"])
    /\ line \in ErrorLines => line \in Elements(file["error"])

NoLostCommand == lostReplies = 0 /\ wipes = 0

(* Lines are trimmed only when they are in the files: through restarts,    *)
(* outages, failing streams and the stop, a line that reached Redis is     *)
(* still there or has been written, unless Redis itself lost its memory.   *)
(* An answer of Redis that is lost can cost one batch: the LTRIM is sent   *)
(* again and trims as many lines a second time.                            *)
TrimmedLinesAreWritten ==
    wipes = 0 =>
        Cardinality({line \in Elements(accepted) :
                        line \notin Elements(list) /\ ~Written(line)})
            <= BatchSize * lostReplies

(* The file has lines in the order Redis received them, without a gap: what*)
(* came before a written line was written before it, although batches are  *)
(* repeated after crashes and failing writes.                              *)
FileHasNoGaps ==
    NoLostCommand =>
        \A i \in DOMAIN file["combined"] : \A j, k \in DOMAIN accepted :
            accepted[k] = file["combined"][i] /\ j < k
              => \E h \in 1..(i-1) : file["combined"][h] = accepted[j]

(* A line is written again only after a restart, a failing stream or an    *)
(* outage.                                                                 *)
NoRepetitions ==
    NoLostCommand /\ outages = 0 /\ restarts = 0 /\ faults = 0 /\ phase = "running" =>
        again = {}

(* Whatever is retried, the file follows the buffer, and a repetition in it*)
(* has a cause (startConsuming, writeLogs, confirmLogs).                   *)
FileFollowsTheBuffer == FileHasNoGaps /\ NoRepetitions

(* Every line Redis received is written in the end, unless the process     *)
(* stops.                                                                  *)
BufferedLinesAreWritten ==
    \A line \in Lines : line \in Elements(accepted) ~> Written(line) \/ phase # "running"
=============================================================================
