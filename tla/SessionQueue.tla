---------------------------- MODULE SessionQueue ----------------------------
(***************************************************************************)
(* The Redis copy of the waiting sessions: src/queue, the removal in       *)
(* SessionService.performCloseSession, UrgencyRuleService.recalculateQueue *)
(* and the recovery in main.ts.                                            *)
(*                                                                         *)
(* PostgreSQL says which sessions are QUEUED, at which priority and since  *)
(* when; Redis keeps one sorted set per agent and one for the unassigned,  *)
(* and answers who is next.  The two are kept together by jobs that read   *)
(* rows, wait for Redis, and act on what they read.  No handler of this    *)
(* version queues a session, and nobody changes the agent of one, so the   *)
(* set a session belongs to is fixed from the start.                       *)
(***************************************************************************)
EXTENDS Integers, FiniteSets

CONSTANTS
    Sessions,     (* the sessions that were QUEUED, named by numbers: equal *)
                  (* scores are ordered by name                            *)
    Agents, NoOne,
    Owner,        (* Session.agentId                                       *)
    QueuedAt,     (* Session.queuedAt; NoTime when the column is null      *)
    NoTime,
    Prios,        (* values of Session.priorityScore                       *)
    Absent,       (* no entry in a sorted set                              *)
    Weight,       (* 10^10 in calculateScore                               *)
    MaxTime,      (* 9999999999999 in calculateScore                       *)
    MaxReconnectAttempts,
    LongOutages,  (* may Redis be away for longer than all the attempts?   *)
    MaxOutages, MaxRestarts, MaxRecalculations, (* bounds                  *)
    Jobs          (* jobs that run, to bound TLC's runs; the theorems hold *)
                  (* for every subset of AllJobs                           *)

AllJobs == {"close", "recover", "check", "sync", "recalc"}

ASSUME QueueAssumption ==
    /\ Sessions \subseteq Nat
    /\ IsFiniteSet(Sessions)
    /\ Owner \in [Sessions -> Agents \cup {NoOne}]
    /\ QueuedAt \in [Sessions -> Nat \cup {NoTime}]
    /\ Prios \subseteq Int
    /\ Absent \notin Prios
    /\ NoTime \notin Nat
    /\ Weight \in Nat \ {0}
    /\ MaxTime \in Nat
    /\ MaxReconnectAttempts \in Nat \ {0}
    /\ LongOutages \in BOOLEAN
    /\ Jobs \subseteq AllJobs
    /\ MaxOutages \in Nat /\ MaxRestarts \in Nat /\ MaxRecalculations \in Nat

VARIABLES
    status,     (* Session.status: "QUEUED" or "CLOSED"                    *)
    prio,       (* Session.priorityScore                                   *)
    pos,        (* Session.queuePosition, 0 when null                      *)
    zset,       (* the priority at which a session is in its sorted set    *)
    server,     (* does the Redis server answer                            *)
    client,     (* the ioredis connection: "up", "down", "ended"           *)
    attempts,   (* failed attempts to reconnect                            *)
    closing,    (* the handler that closes a session                       *)
    booting,    (* recoverQueueFromDatabase has not been called yet        *)
    recover,    (* rows <<session, priority>> it still has to add          *)
    check,      (* rows the consistency check still has to look at         *)
    missing,    (* the row it found missing and is about to add            *)
    sync,       (* sessions whose position is still to be written          *)
    found,      (* the position just read: <<session, position>>           *)
    recalc,     (* sessions still to be scored again                       *)
    reread,     (* all are scored: the order is read next                  *)
    reorder,    (* positions still to be written by reorderQueue           *)
    outages, restarts, recalculations,
    tainted     (* history: closed while Redis did not answer or while a   *)
                (* job held their row                                      *)

rowVars    == <<status, prio, pos>>
redisVars  == <<server, client, attempts>>
recoverVars == <<booting, recover>>
checkVars  == <<check, missing>>
syncVars   == <<sync, found>>
recalcVars == <<recalc, reread, reorder, recalculations>>
countVars  == <<outages, restarts>>
vars == <<rowVars, zset, redisVars, closing, recoverVars, checkVars, syncVars,
          recalcVars, countVars, tainted>>

Positions == 0..Cardinality(Sessions)
Rows == Sessions \X Prios

TypeOK ==
    /\ status \in [Sessions -> {"QUEUED", "CLOSED"}]
    /\ prio \in [Sessions -> Prios]
    /\ pos \in [Sessions -> Nat]
    /\ zset \in [Sessions -> Prios \cup {Absent}]
    /\ server \in BOOLEAN
    /\ client \in {"up", "down", "ended"}
    /\ attempts \in 0..MaxReconnectAttempts
    /\ closing \in [Sessions -> {"open", "remove", "done"}]
    /\ booting \in BOOLEAN
    /\ recover \in SUBSET Rows
    /\ check \in SUBSET Rows
    /\ missing \in SUBSET Rows
    /\ sync \in SUBSET Sessions
    /\ found \in SUBSET (Sessions \X Nat)
    /\ recalc \in SUBSET Sessions
    /\ reread \in BOOLEAN
    /\ reorder \in SUBSET (Sessions \X Nat)
    /\ outages \in 0..MaxOutages
    /\ restarts \in 0..MaxRestarts
    /\ recalculations \in 0..MaxRecalculations
    /\ tainted \in SUBSET Sessions
-----------------------------------------------------------------------------

(* Mutant: the priority is added to the time without its weight.           *)
ScoreUnweighted(p, t) == p + (MaxTime - t)

(* QueueService.calculateScore: the priority first, then who waits longest.*)
Score(p, t) ==
    LET safePriority == IF p > 0 THEN p ELSE 0
        safeTime     == IF t > MaxTime THEN MaxTime ELSE t
    IN  safePriority * Weight + (MaxTime - safeTime)

Timed == {s \in Sessions : QueuedAt[s] # NoTime}
Up == client = "up"
InRedis(s) == zset[s] # Absent

(* ZREVRANK: highest score first, equal scores by name backwards.          *)
AheadInRedis(r, s) ==
    LET a == Score(zset[r], QueuedAt[r])
        b == Score(zset[s], QueuedAt[s])
    IN  a > b \/ (a = b /\ r > s)

Rank(s) ==
    1 + Cardinality({r \in Sessions : /\ Owner[r] = Owner[s]
                                      /\ InRedis(r)
                                      /\ r # s
                                      /\ AheadInRedis(r, s)})

(* orderBy priorityScore desc, queuedAt asc, nulls last.                   *)
AheadInDatabase(r, s) ==
    \/ prio[r] > prio[s]
    \/ /\ prio[r] = prio[s]
       /\ \/ QueuedAt[s] = NoTime /\ QueuedAt[r] # NoTime
          \/ QueuedAt[s] = NoTime /\ QueuedAt[r] = NoTime /\ r > s
          \/ /\ QueuedAt[s] # NoTime /\ QueuedAt[r] # NoTime
             /\ \/ QueuedAt[r] < QueuedAt[s]
                \/ QueuedAt[r] = QueuedAt[s] /\ r > s

QueuedSessions == {s \in Sessions : status[s] = "QUEUED"}
QueuedRows == {<<s, prio[s]>> : s \in QueuedSessions \cap Timed}

(* What the jobs that add to Redis have in their hands.                    *)
Held == recover \cup check \cup missing

Init ==
    /\ status = [s \in Sessions |-> "QUEUED"]
    /\ prio \in [Sessions -> Prios]
    /\ pos = [s \in Sessions |-> 0]
    /\ \E kept \in SUBSET Timed :
          zset = [s \in Sessions |-> IF s \in kept THEN prio[s] ELSE Absent]
    /\ server = TRUE
    /\ client = "up"
    /\ attempts = 0
    /\ closing = [s \in Sessions |-> "open"]
    /\ booting = TRUE
    /\ recover = {} /\ check = {} /\ missing = {} /\ sync = {} /\ found = {}
    /\ recalc = {} /\ reread = FALSE /\ reorder = {}
    /\ outages = 0 /\ restarts = 0 /\ recalculations = 0
    /\ tainted = {}
-----------------------------------------------------------------------------
(* performCloseSession, as far as the queue goes: the row is closed and    *)
(* loses its position, a system message later it is removed from Redis.    *)
(* The removal is skipped, and counts as done, when Redis does not answer. *)
Remove(s) == zset' = IF Up THEN [zset EXCEPT ![s] = Absent] ELSE zset

CloseUpdate(s) ==
    /\ closing[s] = "open"
    /\ status' = [status EXCEPT ![s] = "CLOSED"]
    /\ pos' = [pos EXCEPT ![s] = 0]
    /\ closing' = [closing EXCEPT ![s] = "remove"]
    /\ UNCHANGED <<prio, zset, redisVars, recoverVars, checkVars, syncVars,
                   recalcVars, countVars, tainted>>

(* Mutant: only the unassigned queue is searched.                          *)
CloseRemoveUnassigned(s) ==
    /\ closing[s] = "remove"
    /\ IF Owner[s] = NoOne THEN Remove(s) ELSE UNCHANGED zset
    /\ tainted' = IF Up /\ \A p \in Prios : <<s, p>> \notin Held
                  THEN tainted ELSE tainted \cup {s}
    /\ closing' = [closing EXCEPT ![s] = "done"]
    /\ UNCHANGED <<rowVars, redisVars, recoverVars, checkVars, syncVars,
                   recalcVars, countVars>>

CloseRemove(s) ==
    /\ closing[s] = "remove"
    /\ Remove(s)
    /\ tainted' = IF Up /\ \A p \in Prios : <<s, p>> \notin Held
                  THEN tainted ELSE tainted \cup {s}
    /\ closing' = [closing EXCEPT ![s] = "done"]
    /\ UNCHANGED <<rowVars, redisVars, recoverVars, checkVars, syncVars,
                   recalcVars, countVars>>
-----------------------------------------------------------------------------
(* addToUnassignedQueueWithRetry and addToAgentQueueWithRetry: nothing but *)
(* a log line when Redis does not answer.                                  *)
Add(row) == zset' = IF Up THEN [zset EXCEPT ![row[1]] = row[2]] ELSE zset

(* recoverQueueFromDatabase, called once when the process has started: it  *)
(* gives up without Redis, and adds every row it read otherwise.           *)
RecoverRead ==
    /\ booting
    /\ booting' = FALSE
    /\ recover' = IF Up THEN QueuedRows ELSE {}
    /\ UNCHANGED <<rowVars, zset, redisVars, closing, checkVars, syncVars,
                   recalcVars, countVars, tainted>>

RecoverAdd ==
    /\ \E row \in recover : Add(row) /\ recover' = recover \ {row}
    /\ UNCHANGED <<rowVars, redisVars, closing, booting, checkVars, syncVars,
                   recalcVars, countVars, tainted>>

(* handleCheckConsistency, every five minutes: of the rows it read, those  *)
(* without a position in Redis are added.                                  *)
CheckRead ==
    /\ check = {} /\ missing = {}
    /\ Up
    /\ check' = QueuedRows
    /\ UNCHANGED <<rowVars, zset, redisVars, closing, recoverVars, missing,
                   syncVars, recalcVars, countVars, tainted>>

(* getQueuePosition also answers null when Redis does not.                 *)
CheckLook ==
    /\ missing = {}
    /\ \E row \in check :
          /\ missing' = IF Up /\ InRedis(row[1]) THEN {} ELSE {row}
          /\ check' = check \ {row}
    /\ UNCHANGED <<rowVars, zset, redisVars, closing, recoverVars, syncVars,
                   recalcVars, countVars, tainted>>

CheckAdd ==
    /\ \E row \in missing : Add(row)
    /\ missing' = {}
    /\ UNCHANGED <<rowVars, redisVars, closing, recoverVars, check, syncVars,
                   recalcVars, countVars, tainted>>
-----------------------------------------------------------------------------
(* syncQueueToDatabase, every minute: the position of every QUEUED session *)
(* is read from Redis and written to its row, two calls per session.       *)
SyncRead ==
    /\ sync = {} /\ found = {}
    /\ Up
    /\ sync' = QueuedSessions
    /\ UNCHANGED <<rowVars, zset, redisVars, closing, recoverVars, checkVars,
                   found, recalcVars, countVars, tainted>>

(* Mutant: a session that has a position keeps it.                         *)
SyncLookOnce ==
    /\ found = {}
    /\ \E s \in sync :
          /\ found' = IF Up /\ InRedis(s) /\ pos[s] = 0 THEN {<<s, Rank(s)>>} ELSE {}
          /\ sync' = sync \ {s}
    /\ UNCHANGED <<rowVars, zset, redisVars, closing, recoverVars, checkVars,
                   recalcVars, countVars, tainted>>

SyncLook ==
    /\ found = {}
    /\ \E s \in sync :
          /\ found' = IF Up /\ InRedis(s) THEN {<<s, Rank(s)>>} ELSE {}
          /\ sync' = sync \ {s}
    /\ UNCHANGED <<rowVars, zset, redisVars, closing, recoverVars, checkVars,
                   recalcVars, countVars, tainted>>

SyncWrite ==
    /\ \E f \in found : pos' = [pos EXCEPT ![f[1]] = f[2]]
    /\ found' = {}
    /\ UNCHANGED <<status, prio, zset, redisVars, closing, recoverVars,
                   checkVars, sync, recalcVars, countVars, tainted>>
-----------------------------------------------------------------------------
(* UrgencyRuleService.recalculateQueue: every session that was QUEUED gets *)
(* a new priority, one call each; then reorderQueue reads the QUEUED       *)
(* sessions in the new order and numbers them, across all queues.  Redis   *)
(* is not told.                                                            *)
RecalcRead ==
    /\ recalc = {} /\ ~reread /\ reorder = {}
    /\ recalculations < MaxRecalculations
    /\ recalculations' = recalculations + 1
    /\ recalc' = QueuedSessions
    /\ UNCHANGED <<rowVars, zset, redisVars, closing, recoverVars, checkVars,
                   syncVars, reread, reorder, countVars, tainted>>

RecalcWrite ==
    /\ \E s \in recalc, p \in Prios :
          /\ prio' = [prio EXCEPT ![s] = p]
          /\ recalc' = recalc \ {s}
          /\ reread' = (recalc = {s})
    /\ UNCHANGED <<status, pos, zset, redisVars, closing, recoverVars,
                   checkVars, syncVars, reorder, recalculations, countVars,
                   tainted>>

ReorderRead ==
    /\ reread
    /\ reread' = FALSE
    /\ reorder' = {<<s, 1 + Cardinality({r \in QueuedSessions : AheadInDatabase(r, s)})>> :
                       s \in QueuedSessions}
    /\ UNCHANGED <<rowVars, zset, redisVars, closing, recoverVars, checkVars,
                   syncVars, recalc, recalculations, countVars, tainted>>

ReorderWrite ==
    /\ \E f \in reorder :
          /\ \A g \in reorder : f[2] <= g[2]
          /\ pos' = [pos EXCEPT ![f[1]] = f[2]]
          /\ reorder' = reorder \ {f}
    /\ UNCHANGED <<status, prio, zset, redisVars, closing, recoverVars,
                   checkVars, syncVars, recalc, reread, recalculations,
                   countVars, tainted>>
-----------------------------------------------------------------------------
(* The Redis server goes away and comes back, perhaps with nothing in it.  *)
ServerDown ==
    /\ outages < MaxOutages
    /\ server
    /\ outages' = outages + 1
    /\ server' = FALSE
    /\ client' = IF client = "up" THEN "down" ELSE client
    /\ UNCHANGED <<rowVars, zset, attempts, closing, recoverVars, checkVars,
                   syncVars, recalcVars, restarts, tainted>>

ServerBack ==
    /\ ~server
    /\ server' = TRUE
    /\ \/ UNCHANGED zset
       \/ zset' = [s \in Sessions |-> Absent]
    /\ UNCHANGED <<rowVars, client, attempts, closing, recoverVars, checkVars,
                   syncVars, recalcVars, countVars, tainted>>

(* Mutant: one attempt too many.                                           *)
ReconnectOnceMore ==
    /\ client = "down"
    /\ IF server THEN client' = "up" /\ attempts' = 0
                 ELSE /\ attempts < MaxReconnectAttempts \/ LongOutages
                      /\ client' = IF attempts < MaxReconnectAttempts
                                   THEN "down" ELSE "ended"
                      /\ attempts' = attempts + 1
    /\ UNCHANGED <<rowVars, zset, server, closing, recoverVars, checkVars,
                   syncVars, recalcVars, countVars, tainted>>

(* retryStrategy in redis.module.ts: when MaxReconnectAttempts attempts    *)
(* have failed it returns null, and ioredis gives up for good.             *)
Reconnect ==
    /\ client = "down"
    /\ \/ /\ server
          /\ client' = "up"
          /\ attempts' = 0
       \/ /\ ~server
          /\ attempts + 1 < MaxReconnectAttempts
          /\ attempts' = attempts + 1
          /\ UNCHANGED client
       \/ /\ ~server
          /\ attempts + 1 = MaxReconnectAttempts
          /\ LongOutages
          /\ client' = "ended"
          /\ attempts' = attempts + 1
    /\ UNCHANGED <<rowVars, zset, server, closing, recoverVars, checkVars,
                   syncVars, recalcVars, countVars, tainted>>

(* The process restarts: jobs and handlers are forgotten, the connection   *)
(* is made anew and the recovery runs again.                               *)
Restart ==
    /\ restarts < MaxRestarts
    /\ restarts' = restarts + 1
    /\ client' = IF server THEN "up" ELSE "down"
    /\ attempts' = 0
    /\ booting' = TRUE
    /\ recover' = {} /\ check' = {} /\ missing' = {} /\ sync' = {} /\ found' = {}
    /\ recalc' = {} /\ reread' = FALSE /\ reorder' = {}
    /\ closing' = [s \in Sessions |->
                      IF closing[s] = "remove" THEN "done" ELSE closing[s]]
    /\ tainted' = tainted \cup {s \in Sessions : closing[s] = "remove"}
    /\ UNCHANGED <<rowVars, zset, server, outages, recalculations>>

Next ==
    \/ "close" \in Jobs /\ \E s \in Sessions : CloseUpdate(s) \/ CloseRemove(s)
    \/ "recover" \in Jobs /\ (RecoverRead \/ RecoverAdd)
    \/ "check" \in Jobs /\ (CheckRead \/ CheckLook \/ CheckAdd)
    \/ "sync" \in Jobs /\ (SyncRead \/ SyncLook \/ SyncWrite)
    \/ "recalc" \in Jobs /\ (RecalcRead \/ RecalcWrite \/ ReorderRead \/ ReorderWrite)
    \/ ServerDown \/ ServerBack \/ Reconnect \/ Restart

Spec == Init /\ [][Next]_vars

(* The scheduler fires both jobs for ever and their calls return; Redis    *)
(* comes back and the client tries to reconnect.  Nothing is assumed of    *)
(* the people who close sessions or ask for new priorities, but a handler  *)
(* that has begun goes on.                                                 *)
Fairness ==
    /\ WF_vars("check" \in Jobs /\ (CheckRead \/ CheckLook \/ CheckAdd))
    /\ WF_vars("sync" \in Jobs /\ (SyncRead \/ SyncLook \/ SyncWrite))
    /\ WF_vars("recover" \in Jobs /\ (RecoverRead \/ RecoverAdd))
    /\ WF_vars("recalc" \in Jobs /\ (RecalcWrite \/ ReorderRead \/ ReorderWrite))
    /\ WF_vars(ServerBack)
    /\ WF_vars(Reconnect)
    /\ \A s \in Sessions : WF_vars("close" \in Jobs /\ CloseRemove(s))

FairSpec == Spec /\ Fairness
-----------------------------------------------------------------------------
(* A closed session leaves Redis, unless Redis did not answer when it was  *)
(* removed, or a job held its row: the row is closed before it is removed, *)
(* so that no job can read it in between.                                  *)
NoUnexplainedGhosts ==
    \A s \in Sessions : closing[s] = "done" /\ InRedis(s) => s \in tainted

(* handleCheckConsistency and syncQueueToDatabase together: after an       *)
(* outage that ends in time, whatever Redis lost is put back, and once     *)
(* people stop closing and reordering, every waiting session's             *)
(* queuePosition is its rank in Redis and remains so.                      *)
PositionsSettle ==
    <>[](\A s \in Timed : status[s] = "QUEUED" => InRedis(s) /\ pos[s] = Rank(s))

(* Redis orders two entries by priority, unless one waits so much longer   *)
(* that its time outweighs the difference (115 days for one point).        *)
PriorityComesFirst ==
    \A r, s \in Timed :
        /\ InRedis(r) /\ InRedis(s) /\ Owner[r] = Owner[s]
        /\ zset[r] > zset[s] /\ zset[r] > 0
        /\ QueuedAt[r] < QueuedAt[s] + Weight
        => Rank(r) < Rank(s)

(* Among equal priorities, whoever waits longer is ahead.                  *)
LongestWaitingFirst ==
    \A r, s \in Timed :
        /\ InRedis(r) /\ InRedis(s) /\ Owner[r] = Owner[s]
        /\ zset[r] = zset[s]
        /\ QueuedAt[r] < QueuedAt[s] /\ QueuedAt[s] <= MaxTime
        => Rank(r) < Rank(s)

(* One number per session, calculateScore, keeps both orders at once.      *)
QueueOrder == PriorityComesFirst /\ LongestWaitingFirst
=============================================================================
