------------------------- MODULE SessionQueueProofs -------------------------
(***************************************************************************)
(* Theorems about SessionQueue: types, who may still be in Redis after its *)
(* close, and the order in which Redis serves the waiting sessions.        *)
(***************************************************************************)
EXTENDS SessionQueue, FiniteSetTheorems, TLAPS

(* A session is QUEUED until its handler closes it.                        *)
OpenIsQueued == \A s \in Sessions : closing[s] = "open" <=> status[s] = "QUEUED"

(* Only sessions with a queuedAt are scored.                               *)
OnlyTimed ==
    /\ \A s \in Sessions : InRedis(s) => s \in Timed
    /\ \A row \in Held : row[1] \in Timed

(* Once the handler has removed a session, neither Redis nor a job has it. *)
Gone ==
    \A s \in Sessions : closing[s] = "done" /\ s \notin tainted =>
        /\ ~InRedis(s)
        /\ \A p \in Prios : <<s, p>> \notin Held

IndInv == TypeOK /\ OpenIsQueued /\ OnlyTimed /\ Gone
-----------------------------------------------------------------------------
LEMMA RankIsNatural ==
    ASSUME NEW s \in Sessions
    PROVE  Rank(s) \in Nat
<1>. USE QueueAssumption
<1>. DEFINE A == {r \in Sessions : /\ Owner[r] = Owner[s]
                                   /\ InRedis(r)
                                   /\ r # s
                                   /\ AheadInRedis(r, s)}
<1>1. IsFiniteSet(A)
  BY FS_Subset
<1>2. Cardinality(A) \in Nat
  BY <1>1, FS_CardinalityType
<1>. QED  BY <1>2 DEF Rank

LEMMA PlaceIsNatural ==
    ASSUME NEW s \in Sessions
    PROVE  1 + Cardinality({r \in QueuedSessions : AheadInDatabase(r, s)}) \in Nat
<1>. USE QueueAssumption
<1>. DEFINE A == {r \in QueuedSessions : AheadInDatabase(r, s)}
<1>1. IsFiniteSet(A)
  BY FS_Subset DEF QueuedSessions
<1>. QED  BY <1>1, FS_CardinalityType
-----------------------------------------------------------------------------
(* Types.                                                                  *)
LEMMA TypeInit == Init => TypeOK
<1>. SUFFICES ASSUME Init PROVE TypeOK
  OBVIOUS
<1>1. zset \in [Sessions -> Prios \cup {Absent}]
  BY DEF Init
<1>2. /\ status \in [Sessions -> {"QUEUED", "CLOSED"}]
      /\ prio \in [Sessions -> Prios]
      /\ pos \in [Sessions -> Nat]
      /\ closing \in [Sessions -> {"open", "remove", "done"}]
  BY DEF Init
<1>3. /\ 0 \in 0..MaxReconnectAttempts
      /\ 0 \in 0..MaxOutages
      /\ 0 \in 0..MaxRestarts
      /\ 0 \in 0..MaxRecalculations
  BY QueueAssumption
<1>. QED  BY <1>1, <1>2, <1>3 DEF Init, TypeOK

LEMMA QueuedRowsType == TypeOK => QueuedRows \subseteq Rows
BY DEF TypeOK, QueuedRows, QueuedSessions, Rows, Timed

LEMMA TypeStep == TypeOK /\ [Next]_vars => TypeOK'
<1>. USE QueueAssumption DEF TypeOK
<1>. SUFFICES ASSUME TypeOK, [Next]_vars PROVE TypeOK'
  OBVIOUS
<1>1. ASSUME NEW s \in Sessions, CloseUpdate(s) PROVE TypeOK'
  BY <1>1 DEF CloseUpdate, redisVars, recoverVars, checkVars, syncVars,
              recalcVars, countVars
<1>2. ASSUME NEW s \in Sessions, CloseRemove(s) PROVE TypeOK'
  BY <1>2 DEF CloseRemove, Remove, rowVars, redisVars, recoverVars, checkVars,
              syncVars, recalcVars, countVars
<1>3. CASE RecoverRead
  BY <1>3, QueuedRowsType DEF RecoverRead, rowVars, redisVars, checkVars,
              syncVars, recalcVars, countVars
<1>4. CASE RecoverAdd
  BY <1>4 DEF RecoverAdd, Add, Rows, rowVars, redisVars, checkVars, syncVars,
              recalcVars, countVars
<1>5. CASE CheckRead
  BY <1>5, QueuedRowsType DEF CheckRead, rowVars, redisVars, recoverVars,
              syncVars, recalcVars, countVars
<1>6. CASE CheckLook
  BY <1>6 DEF CheckLook, rowVars, redisVars, recoverVars, syncVars,
              recalcVars, countVars
<1>7. CASE CheckAdd
  BY <1>7 DEF CheckAdd, Add, Rows, rowVars, redisVars, recoverVars, syncVars,
              recalcVars, countVars
<1>8. CASE SyncRead
  BY <1>8 DEF SyncRead, QueuedSessions, rowVars, redisVars, recoverVars,
              checkVars, recalcVars, countVars
<1>9. CASE SyncLook
  BY <1>9, RankIsNatural DEF SyncLook, rowVars, redisVars, recoverVars,
              checkVars, recalcVars, countVars
<1>10. CASE SyncWrite
  BY <1>10 DEF SyncWrite, redisVars, recoverVars, checkVars, recalcVars,
              countVars
<1>11. CASE RecalcRead
  BY <1>11 DEF RecalcRead, QueuedSessions, rowVars, redisVars, recoverVars,
              checkVars, syncVars, countVars
<1>12. CASE RecalcWrite
  BY <1>12 DEF RecalcWrite, redisVars, recoverVars, checkVars, syncVars,
              countVars
<1>13. CASE ReorderRead
  <2>. DEFINE Place(s) == 1 + Cardinality({r \in QueuedSessions : AheadInDatabase(r, s)})
  <2>a. reorder' = {<<s, Place(s)>> : s \in QueuedSessions}
    BY <1>13, Zenon DEF ReorderRead
  <2>b. \A s \in Sessions : Place(s) \in Nat
    BY PlaceIsNatural
  <2>c. QueuedSessions \subseteq Sessions
    BY DEF QueuedSessions
  <2>. HIDE DEF Place
  <2>1. reorder' \in SUBSET (Sessions \X Nat)
    BY <2>a, <2>b, <2>c
  <2>. QED  BY <2>1, <1>13 DEF ReorderRead, rowVars, redisVars, recoverVars,
              checkVars, syncVars, countVars
<1>14. CASE ReorderWrite
  BY <1>14 DEF ReorderWrite, redisVars, recoverVars, checkVars, syncVars,
              countVars
<1>15. CASE ServerDown
  <2>1. outages' \in 0..MaxOutages /\ client' \in {"up", "down", "ended"}
    BY <1>15 DEF ServerDown
  <2>. QED  BY <2>1, <1>15 DEF ServerDown, rowVars, recoverVars, checkVars,
              syncVars, recalcVars
<1>16. CASE ServerBack
  BY <1>16 DEF ServerBack, rowVars, recoverVars, checkVars, syncVars,
              recalcVars, countVars
<1>17. CASE Reconnect
  <2>1. attempts' \in 0..MaxReconnectAttempts /\ client' \in {"up", "down", "ended"}
    BY <1>17 DEF Reconnect
  <2>. QED  BY <2>1, <1>17 DEF Reconnect, rowVars, recoverVars, checkVars,
              syncVars, recalcVars, countVars
<1>18. CASE Restart
  <2>1. /\ closing' \in [Sessions -> {"open", "remove", "done"}]
        /\ tainted' \in SUBSET Sessions
    BY <1>18 DEF Restart
  <2>2. restarts' \in 0..MaxRestarts
    BY <1>18 DEF Restart
  <2>3. /\ client' \in {"up", "down", "ended"}
        /\ attempts' \in 0..MaxReconnectAttempts
    BY <1>18 DEF Restart
  <2>4. /\ booting' = TRUE
        /\ recover' = {} /\ check' = {} /\ missing' = {} /\ sync' = {} /\ found' = {}
        /\ recalc' = {} /\ reread' = FALSE /\ reorder' = {}
    BY <1>18 DEF Restart
  <2>5. /\ status' = status /\ prio' = prio /\ pos' = pos
        /\ zset' = zset /\ server' = server
        /\ outages' = outages /\ recalculations' = recalculations
    BY <1>18 DEF Restart, rowVars
  <2>. QED  BY <2>1, <2>2, <2>3, <2>4, <2>5
<1>19. CASE UNCHANGED vars
  BY <1>19 DEF vars, rowVars, redisVars, recoverVars, checkVars, syncVars,
              recalcVars, countVars
<1>. QED
  BY <1>1, <1>2, <1>3, <1>4, <1>5, <1>6, <1>7, <1>8, <1>9, <1>10, <1>11,
     <1>12, <1>13, <1>14, <1>15, <1>16, <1>17, <1>18, <1>19 DEF Next

(* Every reachable state is well typed: the rows, Redis, what the five     *)
(* jobs hold, and the count of attempts to reconnect, which stays within   *)
(* the limit retryStrategy sets.                                           *)
THEOREM QueueTypeCorrect == Spec => []TypeOK
<1>. QED  BY TypeInit, TypeStep, PTL DEF Spec
-----------------------------------------------------------------------------
(* Ghosts.                                                                 *)
LEMMA QueuedRowsAreOpen ==
    ASSUME TypeOK, OpenIsQueued
    PROVE  \A row \in QueuedRows : row[1] \in Timed /\ closing[row[1]] = "open"
BY DEF QueuedRows, QueuedSessions, OpenIsQueued, Timed

LEMMA IndInit == Init => OpenIsQueued /\ OnlyTimed /\ Gone
<1>. SUFFICES ASSUME Init PROVE OpenIsQueued /\ OnlyTimed /\ Gone
  OBVIOUS
<1>1. OpenIsQueued /\ Gone
  BY DEF Init, OpenIsQueued, Gone
<1>2. OnlyTimed
  BY QueueAssumption DEF Init, OnlyTimed, InRedis, Held, Timed
<1>. QED  BY <1>1, <1>2

(* Adding a row some job holds keeps both promises, because whoever is     *)
(* gone is held by nobody.                                                 *)
LEMMA AddHeld ==
    ASSUME IndInv, NEW row \in Held, Add(row), Held' \subseteq Held,
           UNCHANGED <<status, closing, tainted>>
    PROVE  OpenIsQueued' /\ OnlyTimed' /\ Gone'
<1>1. row[1] \in Sessions /\ row[2] \in Prios /\ row = <<row[1], row[2]>>
  BY DEF IndInv, TypeOK, Held, Rows
<1>2. OpenIsQueued'
  BY DEF IndInv, OpenIsQueued
<1>3. \A s \in Sessions : InRedis(s)' => InRedis(s) \/ s = row[1]
  BY <1>1 DEF Add, IndInv, TypeOK, InRedis
<1>4. OnlyTimed'
  BY <1>3 DEF IndInv, OnlyTimed, Timed
<1>5. Gone'
  <2>. SUFFICES ASSUME NEW s \in Sessions, closing[s] = "done", s \notin tainted
                PROVE  ~InRedis(s)' /\ \A p \in Prios : <<s, p>> \notin Held'
    BY DEF Gone
  <2>1. ~InRedis(s) /\ \A p \in Prios : <<s, p>> \notin Held
    BY DEF IndInv, Gone
  <2>2. s # row[1]
    BY <1>1, <2>1
  <2>. QED  BY <1>3, <2>1, <2>2
<1>. QED  BY <1>2, <1>4, <1>5

(* Steps that give the jobs no row and Redis no entry keep them too.       *)
LEMMA NothingGained ==
    ASSUME IndInv, Held' \subseteq Held,
           \A s \in Sessions : InRedis(s)' => InRedis(s),
           UNCHANGED <<status, closing, tainted>>
    PROVE  OpenIsQueued' /\ OnlyTimed' /\ Gone'
<1>1. OpenIsQueued'
  BY DEF IndInv, OpenIsQueued
<1>2. OnlyTimed'
  BY DEF IndInv, OnlyTimed, Timed
<1>3. Gone'
  BY DEF IndInv, Gone
<1>. QED  BY <1>1, <1>2, <1>3

(* Reading the QUEUED rows gives a job only rows of sessions still open.   *)
LEMMA RowsRead ==
    ASSUME IndInv, Held' \subseteq Held \cup QueuedRows,
           UNCHANGED <<status, closing, tainted, zset>>
    PROVE  OpenIsQueued' /\ OnlyTimed' /\ Gone'
<1>1. OpenIsQueued'
  BY DEF IndInv, OpenIsQueued
<1>2. \A row \in QueuedRows : row[1] \in Timed /\ closing[row[1]] = "open"
  BY QueuedRowsAreOpen DEF IndInv
<1>3. OnlyTimed'
  BY <1>2 DEF IndInv, OnlyTimed, Timed, InRedis
<1>4. Gone'
  BY <1>2 DEF IndInv, Gone, InRedis
<1>. QED  BY <1>1, <1>3, <1>4

LEMMA IndStep == IndInv /\ [Next]_vars => OpenIsQueued' /\ OnlyTimed' /\ Gone'
<1>. SUFFICES ASSUME IndInv, [Next]_vars PROVE OpenIsQueued' /\ OnlyTimed' /\ Gone'
  OBVIOUS
<1>1. ASSUME NEW s \in Sessions, CloseUpdate(s)
      PROVE  OpenIsQueued' /\ OnlyTimed' /\ Gone'
  <2>1. OpenIsQueued'
    BY <1>1 DEF CloseUpdate, IndInv, TypeOK, OpenIsQueued
  <2>2. OnlyTimed'
    BY <1>1 DEF CloseUpdate, IndInv, OnlyTimed, Timed, InRedis, Held, recoverVars, checkVars
  <2>3. Gone'
    BY <1>1 DEF CloseUpdate, IndInv, TypeOK, Gone, InRedis, Held, recoverVars, checkVars
  <2>. QED  BY <2>1, <2>2, <2>3
<1>2. ASSUME NEW s \in Sessions, CloseRemove(s)
      PROVE  OpenIsQueued' /\ OnlyTimed' /\ Gone'
  <2>1. Held' = Held
    BY <1>2 DEF CloseRemove, Held, recoverVars, checkVars
  <2>2. \A r \in Sessions : InRedis(r)' => InRedis(r)
    BY <1>2 DEF CloseRemove, Remove, IndInv, TypeOK, InRedis
  <2>3. OpenIsQueued'
    BY <1>2 DEF CloseRemove, IndInv, TypeOK, OpenIsQueued, rowVars
  <2>4. OnlyTimed'
    BY <2>1, <2>2 DEF IndInv, OnlyTimed, Timed
  <2>5. Gone'
    <3>. SUFFICES ASSUME NEW r \in Sessions, closing'[r] = "done", r \notin tainted'
                  PROVE  ~InRedis(r)' /\ \A p \in Prios : <<r, p>> \notin Held'
      BY DEF Gone
    <3>1. CASE r = s
      BY <1>2, <3>1, <2>1 DEF CloseRemove, Remove, IndInv, TypeOK, InRedis
    <3>2. CASE r # s
      <4>1. closing[r] = "done" /\ r \notin tainted
        BY <1>2, <3>2 DEF CloseRemove, IndInv, TypeOK
      <4>. QED  BY <4>1, <2>1, <2>2 DEF IndInv, Gone
    <3>. QED  BY <3>1, <3>2
  <2>. QED  BY <2>3, <2>4, <2>5
<1>3. CASE RecoverRead
  BY <1>3, RowsRead DEF RecoverRead, Held, rowVars, checkVars
<1>4. CASE RecoverAdd
  <2>1. PICK row \in recover : Add(row) /\ recover' = recover \ {row}
    BY <1>4 DEF RecoverAdd
  <2>2. row \in Held /\ Held' \subseteq Held
    BY <1>4, <2>1 DEF RecoverAdd, Held, checkVars
  <2>. QED  BY <1>4, <2>1, <2>2, AddHeld DEF RecoverAdd, rowVars
<1>5. CASE CheckRead
  BY <1>5, RowsRead DEF CheckRead, Held, rowVars, recoverVars
<1>6. CASE CheckLook
  <2>1. Held' \subseteq Held
    BY <1>6 DEF CheckLook, Held, recoverVars
  <2>. QED  BY <1>6, <2>1, NothingGained DEF CheckLook, InRedis, rowVars
<1>7. CASE CheckAdd
  <2>1. PICK row \in missing : Add(row)
    BY <1>7 DEF CheckAdd
  <2>2. row \in Held /\ Held' \subseteq Held
    BY <1>7, <2>1 DEF CheckAdd, Held, recoverVars
  <2>. QED  BY <1>7, <2>1, <2>2, AddHeld DEF CheckAdd, rowVars
<1>8. CASE SyncRead \/ SyncLook \/ SyncWrite
  <2>1. UNCHANGED <<status, closing, tainted, zset, recover, check, missing>>
    BY <1>8 DEF SyncRead, SyncLook, SyncWrite, rowVars, recoverVars, checkVars
  <2>. QED  BY <2>1, NothingGained DEF Held, InRedis
<1>9. CASE RecalcRead \/ RecalcWrite \/ ReorderRead \/ ReorderWrite
  <2>1. UNCHANGED <<status, closing, tainted, zset, recover, check, missing>>
    BY <1>9 DEF RecalcRead, RecalcWrite, ReorderRead, ReorderWrite, rowVars,
                recoverVars, checkVars
  <2>. QED  BY <2>1, NothingGained DEF Held, InRedis
<1>10. CASE ServerDown \/ ServerBack \/ Reconnect
  <2>1. UNCHANGED <<status, closing, tainted, recover, check, missing>>
    BY <1>10 DEF ServerDown, ServerBack, Reconnect, rowVars, recoverVars, checkVars
  <2>2. \A s \in Sessions : InRedis(s)' => InRedis(s)
    BY <1>10 DEF ServerDown, ServerBack, Reconnect, InRedis
  <2>. QED  BY <2>1, <2>2, NothingGained DEF Held
<1>11. CASE Restart
  <2>1. Held' = {} /\ zset' = zset
    BY <1>11 DEF Restart, Held
  <2>2. /\ closing' = [s \in Sessions |->
                          IF closing[s] = "remove" THEN "done" ELSE closing[s]]
        /\ tainted' = tainted \cup {s \in Sessions : closing[s] = "remove"}
        /\ status' = status
    BY <1>11 DEF Restart, rowVars
  <2>3. OpenIsQueued'
    BY <2>2 DEF IndInv, TypeOK, OpenIsQueued
  <2>4. OnlyTimed'
    BY <2>1 DEF IndInv, OnlyTimed, Timed, InRedis
  <2>5. Gone'
    BY <2>1, <2>2 DEF IndInv, Gone, InRedis
  <2>. QED  BY <2>3, <2>4, <2>5
<1>12. CASE UNCHANGED vars
  <2>1. UNCHANGED <<status, closing, tainted, zset, recover, check, missing>>
    BY <1>12 DEF vars, rowVars, recoverVars, checkVars
  <2>. QED  BY <2>1, NothingGained DEF Held, InRedis
<1>. QED
  BY <1>1, <1>2, <1>3, <1>4, <1>5, <1>6, <1>7, <1>8, <1>9, <1>10, <1>11,
     <1>12 DEF Next

(* The invariant the theorems below follow from is inductive.              *)
THEOREM QueueInductive == Spec => []IndInv
<1>1. Init => IndInv
  BY TypeInit, IndInit DEF IndInv
<1>2. IndInv /\ [Next]_vars => IndInv'
  BY TypeStep, IndStep DEF IndInv
<1>. QED  BY <1>1, <1>2, PTL DEF Spec

(* performCloseSession closes the row before it removes the session from   *)
(* Redis; so, however the recovery, the consistency check and restarts     *)
(* interleave, a closed session is in Redis only if Redis did not answer   *)
(* its removal or a job had read its row before.                           *)
THEOREM ClosedLeavesRedis == Spec => []NoUnexplainedGhosts
<1>1. IndInv => NoUnexplainedGhosts
  BY DEF IndInv, Gone, NoUnexplainedGhosts
<1>. QED  BY <1>1, QueueInductive, PTL
-----------------------------------------------------------------------------
(* Order.                                                                  *)
LEMMA ScoreIsInteger ==
    ASSUME NEW p \in Int, NEW t \in Nat
    PROVE  Score(p, t) \in Int
BY QueueAssumption DEF Score

(* One point of priority outweighs any wait shorter than Weight.           *)
LEMMA PriorityOutweighsTime ==
    ASSUME NEW p \in Int, NEW q \in Int, NEW t \in Nat, NEW u \in Nat,
           p > q, p > 0, t < u + Weight
    PROVE  Score(p, t) > Score(q, u)
<1>. DEFINE b  == IF q > 0 THEN q ELSE 0
            st == IF t > MaxTime THEN MaxTime ELSE t
            su == IF u > MaxTime THEN MaxTime ELSE u
<1>1. Weight \in Nat \ {0} /\ MaxTime \in Nat
  BY QueueAssumption
<1>2. Score(p, t) = p * Weight + (MaxTime - st) /\ Score(q, u) = b * Weight + (MaxTime - su)
  BY DEF Score
<1>3. b \in Nat /\ p >= b + 1
  OBVIOUS
<1>4. st \in Nat /\ su \in Nat /\ st < su + Weight
  BY <1>1
<1>. HIDE DEF b, st, su
<1>5. p * Weight >= b * Weight + Weight
  <2>1. PICK d \in Nat : p = b + 1 + d
    BY <1>3
  <2>2. p * Weight = b * Weight + Weight + d * Weight
    BY <1>1, <1>3, <2>1
  <2>3. d * Weight >= 0
    BY <1>1
  <2>4. p * Weight \in Int /\ b * Weight \in Int /\ d * Weight \in Int
    BY <1>1, <1>3
  <2>. QED  BY <1>1, <2>2, <2>3, <2>4
<1>6. p * Weight \in Int /\ b * Weight \in Int
  BY <1>1, <1>3
<1>. DEFINE pw == p * Weight
            bw == b * Weight
<1>. HIDE DEF pw, bw
<1>7. pw + (MaxTime - st) > bw + (MaxTime - su)
  BY <1>1, <1>4, <1>5, <1>6 DEF pw, bw
<1>. QED  BY <1>2, <1>7 DEF pw, bw

LEMMA EarlierScoresHigher ==
    ASSUME NEW p \in Int, NEW t \in Nat, NEW u \in Nat, t < u, u <= MaxTime
    PROVE  Score(p, t) > Score(p, u)
<1>1. MaxTime \in Nat /\ Weight \in Nat
  BY QueueAssumption
<1>. DEFINE pw == (IF p > 0 THEN p ELSE 0) * Weight
<1>2. pw \in Int
  BY <1>1
<1>3. Score(p, t) = pw + (MaxTime - t) /\ Score(p, u) = pw + (MaxTime - u)
  BY <1>1 DEF Score
<1>. HIDE DEF pw
<1>. QED  BY <1>1, <1>2, <1>3

(* Whoever scores higher has the smaller rank: all that are ahead of it    *)
(* are ahead of the other, and so is it.                                   *)
LEMMA HigherScoreRanksFirst ==
    ASSUME IndInv, NEW r \in Sessions, NEW s \in Sessions,
           InRedis(r), InRedis(s), Owner[r] = Owner[s],
           Score(zset[r], QueuedAt[r]) > Score(zset[s], QueuedAt[s])
    PROVE  Rank(r) < Rank(s)
<1>. DEFINE Sc(q) == Score(zset[q], QueuedAt[q])
            Ahead(x) == {q \in Sessions : /\ Owner[q] = Owner[x]
                                          /\ InRedis(q)
                                          /\ q # x
                                          /\ AheadInRedis(q, x)}
<1>1. \A q \in Sessions : InRedis(q) => Sc(q) \in Int
  <2>. SUFFICES ASSUME NEW q \in Sessions, InRedis(q) PROVE Sc(q) \in Int
    OBVIOUS
  <2>1. zset[q] \in Int
    BY QueueAssumption DEF IndInv, TypeOK, InRedis
  <2>2. QueuedAt[q] \in Nat
    BY QueueAssumption DEF IndInv, OnlyTimed, Timed
  <2>. QED  BY <2>1, <2>2, ScoreIsInteger
<1>2. \A q, x \in Sessions : AheadInRedis(q, x) <=> Sc(q) > Sc(x) \/ (Sc(q) = Sc(x) /\ q > x)
  BY DEF AheadInRedis
<1>3. Sc(r) > Sc(s)
  OBVIOUS
<1>. HIDE DEF Sc
<1>4. Ahead(r) \subseteq Ahead(s)
  BY <1>1, <1>2, <1>3
<1>5. r \in Ahead(s) /\ r \notin Ahead(r)
  BY <1>1, <1>2, <1>3
<1>6. IsFiniteSet(Ahead(s)) /\ IsFiniteSet(Ahead(r))
  BY FS_Subset, QueueAssumption
<1>. HIDE DEF Ahead
<1>7. Cardinality(Ahead(r)) \in Nat /\ Cardinality(Ahead(s)) \in Nat
  BY <1>6, FS_CardinalityType
<1>8. Cardinality(Ahead(r)) < Cardinality(Ahead(s))
  <2>1. Cardinality(Ahead(r)) <= Cardinality(Ahead(s))
    BY <1>4, <1>6, FS_Subset
  <2>2. Cardinality(Ahead(r)) # Cardinality(Ahead(s))
    BY <1>4, <1>5, <1>6, FS_Subset
  <2>. QED  BY <1>7, <2>1, <2>2
<1>9. Rank(r) = 1 + Cardinality(Ahead(r)) /\ Rank(s) = 1 + Cardinality(Ahead(s))
  BY Zenon DEF Rank, Ahead
<1>. QED  BY <1>7, <1>8, <1>9

(* calculateScore puts priority and waiting time in one number; the order  *)
(* of every queue is the order of priorities all the same, for any weights *)
(* and times as long as the waits differ by less than the weight.          *)
THEOREM HigherPriorityFirst == Spec => []PriorityComesFirst
<1>1. IndInv => PriorityComesFirst
  <2>. SUFFICES ASSUME IndInv, NEW r \in Timed, NEW s \in Timed,
                       InRedis(r), InRedis(s), Owner[r] = Owner[s],
                       zset[r] > zset[s], zset[r] > 0,
                       QueuedAt[r] < QueuedAt[s] + Weight
                PROVE  Rank(r) < Rank(s)
    BY DEF PriorityComesFirst
  <2>1. r \in Sessions /\ s \in Sessions
    BY DEF Timed
  <2>2. QueuedAt[r] \in Nat /\ QueuedAt[s] \in Nat
    BY <2>1, QueueAssumption DEF Timed
  <2>3. zset[r] \in Int /\ zset[s] \in Int
    BY <2>1, QueueAssumption DEF IndInv, TypeOK, InRedis
  <2>4. Score(zset[r], QueuedAt[r]) > Score(zset[s], QueuedAt[s])
    BY <2>2, <2>3, PriorityOutweighsTime
  <2>. QED  BY <2>1, <2>4, HigherScoreRanksFirst
<1>. QED  BY <1>1, QueueInductive, PTL

(* Among equal priorities every queue serves whoever waits longest.        *)
THEOREM FirstComeFirstServed == Spec => []LongestWaitingFirst
<1>1. IndInv => LongestWaitingFirst
  <2>. SUFFICES ASSUME IndInv, NEW r \in Timed, NEW s \in Timed,
                       InRedis(r), InRedis(s), Owner[r] = Owner[s],
                       zset[r] = zset[s],
                       QueuedAt[r] < QueuedAt[s], QueuedAt[s] <= MaxTime
                PROVE  Rank(r) < Rank(s)
    BY DEF LongestWaitingFirst
  <2>1. r \in Sessions /\ s \in Sessions
    BY DEF Timed
  <2>2. QueuedAt[r] \in Nat /\ QueuedAt[s] \in Nat
    BY <2>1, QueueAssumption DEF Timed
  <2>3. zset[r] \in Int
    BY <2>1, QueueAssumption DEF IndInv, TypeOK, InRedis
  <2>4. Score(zset[r], QueuedAt[r]) > Score(zset[s], QueuedAt[s])
    BY <2>2, <2>3, EarlierScoresHigher
  <2>. QED  BY <2>1, <2>4, HigherScoreRanksFirst
<1>. QED  BY <1>1, QueueInductive, PTL

(* The one score of calculateScore keeps priority before waiting time and  *)
(* waiting time within a priority, in every queue and at every moment.     *)
THEOREM QueueIsOrdered == Spec => []QueueOrder
<1>1. PriorityComesFirst /\ LongestWaitingFirst => QueueOrder
  BY DEF QueueOrder
<1>. QED  BY <1>1, HigherPriorityFirst, FirstComeFirstServed, PTL
=============================================================================
