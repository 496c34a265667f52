--------------------------- MODULE CircuitBreaker ---------------------------
(***************************************************************************)
(* The breaker that silences the log while requests are refused with 429:  *)
(* src/common/logger/rate-limit-circuit-breaker.service.ts, used by        *)
(* src/common/filters/http-exception.filter.ts.                            *)
(*                                                                         *)
(* Refusals are counted in Redis, in a key that expires a window after its *)
(* first increment; the expiry is a call of its own.  Without Redis the    *)
(* process counts for itself.  Time passes in ticks, also between the      *)
(* calls of a refusal.  The client sends a command again when the          *)
(* connection breaks before the answer, although Redis may have executed   *)
(* it; after three times it gives up and the call fails.                   *)
(***************************************************************************)
EXTENDS Integers

CONSTANTS
    Refusals,    (* 429 answers being given at the same time               *)
    Threshold,   (* refusals that open the circuit: 5                      *)
    Window,      (* ticks in which they are counted: 60 s                  *)
    Cooldown     (* ticks the circuit stays open: 300 s                    *)

ASSUME BreakerAssumption ==
    /\ {Threshold, Window, Cooldown} \subseteq Nat \ {0}
    /\ Threshold > 1

VARIABLES
    redisReady,  (* is the Redis client ready                              *)
    counter,     (* the counter key: its value and the ticks it has left;  *)
                 (* history: is it spoilt, see OpensForAReason             *)
    circuit,     (* the circuit key: the ticks it has left, and those since*)
                 (* the time written in it                                 *)
    ownCount,    (* the counter of the process and its own circuit;        *)
                 (* history: was a refusal counted in it late              *)
    refusal,     (* record429Error and isCircuitOpen in progress: the call *)
                 (* to make, the reply to INCR while it matters, the ticks *)
                 (* since the refusal                                      *)
    recent       (* history: how many refusals are at most so many ticks   *)
                 (* old, up to Threshold                                   *)

breakerVars == <<redisReady, counter, circuit, ownCount, refusal, recent>>

Endless == Window + 1   (* a key without expiry *)
Capped(n, top) == IF n <= top THEN n ELSE top

Steps == {"none", "incr", "expire", "set", "check", "del_circuit", "del_counter"}

NoCounter    == [value |-> 0, left |-> 0, spoilt |-> FALSE]
NoCircuit    == [left |-> 0, age |-> 0]
ClosedMemory == [count |-> 0, age |-> 0, open |-> FALSE, openAge |-> 0, late |-> FALSE]
NoRefusal    == [step |-> "none", count |-> 0, age |-> 0]

BreakerTypeOK ==
    /\ redisReady \in BOOLEAN
    /\ counter \in [value : 0..Threshold, left : 0..Endless, spoilt : BOOLEAN]
    /\ circuit \in [left : 0..Cooldown, age : 0..Cooldown]
    /\ ownCount \in [count : 0..Threshold, age : 0..(Window + 1),
                     open : BOOLEAN, openAge : 0..Cooldown, late : BOOLEAN]
    /\ refusal \in [Refusals -> [step : Steps, count : 0..Threshold, age : 0..Cooldown]]
    /\ recent \in [0..Window -> 0..Threshold]

BreakerInit ==
    /\ redisReady = TRUE
    /\ counter = NoCounter
    /\ circuit = NoCircuit
    /\ ownCount = ClosedMemory
    /\ refusal = [r \in Refusals |-> NoRefusal]
    /\ recent = [k \in 0..Window |-> 0]
-----------------------------------------------------------------------------
At(r, step)   == refusal[r].step = step
Late(r)       == refusal[r].age > 0
Goto(r, step) == refusal' = [refusal EXCEPT ![r].step = step, ![r].count = 0]
Done(r)       == refusal' = [refusal EXCEPT ![r] = NoRefusal]

(* A command whose answer is lost is sent again.                           *)
Again == UNCHANGED refusal

Counted == recent' = [k \in 0..Window |-> Capped(recent[k] + 1, Threshold)]

(* record429ErrorMemory                                                    *)
RecordInMemory(late) ==
    LET fresh == ownCount.age > Window
        count == Capped(IF fresh THEN 1 ELSE ownCount.count + 1, Threshold)
    IN  ownCount' = [count   |-> count,
                     age     |-> IF fresh THEN 0 ELSE ownCount.age,
                     open    |-> ownCount.open \/ count >= Threshold,
                     openAge |-> IF count >= Threshold THEN 0 ELSE ownCount.openAge,
                     late    |-> late \/ (~fresh /\ ownCount.late)]

(* Mutant: every refusal gives the counter a new window.                   *)
ExpiryIsDueAlways(count) == TRUE

(* The first increment creates the key.                                    *)
ExpiryIsDue(count) == count = 1

After(count) == IF count >= Threshold THEN "set" ELSE "check"

(* record429Error begins.                                                  *)
RefuseWithRedis(r) ==
    /\ At(r, "none") /\ redisReady
    /\ Counted
    /\ Goto(r, "incr")
    /\ UNCHANGED <<redisReady, counter, circuit, ownCount>>

RefuseWithoutRedis(r) ==
    /\ At(r, "none") /\ ~redisReady
    /\ Counted
    /\ RecordInMemory(FALSE)
    /\ Goto(r, "check")
    /\ UNCHANGED <<redisReady, counter, circuit>>

(* INCR.  A command sent again counts the refusal a second time, and if it *)
(* is not told 1 nobody sets the expiry.                                   *)
Increment(r, answered) ==
    /\ At(r, "incr")
    /\ LET count == Capped(counter.value + 1, Threshold)
       IN  /\ counter' = [value  |-> count,
                          left   |-> IF counter.value = 0 THEN Endless ELSE counter.left,
                          spoilt |-> counter.spoilt \/ ~answered \/ Late(r)]
           /\ \/ ~answered /\ Again
              \/ /\ answered /\ ExpiryIsDue(count)
                 /\ refusal' = [refusal EXCEPT ![r].step = "expire", ![r].count = count]
              \/ answered /\ ~ExpiryIsDue(count) /\ Goto(r, After(count))
    /\ UNCHANGED <<redisReady, circuit, ownCount, recent>>

(* PEXPIRE; the key may have been deleted since, or be another one.        *)
ExpireCounter(r, answered) ==
    /\ At(r, "expire")
    /\ counter' = IF counter.value = 0 THEN counter
                  ELSE [counter EXCEPT !.left = Window,
                           !.spoilt = @ \/ (Late(r) /\ counter.left < Window)]
    /\ IF answered THEN Goto(r, After(refusal[r].count)) ELSE Again
    /\ UNCHANGED <<redisReady, circuit, ownCount, recent>>

(* SET ... PX; the time written is that of the refusal, not of the call.   *)
OpenCircuit(r, answered) ==
    /\ At(r, "set")
    /\ circuit' = [left |-> Cooldown, age |-> refusal[r].age]
    /\ IF answered THEN Goto(r, "check") ELSE Again
    /\ UNCHANGED <<redisReady, counter, ownCount, recent>>

(* A call of Redis fails: the refusal is recorded in memory instead.       *)
RecordFails(r) ==
    /\ refusal[r].step \in {"incr", "expire", "set"}
    /\ RecordInMemory(Late(r))
    /\ Goto(r, "check")
    /\ UNCHANGED <<redisReady, counter, circuit, recent>>
-----------------------------------------------------------------------------
(* isCircuitOpenMemory closes a circuit that has expired.                  *)
CheckInMemory(r) ==
    /\ ownCount' = IF ownCount.open /\ ownCount.openAge >= Cooldown THEN ClosedMemory
                                                                    ELSE ownCount
    /\ Done(r)
    /\ UNCHANGED <<redisReady, counter, circuit, recent>>

(* isCircuitOpen, which decides between a short line in the log and a full *)
(* one: GET finds no mark, or a mark that counts, or one older than the    *)
(* cooldown; without Redis, or when GET fails, the process asks itself.    *)
CheckCircuit(r) ==
    /\ At(r, "check")
    /\ \/ CheckInMemory(r)
       \/ /\ redisReady
          /\ IF circuit.left > 0 /\ circuit.age >= Cooldown THEN Goto(r, "del_circuit")
                                                            ELSE Done(r)
          /\ UNCHANGED <<redisReady, counter, circuit, ownCount, recent>>

(* The two DELs, of whatever is there by now.                              *)
DeleteCircuit(r, answered) ==
    /\ At(r, "del_circuit")
    /\ circuit' = NoCircuit
    /\ IF answered THEN Goto(r, "del_counter") ELSE Again
    /\ UNCHANGED <<redisReady, counter, ownCount, recent>>

DeleteCounter(r, answered) ==
    /\ At(r, "del_counter")
    /\ counter' = NoCounter
    /\ IF answered THEN Done(r) ELSE Again
    /\ UNCHANGED <<redisReady, circuit, ownCount, recent>>

DeletionFails(r) ==
    /\ refusal[r].step \in {"del_circuit", "del_counter"}
    /\ CheckInMemory(r)
-----------------------------------------------------------------------------
(* The process dies with its memory, between any two calls.                *)
CrashRefusals ==
    /\ \E r \in Refusals : ~At(r, "none")
    /\ refusal' = [r \in Refusals |-> NoRefusal]
    /\ ownCount' = ClosedMemory
    /\ UNCHANGED <<redisReady, counter, circuit, recent>>

RedisComesOrGoes ==
    /\ redisReady' = ~redisReady
    /\ UNCHANGED <<counter, circuit, ownCount, refusal, recent>>

(* A tick that finds the counter without expiry spoils it.                 *)
BreakerTick ==
    /\ counter' = CASE counter.left = Endless  -> [counter EXCEPT !.spoilt = TRUE]
                    [] counter.left \in {0, 1} -> NoCounter
                    [] OTHER                   -> [counter EXCEPT !.left = @ - 1]
    /\ circuit' = IF circuit.left <= 1 THEN NoCircuit
                  ELSE [left |-> circuit.left - 1, age |-> Capped(circuit.age + 1, Cooldown)]
    /\ ownCount' = [ownCount EXCEPT !.age = Capped(@ + 1, Window + 1),
                       !.openAge = IF ownCount.open THEN Capped(@ + 1, Cooldown) ELSE 0]
    /\ refusal' = [r \in Refusals |->
                      IF At(r, "none") THEN NoRefusal
                      ELSE [refusal[r] EXCEPT !.age = Capped(@ + 1, Cooldown)]]
    /\ recent' = [k \in 0..Window |-> IF k = 0 THEN 0 ELSE recent[k - 1]]
    /\ UNCHANGED redisReady

Refusal(r) ==
    \/ RefuseWithRedis(r) \/ RefuseWithoutRedis(r)
    \/ \E answered \in BOOLEAN :
          \/ Increment(r, answered) \/ ExpireCounter(r, answered) \/ OpenCircuit(r, answered)
          \/ DeleteCircuit(r, answered) \/ DeleteCounter(r, answered)
    \/ RecordFails(r) \/ CheckCircuit(r) \/ DeletionFails(r)

BreakerNext ==
    \/ \E r \in Refusals : Refusal(r)
    \/ CrashRefusals \/ RedisComesOrGoes \/ BreakerTick

BreakerSpec == BreakerInit /\ [][BreakerNext]_breakerVars
-----------------------------------------------------------------------------
(* "Reaching the threshold within the window opens the circuit": a refusal *)
(* goes on to SET the circuit, or opens the one in memory, only when so    *)
(* many refusals were given within a window (record429Error).  Otherwise   *)
(* the counter is spoilt: the reply to an INCR was lost, so that the       *)
(* client counted it again; an INCR came in a later tick than its refusal; *)
(* the expiry was not set in the tick in which the key was created (it     *)
(* came late, or never); or the PEXPIRE of an earlier key gave this one    *)
(* more time.  And a refusal recorded in memory after Redis has failed may *)
(* be late there.  Nothing else lets fewer refusals open the circuit.      *)
InWindow == recent[Window] >= Threshold

OpensForAReason ==
    [][/\ \A r \in Refusals : ~At(r, "set") /\ At(r, "set")' => InWindow \/ counter'.spoilt
       /\ ownCount'.open /\ ~ownCount.open => InWindow' \/ ownCount'.late]_breakerVars
=============================================================================
