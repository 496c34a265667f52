--------------------------- MODULE MCSessionQueue ---------------------------
(***************************************************************************)
(* Instances of SessionQueue for TLC, and what comments of the repository  *)
(* say that the code does not do.                                          *)
(***************************************************************************)
EXTENDS SessionQueue, TLC

CONSTANT a1

(* Both wait in the queue of one agent, where ranks matter.                *)
MCOwner == [s \in Sessions |-> a1]

(* 1 came first; the difference is less than the weight of a priority.     *)
MCQueuedAt == [s \in Sessions |-> IF s = 1 THEN 2 ELSE 5]

(* What may happen to rows that stay QUEUED, for the run about them: the   *)
(* jobs, a recalculation and an outage, but no close and no restart.       *)
LiveNext ==
    \/ CheckRead \/ CheckLook \/ CheckAdd
    \/ SyncRead \/ SyncLook \/ SyncWrite
    \/ RecalcRead \/ RecalcWrite \/ ReorderRead \/ ReorderWrite
    \/ ServerDown \/ ServerBack \/ Reconnect

LiveSpec == Init /\ [][LiveNext]_vars /\ Fairness

(* queue.service.ts: what could not be added now is restored by the        *)
(* consistency check.  After an outage longer than the attempts to         *)
(* reconnect, no check restores anything any more.                         *)
RestoredAtConsistencyCheck ==
    \A s \in Timed : (status[s] = "QUEUED" /\ ~InRedis(s))
                        ~> (InRedis(s) \/ status[s] = "CLOSED")
=============================================================================
