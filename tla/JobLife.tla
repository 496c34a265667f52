------------------------------ MODULE JobLife ------------------------------
(***************************************************************************)
(* What a user may rely on about work done in the background, whatever it  *)
(* consists of: a job is queued, runs, and ends once, with a result or     *)
(* without; a result appears only at that moment and never changes; a job  *)
(* that was removed does not come back.                                    *)
(***************************************************************************)
CONSTANT Jobs
VARIABLES state, result     (* result[j] is empty or holds what j produced *)

vars == <<state, result>>

Init == state = [j \in Jobs |-> "none"] /\ result = [j \in Jobs |-> {}]

To(j, s) == state' = [state EXCEPT ![j] = s]

Submit(j) ==
    /\ state[j] = "none"
    /\ To(j, "queued") \/ To(j, "running")
    /\ UNCHANGED result

Start(j) == state[j] = "queued" /\ To(j, "running") /\ UNCHANGED result

Finish(j) ==
    /\ state[j] = "running"
    /\ To(j, "done")
    /\ result'[j] # {}
    /\ result' = [result EXCEPT ![j] = result'[j]]

Fail(j) == state[j] = "running" /\ To(j, "failed") /\ UNCHANGED result

(* Removed by the user, or forgotten with the process that held them.      *)
Remove(gone) ==
    /\ gone # {}
    /\ \A j \in gone : state[j] # "none"
    /\ state' = [j \in Jobs |-> IF j \in gone THEN "gone" ELSE state[j]]
    /\ result' = [j \in Jobs |-> IF j \in gone THEN {} ELSE result[j]]

Next ==
    \/ \E j \in Jobs : Submit(j) \/ Start(j) \/ Finish(j) \/ Fail(j)
    \/ \E gone \in SUBSET Jobs : Remove(gone)

Spec == Init /\ [][Next]_vars
=============================================================================
