-------------------------- MODULE ReadThroughCache --------------------------
(***************************************************************************)
(* The cache in front of games, servers and issue types:                   *)
(* src/common/cache, used by src/game, src/issue-type, src/urgency-rule.   *)
(*                                                                         *)
(* A reader asks Redis, joins a load of the same key that is in progress,  *)
(* or loads from the database and stores what it found.  A writer changes  *)
(* the database and then deletes the keys, all at once or, by prefix, key  *)
(* by key as SCAN meets them.  Cached lists all depend on every row, so    *)
(* one version number stands for the contents of the database.             *)
(***************************************************************************)
EXTENDS Integers

CONSTANTS
    CacheKeys,
    CacheReaders,
    CacheWriters,
    MaxVersion     (* bound on the changes                                 *)

ASSUME CacheAssumption == MaxVersion \in Nat /\ CacheKeys # {}

VARIABLES
    version,       (* the database                                         *)
    cached,        (* version a key holds, 0 for none                      *)
    loads,         (* inflight, by key                                     *)
    readers,       (* getOrSet in progress                                 *)
    writers,       (* the keys a writer still has to delete                *)
    overtaken      (* history: keys stored late or not deleted by an error *)

cacheVars == <<version, cached, loads, readers, writers, overtaken>>

NotReading == [phase |-> "none", key |-> CHOOSE k \in CacheKeys : TRUE]

CacheTypeOK ==
    /\ version \in 1..(MaxVersion + 1)
    /\ cached \in [CacheKeys -> 0..version]
    /\ loads \in [CacheKeys -> [phase : {"none", "load", "store"}, value : 0..version]]
    /\ readers \in [CacheReaders -> [phase : {"none", "get", "wait"}, key : CacheKeys]]
    /\ writers \in [CacheWriters -> SUBSET CacheKeys]
    /\ overtaken \subseteq CacheKeys

CacheInit ==
    /\ version = 1
    /\ cached = [k \in CacheKeys |-> 0]
    /\ loads = [k \in CacheKeys |-> [phase |-> "none", value |-> 0]]
    /\ readers = [r \in CacheReaders |-> NotReading]
    /\ writers = [w \in CacheWriters |-> {}]
    /\ overtaken = {}

Pending(k) == \E w \in CacheWriters : k \in writers[w]

Forget(keys) ==
    /\ cached' = [k \in CacheKeys |-> IF k \in keys THEN 0 ELSE cached[k]]
    /\ overtaken' = overtaken \ keys
-----------------------------------------------------------------------------
AskCache(r) ==
    /\ readers[r].phase = "none"
    /\ \E k \in CacheKeys : readers' = [readers EXCEPT ![r] = [phase |-> "get", key |-> k]]
    /\ UNCHANGED <<version, cached, loads, writers, overtaken>>

CacheHit(r) ==
    /\ readers[r].phase = "get" /\ cached[readers[r].key] # 0
    /\ readers' = [readers EXCEPT ![r] = NotReading]
    /\ UNCHANGED <<version, cached, loads, writers, overtaken>>

(* A miss, or Redis does not answer: inflight is looked at after the       *)
(* answer, so that one load serves all who wait.                           *)
CacheMiss(r) ==
    /\ readers[r].phase = "get"
    /\ readers' = [readers EXCEPT ![r].phase = "wait"]
    /\ LET k == readers[r].key
       IN  loads' = IF loads[k].phase = "none"
                    THEN [loads EXCEPT ![k] = [phase |-> "load", value |-> 0]] ELSE loads
    /\ UNCHANGED <<version, cached, writers, overtaken>>

Load(k) ==
    /\ loads[k].phase = "load"
    /\ loads' = [loads EXCEPT ![k] = [phase |-> "store", value |-> version]]
    /\ UNCHANGED <<version, cached, readers, writers, overtaken>>

(* The promise settles: its entry is removed and all who wait are served.  *)
Settle(k) ==
    /\ loads' = [loads EXCEPT ![k] = [phase |-> "none", value |-> 0]]
    /\ readers' = [r \in CacheReaders |-> IF readers[r] = [phase |-> "wait", key |-> k]
                                          THEN NotReading ELSE readers[r]]

Store(k) ==
    /\ loads[k].phase = "store"
    /\ cached' = [cached EXCEPT ![k] = loads[k].value]
    /\ overtaken' = IF loads[k].value = version \/ Pending(k)
                    THEN overtaken \ {k} ELSE overtaken \cup {k}
    /\ Settle(k)
    /\ UNCHANGED <<version, writers>>

(* The loader throws, or Redis refuses the value (which is only logged).   *)
StoreNothing(k) ==
    /\ loads[k].phase # "none"
    /\ Settle(k)
    /\ UNCHANGED <<version, cached, writers, overtaken>>

ExpireKey(k) ==
    /\ cached[k] # 0
    /\ Forget({k})
    /\ UNCHANGED <<version, loads, readers, writers>>
-----------------------------------------------------------------------------
(* create, update, toggle, remove: the database first.                     *)
UpdateRow(w) ==
    /\ writers[w] = {} /\ version <= MaxVersion
    /\ version' = version + 1
    /\ writers' = [writers EXCEPT ![w] = CacheKeys]
    /\ UNCHANGED <<cached, loads, readers, overtaken>>

(* Mutant: a key at a time, and the last is left out.                      *)
DeleteKeysButOne(w) ==
    \E keys \in SUBSET writers[w] \ {{}} :
       /\ Forget(keys)
       /\ writers' = [writers EXCEPT ![w] = {}]
       /\ UNCHANGED <<version, loads, readers>>

(* delMany deletes all its keys; delByPrefix those of the next SCAN call,  *)
(* and does not look again at what it has passed.                          *)
DeleteKeys(w) ==
    \E keys \in SUBSET writers[w] \ {{}} :
       /\ Forget(keys)
       /\ writers' = [writers EXCEPT ![w] = @ \ keys]
       /\ UNCHANGED <<version, loads, readers>>

(* Redis refuses: this is logged, and the keys that are left stay.         *)
DeleteFails(w) ==
    /\ writers[w] # {}
    /\ writers' = [writers EXCEPT ![w] = {}]
    /\ overtaken' = overtaken \cup {k \in writers[w] : cached[k] # 0}
    /\ UNCHANGED <<version, cached, loads, readers>>

CacheNext ==
    \/ \E r \in CacheReaders : AskCache(r) \/ CacheHit(r) \/ CacheMiss(r)
    \/ \E k \in CacheKeys : Load(k) \/ Store(k) \/ StoreNothing(k) \/ ExpireKey(k)
    \/ \E w \in CacheWriters : UpdateRow(w) \/ DeleteKeys(w) \/ DeleteFails(w)

CacheSpec == CacheInit /\ [][CacheNext]_cacheVars
-----------------------------------------------------------------------------
(* A key holds an old answer only while a writer is about to delete it,    *)
(* or because a load that began before the change stored after the         *)
(* deletion, or because Redis refused the deletion; then until it expires  *)
(* (getOrSet, delMany, delByPrefix).                                       *)
OldAnswersAreExplained ==
    \A k \in CacheKeys : cached[k] \in {0, version} \/ Pending(k) \/ k \in overtaken
=============================================================================
