---------------------- MODULE ProcessRegistry_proofs ----------------------
(***************************************************************************)
(* Theorems about ProcessRegistry, for every set of calls, of specs and of *)
(* inputs. The invariant is proved action by action, one conjunct at a     *)
(* time.                                                                   *)
(***************************************************************************)
EXTENDS ProcessRegistry, TLAPS

(* A call that has not spawned names no entry and no process, and a spawn  *)
(* that failed leaves no process that was not told to terminate.           *)
Unspawned ==
  \A c \in Calls :
    /\ pc[c] \in {"idle", "settling", "exiting"} => stage[c] = "none"
    /\ stage[c] = "none" => child[c] = "none"
    /\ stage[c] = "failed" => child[c] # "running"

(* Nothing has signalled the child of the cached entry. *)
CachedAlive ==
  cached # None => /\ stage[cached] \notin {"none", "failed"}
                   /\ child[cached] \in {"running", "dead"}

(* An entry under eviction is another than the cached one, and was spawned *)
(* by a call with another spec than the evicting one's.                    *)
EvictedGone ==
  \A c \in Calls : pc[c] \in {"settling", "exiting"} =>
    /\ target[c] \in Calls /\ target[c] # cached
    /\ stage[target[c]] # "none"
    /\ want[target[c]] # want[c]

(* shutdown() signals only what it has taken out of the cache. *)
VictimsGone ==
  /\ shut = "no" => victims = {}
  /\ \A e \in victims : e # cached /\ stage[e] # "none"

(* Without drift a running child is the cached one until shutdown(), and   *)
(* the only one after it.                                                  *)
OnlyCachedRuns ==
  ~Drift =>
    /\ \A d, e \in Calls : child[d] = "running" /\ child[e] = "running" => d = e
    /\ shut = "no" => \A e \in Calls : child[e] = "running" => cached = e

IInv == /\ TypeOK /\ Unspawned /\ CachedAlive /\ EvictedGone
        /\ VictimsGone /\ RecordsLive /\ OnlyCachedRuns

(* The initial states satisfy the invariant. *)
LEMMA InvInit == Init => IInv
BY RegistryAssumption DEF Init, IInv, TypeOK, Unspawned, CachedAlive, EvictedGone, VictimsGone,
   RecordsLive, OnlyCachedRuns, Alive, Known

(* Refuse keeps the invariant. *)
LEMMA RefuseKeeps ==
  ASSUME IInv, NEW c \in Calls, Refuse(c)
  PROVE  IInv'
<1> USE RegistryAssumption DEF IInv, Refuse
<1>1. TypeOK'
  BY DEF TypeOK, Begin, disposed
<1>2. Unspawned'
  BY DEF TypeOK, Unspawned, EvictedGone, Begin, disposed
<1>3. CachedAlive'
  BY DEF TypeOK, Unspawned, CachedAlive, EvictedGone, VictimsGone, Begin, disposed
<1>4. EvictedGone'
  BY DEF TypeOK, Unspawned, CachedAlive, EvictedGone, Begin, disposed
<1>5. VictimsGone'
  BY DEF TypeOK, Unspawned, VictimsGone, CachedAlive, Begin, disposed
<1>6. RecordsLive'
  BY DEF TypeOK, Unspawned, CachedAlive, EvictedGone, VictimsGone, RecordsLive, Begin, disposed
<1>7. OnlyCachedRuns'
  BY DEF TypeOK, Unspawned, CachedAlive, EvictedGone, VictimsGone, OnlyCachedRuns, Drift, Begin, disposed
<1> QED BY <1>1, <1>2, <1>3, <1>4, <1>5, <1>6, <1>7

(* Join keeps the invariant. *)
LEMMA JoinKeeps ==
  ASSUME IInv, NEW c \in Calls, Join(c)
  PROVE  IInv'
<1> USE RegistryAssumption DEF IInv, Join
<1>1. TypeOK'
  BY DEF TypeOK, Begin, disposed
<1>2. Unspawned'
  BY DEF TypeOK, Unspawned, EvictedGone, Begin, disposed
<1>3. CachedAlive'
  BY DEF TypeOK, Unspawned, CachedAlive, EvictedGone, VictimsGone, Begin, disposed
<1>4. EvictedGone'
  BY DEF TypeOK, Unspawned, CachedAlive, EvictedGone, Begin, disposed
<1>5. VictimsGone'
  BY DEF TypeOK, Unspawned, VictimsGone, CachedAlive, Begin, disposed
<1>6. RecordsLive'
  BY DEF TypeOK, Unspawned, CachedAlive, EvictedGone, VictimsGone, RecordsLive, Begin, disposed
<1>7. OnlyCachedRuns'
  BY DEF TypeOK, Unspawned, CachedAlive, EvictedGone, VictimsGone, OnlyCachedRuns, Drift, Begin, disposed
<1> QED BY <1>1, <1>2, <1>3, <1>4, <1>5, <1>6, <1>7

(* FirstSpawn keeps the invariant. *)
LEMMA FirstSpawnKeeps ==
  ASSUME IInv, NEW c \in Calls, FirstSpawn(c)
  PROVE  IInv'
<1> USE RegistryAssumption DEF IInv, FirstSpawn
<1>1. TypeOK'
  BY DEF TypeOK, Begin, disposed, Spawn, SpawnThrows, Alive, Known
<1>2. Unspawned'
  BY DEF TypeOK, Unspawned, EvictedGone, Begin, disposed, Spawn, SpawnThrows
<1>3. CachedAlive'
  BY DEF TypeOK, Unspawned, CachedAlive, EvictedGone, VictimsGone, Begin, disposed, Spawn, SpawnThrows
<1>4. EvictedGone'
  BY DEF TypeOK, Unspawned, CachedAlive, EvictedGone, Begin, disposed, Spawn, SpawnThrows
<1>5. VictimsGone'
  BY DEF TypeOK, Unspawned, VictimsGone, CachedAlive, Begin, disposed, Spawn, SpawnThrows
<1>6. RecordsLive'
  BY DEF TypeOK, Unspawned, CachedAlive, EvictedGone, VictimsGone, RecordsLive, Begin, disposed, Spawn, SpawnThrows
<1>7. OnlyCachedRuns'
  BY DEF TypeOK, Unspawned, CachedAlive, EvictedGone, VictimsGone, OnlyCachedRuns, Drift, Begin, disposed, Spawn, SpawnThrows
<1> QED BY <1>1, <1>2, <1>3, <1>4, <1>5, <1>6, <1>7

(* Evict keeps the invariant. *)
LEMMA EvictKeeps ==
  ASSUME IInv, NEW c \in Calls, Evict(c)
  PROVE  IInv'
<1> USE RegistryAssumption DEF IInv, Evict
<1>1. TypeOK'
  BY DEF TypeOK, Begin, disposed
<1>2. Unspawned'
  BY DEF TypeOK, Unspawned, EvictedGone, Begin, disposed
<1>3. CachedAlive'
  BY DEF TypeOK, Unspawned, CachedAlive, EvictedGone, VictimsGone, Begin, disposed
<1>4. EvictedGone'
  BY DEF TypeOK, Unspawned, CachedAlive, EvictedGone, Begin, disposed
<1>5. VictimsGone'
  BY DEF TypeOK, Unspawned, VictimsGone, CachedAlive, Begin, disposed
<1>6. RecordsLive'
  BY DEF TypeOK, Unspawned, CachedAlive, EvictedGone, VictimsGone, RecordsLive, Begin, disposed
<1>7. OnlyCachedRuns'
  BY DEF TypeOK, Unspawned, CachedAlive, EvictedGone, VictimsGone, OnlyCachedRuns, Drift, Begin, disposed
<1> QED BY <1>1, <1>2, <1>3, <1>4, <1>5, <1>6, <1>7

(* EvictSettled keeps the invariant. *)
LEMMA EvictSettledKeeps ==
  ASSUME IInv, NEW c \in Calls, EvictSettled(c)
  PROVE  IInv'
<1> USE RegistryAssumption DEF IInv, EvictSettled
<1>1. TypeOK'
  BY DEF TypeOK, Terminate, Known, Settled, Alive
<1>2. Unspawned'
  BY DEF TypeOK, Unspawned, EvictedGone, Terminate, Known, Settled, Alive
<1>3. CachedAlive'
  BY DEF TypeOK, Unspawned, CachedAlive, EvictedGone, VictimsGone, Terminate, Known, Settled, Alive
<1>4. EvictedGone'
  BY DEF TypeOK, Unspawned, CachedAlive, EvictedGone, Terminate, Known, Settled, Alive
<1>5. VictimsGone'
  BY DEF TypeOK, Unspawned, VictimsGone, CachedAlive, Terminate, Known, Settled, Alive
<1>6. RecordsLive'
  BY DEF TypeOK, Unspawned, CachedAlive, EvictedGone, VictimsGone, RecordsLive, Terminate, Known, Settled, Alive
<1>7. OnlyCachedRuns'
  BY DEF TypeOK, Unspawned, CachedAlive, EvictedGone, VictimsGone, OnlyCachedRuns, Drift, Terminate, Known, Settled, Alive
<1> QED BY <1>1, <1>2, <1>3, <1>4, <1>5, <1>6, <1>7

(* EvictEscalates keeps the invariant. *)
LEMMA EvictEscalatesKeeps ==
  ASSUME IInv, NEW c \in Calls, EvictEscalates(c)
  PROVE  IInv'
<1> USE RegistryAssumption DEF IInv, EvictEscalates
<1>1. TypeOK'
  BY DEF TypeOK, Kill, Known, Alive
<1>2. Unspawned'
  BY DEF TypeOK, Unspawned, EvictedGone, Kill, Known, Alive
<1>3. CachedAlive'
  BY DEF TypeOK, Unspawned, CachedAlive, EvictedGone, VictimsGone, Kill, Known, Alive
<1>4. EvictedGone'
  BY DEF TypeOK, Unspawned, CachedAlive, EvictedGone, Kill, Known, Alive
<1>5. VictimsGone'
  BY DEF TypeOK, Unspawned, VictimsGone, CachedAlive, Kill, Known, Alive
<1>6. RecordsLive'
  BY DEF TypeOK, Unspawned, CachedAlive, EvictedGone, VictimsGone, RecordsLive, Kill, Known, Alive
<1>7. OnlyCachedRuns'
  BY DEF TypeOK, Unspawned, CachedAlive, EvictedGone, VictimsGone, OnlyCachedRuns, Drift, Kill, Known, Alive
<1> QED BY <1>1, <1>2, <1>3, <1>4, <1>5, <1>6, <1>7

(* Respawn keeps the invariant. *)
LEMMA RespawnKeeps ==
  ASSUME IInv, NEW c \in Calls, Respawn(c)
  PROVE  IInv'
<1> USE RegistryAssumption DEF IInv, Respawn
<1>1. TypeOK'
  BY DEF TypeOK, Spawn, SpawnThrows, Known, Alive
<1>2. Unspawned'
  BY DEF TypeOK, Unspawned, EvictedGone, Spawn, SpawnThrows, Known, Alive
<1>3. CachedAlive'
  BY DEF TypeOK, Unspawned, CachedAlive, EvictedGone, VictimsGone, Spawn, SpawnThrows, Known, Alive
<1>4. EvictedGone'
  BY DEF TypeOK, Unspawned, CachedAlive, EvictedGone, Spawn, SpawnThrows, Known, Alive
<1>5. VictimsGone'
  BY DEF TypeOK, Unspawned, VictimsGone, CachedAlive, Spawn, SpawnThrows, Known, Alive
<1>6. RecordsLive'
  BY DEF TypeOK, Unspawned, CachedAlive, EvictedGone, VictimsGone, RecordsLive, Spawn, SpawnThrows, Known, Alive
<1>7. OnlyCachedRuns'
  BY DEF TypeOK, Unspawned, CachedAlive, EvictedGone, VictimsGone, OnlyCachedRuns, Drift, Spawn, SpawnThrows, Known, Alive
<1> QED BY <1>1, <1>2, <1>3, <1>4, <1>5, <1>6, <1>7

(* Return keeps the invariant. *)
LEMMA ReturnKeeps ==
  ASSUME IInv, NEW c \in Calls, Return(c)
  PROVE  IInv'
<1> USE RegistryAssumption DEF IInv, Return
<1>1. TypeOK'
  BY DEF TypeOK, Settled, Known, Alive
<1>2. Unspawned'
  BY DEF TypeOK, Unspawned, EvictedGone, Settled, Known, Alive
<1>3. CachedAlive'
  BY DEF TypeOK, Unspawned, CachedAlive, EvictedGone, VictimsGone, Settled, Known, Alive
<1>4. EvictedGone'
  BY DEF TypeOK, Unspawned, CachedAlive, EvictedGone, Settled, Known, Alive
<1>5. VictimsGone'
  BY DEF TypeOK, Unspawned, VictimsGone, CachedAlive, Settled, Known, Alive
<1>6. RecordsLive'
  BY DEF TypeOK, Unspawned, CachedAlive, EvictedGone, VictimsGone, RecordsLive, Settled, Known, Alive
<1>7. OnlyCachedRuns'
  BY DEF TypeOK, Unspawned, CachedAlive, EvictedGone, VictimsGone, OnlyCachedRuns, Drift, Settled, Known, Alive
<1> QED BY <1>1, <1>2, <1>3, <1>4, <1>5, <1>6, <1>7

(* ProbeHangs keeps the invariant. *)
LEMMA ProbeHangsKeeps ==
  ASSUME IInv, NEW c \in Calls, ProbeHangs(c)
  PROVE  IInv'
<1> USE RegistryAssumption DEF IInv, ProbeHangs
<1>1. TypeOK'
  BY DEF TypeOK, Alive, Known
<1>2. Unspawned'
  BY DEF TypeOK, Unspawned, EvictedGone, Alive, Known
<1>3. CachedAlive'
  BY DEF TypeOK, Unspawned, CachedAlive, EvictedGone, VictimsGone, Alive, Known
<1>4. EvictedGone'
  BY DEF TypeOK, Unspawned, CachedAlive, EvictedGone, Alive, Known
<1>5. VictimsGone'
  BY DEF TypeOK, Unspawned, VictimsGone, CachedAlive, Alive, Known
<1>6. RecordsLive'
  BY DEF TypeOK, Unspawned, CachedAlive, EvictedGone, VictimsGone, RecordsLive, Alive, Known
<1>7. OnlyCachedRuns'
  BY DEF TypeOK, Unspawned, CachedAlive, EvictedGone, VictimsGone, OnlyCachedRuns, Drift, Alive, Known
<1> QED BY <1>1, <1>2, <1>3, <1>4, <1>5, <1>6, <1>7

(* ProbeFails keeps the invariant. *)
LEMMA ProbeFailsKeeps ==
  ASSUME IInv, NEW c \in Calls, ProbeFails(c)
  PROVE  IInv'
<1> USE RegistryAssumption DEF IInv, ProbeFails
<1>1. TypeOK'
  BY DEF TypeOK, Alive, Known
<1>2. Unspawned'
  BY DEF TypeOK, Unspawned, EvictedGone, Alive, Known
<1>3. CachedAlive'
  BY DEF TypeOK, Unspawned, CachedAlive, EvictedGone, VictimsGone, Alive, Known
<1>4. EvictedGone'
  BY DEF TypeOK, Unspawned, CachedAlive, EvictedGone, Alive, Known
<1>5. VictimsGone'
  BY DEF TypeOK, Unspawned, VictimsGone, CachedAlive, Alive, Known
<1>6. RecordsLive'
  BY DEF TypeOK, Unspawned, CachedAlive, EvictedGone, VictimsGone, RecordsLive, Alive, Known
<1>7. OnlyCachedRuns'
  BY DEF TypeOK, Unspawned, CachedAlive, EvictedGone, VictimsGone, OnlyCachedRuns, Drift, Alive, Known
<1> QED BY <1>1, <1>2, <1>3, <1>4, <1>5, <1>6, <1>7

(* ProbeAnswered keeps the invariant. *)
LEMMA ProbeAnsweredKeeps ==
  ASSUME IInv, NEW c \in Calls, ProbeAnswered(c)
  PROVE  IInv'
<1> USE RegistryAssumption DEF IInv, ProbeAnswered
<1>1. TypeOK'
  BY DEF TypeOK, Alive, Known
<1>2. Unspawned'
  BY DEF TypeOK, Unspawned, EvictedGone, Alive, Known
<1>3. CachedAlive'
  BY DEF TypeOK, Unspawned, CachedAlive, EvictedGone, VictimsGone, Alive, Known
<1>4. EvictedGone'
  BY DEF TypeOK, Unspawned, CachedAlive, EvictedGone, Alive, Known
<1>5. VictimsGone'
  BY DEF TypeOK, Unspawned, VictimsGone, CachedAlive, Alive, Known
<1>6. RecordsLive'
  BY DEF TypeOK, Unspawned, CachedAlive, EvictedGone, VictimsGone, RecordsLive, Alive, Known
<1>7. OnlyCachedRuns'
  BY DEF TypeOK, Unspawned, CachedAlive, EvictedGone, VictimsGone, OnlyCachedRuns, Drift, Alive, Known
<1> QED BY <1>1, <1>2, <1>3, <1>4, <1>5, <1>6, <1>7

(* ChildKnown keeps the invariant. *)
LEMMA ChildKnownKeeps ==
  ASSUME IInv, NEW c \in Calls, ChildKnown(c)
  PROVE  IInv'
<1> USE RegistryAssumption DEF IInv, ChildKnown
<1>1. TypeOK'
  BY DEF TypeOK, Known, Alive
<1>2. Unspawned'
  BY DEF TypeOK, Unspawned, EvictedGone, Known, Alive
<1>3. CachedAlive'
  BY DEF TypeOK, Unspawned, CachedAlive, EvictedGone, VictimsGone, Known, Alive
<1>4. EvictedGone'
  BY DEF TypeOK, Unspawned, CachedAlive, EvictedGone, Known, Alive
<1>5. VictimsGone'
  BY DEF TypeOK, Unspawned, VictimsGone, CachedAlive, Known, Alive
<1>6. RecordsLive'
  BY DEF TypeOK, Unspawned, CachedAlive, EvictedGone, VictimsGone, RecordsLive, Known, Alive
<1>7. OnlyCachedRuns'
  BY DEF TypeOK, Unspawned, CachedAlive, EvictedGone, VictimsGone, OnlyCachedRuns, Drift, Known, Alive
<1> QED BY <1>1, <1>2, <1>3, <1>4, <1>5, <1>6, <1>7

(* Attach keeps the invariant. *)
LEMMA AttachKeeps ==
  ASSUME IInv, NEW c \in Calls, Attach(c)
  PROVE  IInv'
<1> USE RegistryAssumption DEF IInv, Attach
<1>1. TypeOK'
  BY DEF TypeOK, Known, Alive
<1>2. Unspawned'
  BY DEF TypeOK, Unspawned, EvictedGone, Known, Alive
<1>3. CachedAlive'
  BY DEF TypeOK, Unspawned, CachedAlive, EvictedGone, VictimsGone, Known, Alive
<1>4. EvictedGone'
  BY DEF TypeOK, Unspawned, CachedAlive, EvictedGone, Known, Alive
<1>5. VictimsGone'
  BY DEF TypeOK, Unspawned, VictimsGone, CachedAlive, Known, Alive
<1>6. RecordsLive'
  BY DEF TypeOK, Unspawned, CachedAlive, EvictedGone, VictimsGone, RecordsLive, Known, Alive
<1>7. OnlyCachedRuns'
  BY DEF TypeOK, Unspawned, CachedAlive, EvictedGone, VictimsGone, OnlyCachedRuns, Drift, Known, Alive
<1> QED BY <1>1, <1>2, <1>3, <1>4, <1>5, <1>6, <1>7

(* StartFails keeps the invariant. *)
LEMMA StartFailsKeeps ==
  ASSUME IInv, NEW c \in Calls, StartFails(c)
  PROVE  IInv'
<1> USE RegistryAssumption DEF IInv, StartFails
<1>1. TypeOK'
  BY DEF TypeOK, Terminate, Uncached, Alive, Known
<1>2. Unspawned'
  BY DEF TypeOK, Unspawned, EvictedGone, Terminate, Uncached, Alive, Known
<1>3. CachedAlive'
  BY DEF TypeOK, Unspawned, CachedAlive, EvictedGone, VictimsGone, Terminate, Uncached, Alive, Known
<1>4. EvictedGone'
  BY DEF TypeOK, Unspawned, CachedAlive, EvictedGone, Terminate, Uncached, Alive, Known
<1>5. VictimsGone'
  BY DEF TypeOK, Unspawned, VictimsGone, CachedAlive, Terminate, Uncached, Alive, Known
<1>6. RecordsLive'
  BY DEF TypeOK, Unspawned, CachedAlive, EvictedGone, VictimsGone, RecordsLive, Terminate, Uncached, Alive, Known
<1>7. OnlyCachedRuns'
  BY DEF TypeOK, Unspawned, CachedAlive, EvictedGone, VictimsGone, OnlyCachedRuns, Drift, Terminate, Uncached, Alive, Known
<1> QED BY <1>1, <1>2, <1>3, <1>4, <1>5, <1>6, <1>7

(* Exit keeps the invariant. *)
LEMMA ExitKeeps ==
  ASSUME IInv, NEW c \in Calls, Exit(c)
  PROVE  IInv'
<1> USE RegistryAssumption DEF IInv, Exit
<1>1. TypeOK'
  BY DEF TypeOK, Uncached, Alive, Known
<1>2. Unspawned'
  BY DEF TypeOK, Unspawned, EvictedGone, Uncached, Alive, Known
<1>3. CachedAlive'
  BY DEF TypeOK, Unspawned, CachedAlive, EvictedGone, VictimsGone, Uncached, Alive, Known
<1>4. EvictedGone'
  BY DEF TypeOK, Unspawned, CachedAlive, EvictedGone, Uncached, Alive, Known
<1>5. VictimsGone'
  BY DEF TypeOK, Unspawned, VictimsGone, CachedAlive, Uncached, Alive, Known
<1>6. RecordsLive'
  BY DEF TypeOK, Unspawned, CachedAlive, EvictedGone, VictimsGone, RecordsLive, Uncached, Alive, Known
<1>7. OnlyCachedRuns'
  BY DEF TypeOK, Unspawned, CachedAlive, EvictedGone, VictimsGone, OnlyCachedRuns, Drift, Uncached, Alive, Known
<1> QED BY <1>1, <1>2, <1>3, <1>4, <1>5, <1>6, <1>7

(* Shutdown keeps the invariant. *)
LEMMA ShutdownKeeps ==
  ASSUME IInv, Shutdown
  PROVE  IInv'
<1> USE RegistryAssumption DEF IInv, Shutdown
<1>1. TypeOK'
  BY DEF TypeOK, disposed, Terminate, Known, Alive
<1>2. Unspawned'
  BY DEF TypeOK, Unspawned, EvictedGone, disposed, Terminate, Known, Alive
<1>3. CachedAlive'
  BY DEF TypeOK, Unspawned, CachedAlive, EvictedGone, VictimsGone, disposed, Terminate, Known, Alive
<1>4. EvictedGone'
  BY DEF TypeOK, Unspawned, CachedAlive, EvictedGone, disposed, Terminate, Known, Alive
<1>5. VictimsGone'
  BY DEF TypeOK, Unspawned, VictimsGone, CachedAlive, disposed, Terminate, Known, Alive
<1>6. RecordsLive'
  BY DEF TypeOK, Unspawned, CachedAlive, EvictedGone, VictimsGone, RecordsLive, disposed, Terminate, Known, Alive
<1>7. OnlyCachedRuns'
  BY DEF TypeOK, Unspawned, CachedAlive, EvictedGone, VictimsGone, OnlyCachedRuns, Drift, disposed, Terminate, Known, Alive
<1> QED BY <1>1, <1>2, <1>3, <1>4, <1>5, <1>6, <1>7

(* ShutdownEnds keeps the invariant. *)
LEMMA ShutdownEndsKeeps ==
  ASSUME IInv, ShutdownEnds
  PROVE  IInv'
<1> USE RegistryAssumption DEF IInv, ShutdownEnds
<1>1. TypeOK'
  BY DEF TypeOK, Kill, Alive, Known
<1>2. Unspawned'
  BY DEF TypeOK, Unspawned, EvictedGone, Kill, Alive, Known
<1>3. CachedAlive'
  BY DEF TypeOK, Unspawned, CachedAlive, EvictedGone, VictimsGone, Kill, Alive, Known
<1>4. EvictedGone'
  BY DEF TypeOK, Unspawned, CachedAlive, EvictedGone, Kill, Alive, Known
<1>5. VictimsGone'
  BY DEF TypeOK, Unspawned, VictimsGone, CachedAlive, Kill, Alive, Known
<1>6. RecordsLive'
  BY DEF TypeOK, Unspawned, CachedAlive, EvictedGone, VictimsGone, RecordsLive, Kill, Alive, Known
<1>7. OnlyCachedRuns'
  BY DEF TypeOK, Unspawned, CachedAlive, EvictedGone, VictimsGone, OnlyCachedRuns, Drift, Kill, Alive, Known
<1> QED BY <1>1, <1>2, <1>3, <1>4, <1>5, <1>6, <1>7
(* The invariant is inductive. *)
LEMMA InvNext == IInv /\ [Next]_vars => IInv'
<1> SUFFICES ASSUME IInv, [Next]_vars PROVE IInv'
  OBVIOUS
<1>1. CASE \E c \in Calls : Refuse(c) \/ Join(c) \/ FirstSpawn(c) \/ Evict(c)
  BY <1>1, RefuseKeeps, JoinKeeps, FirstSpawnKeeps, EvictKeeps
<1>2. CASE \E c \in Calls : EvictSettled(c) \/ EvictEscalates(c) \/ Respawn(c) \/ Return(c)
  BY <1>2, EvictSettledKeeps, EvictEscalatesKeeps, RespawnKeeps, ReturnKeeps
<1>3. CASE \E e \in Calls :
             \/ ProbeHangs(e) \/ ProbeFails(e) \/ ProbeAnswered(e)
             \/ ChildKnown(e) \/ Attach(e) \/ StartFails(e) \/ Exit(e)
  BY <1>3, ProbeHangsKeeps, ProbeFailsKeeps, ProbeAnsweredKeeps, ChildKnownKeeps, AttachKeeps, StartFailsKeeps, ExitKeeps
<1>4. CASE Shutdown \/ ShutdownEnds
  BY <1>4, ShutdownKeeps, ShutdownEndsKeeps
<1>5. CASE UNCHANGED vars
  BY <1>5 DEF IInv, TypeOK, Unspawned, CachedAlive, EvictedGone, VictimsGone, RecordsLive,
     OnlyCachedRuns, Drift, vars
<1> QED BY <1>1, <1>2, <1>3, <1>4, <1>5 DEF Next

(* ... and so holds throughout. *)
LEMMA RegistryInvariant == Spec => []IInv
BY InvInit, InvNext, PTL DEF Spec

(* Every variable of the registry keeps to its domain. *)
THEOREM RegistryTypeCorrect == Spec => []TypeOK
<1>1. IInv => TypeOK
  BY DEF IInv
<1> QED BY <1>1, RegistryInvariant, PTL

(* For every number of calls: while all ask for one spec, at most one      *)
(* server process runs that nothing has told to terminate.                 *)
THEOREM RegistryOneServer == Spec => []OneServer
<1>1. IInv => OneServer
  BY DEF IInv, OnlyCachedRuns, OneServer
<1> QED BY <1>1, RegistryInvariant, PTL

(* For every number of calls: a settled entry in the cache, unless its     *)
(* listener came too late, is a running server, and the pid file names no  *)
(* dead process.                                                           *)
THEOREM RegistryRecordsLive == Spec => []RecordsLive
<1>1. IInv => RecordsLive
  BY DEF IInv
<1> QED BY <1>1, RegistryInvariant, PTL

(* For every number of calls, evictions and shutdowns: a running child     *)
(* loses its last owner only to a spawn that overwrites it or to a         *)
(* shutdown() that finds it starting.                                      *)
THEOREM RegistryOrphansInTwoWays == Spec => OrphanedInTwoWays
<1>1. ASSUME IInv, [Next]_vars, NEW e \in Calls PROVE OrphanStep(e)
  <2> USE <1>1, RegistryAssumption
         DEF IInv, TypeOK, Unspawned, CachedAlive, EvictedGone, OrphanStep, Owned
  <2>1. CASE \E c \in Calls : Refuse(c)
    BY <2>1 DEF Refuse, Begin
  <2>2. CASE \E c \in Calls : Join(c)
    BY <2>2 DEF Join, Begin
  <2>3. CASE \E c \in Calls : FirstSpawn(c)
    BY <2>3 DEF FirstSpawn, Begin, Spawn, SpawnThrows
  <2>4. CASE \E c \in Calls : Evict(c)
    BY <2>4 DEF Evict, Begin
  <2>5. CASE \E c \in Calls : EvictSettled(c)
    BY <2>5 DEF EvictSettled, Terminate, Known, Settled
  <2>6. CASE \E c \in Calls : EvictEscalates(c)
    BY <2>6 DEF EvictEscalates
  <2>7. CASE \E c \in Calls : Respawn(c)
    BY <2>7 DEF Respawn, Spawn, SpawnThrows, Known
  <2>8. CASE \E c \in Calls : Return(c)
    BY <2>8 DEF Return
  <2>9. CASE \E c \in Calls : ProbeHangs(c) \/ ProbeFails(c) \/ ProbeAnswered(c)
    BY <2>9 DEF ProbeHangs, ProbeFails, ProbeAnswered
  <2>10. CASE \E c \in Calls : ChildKnown(c)
    BY <2>10 DEF ChildKnown
  <2>11. CASE \E c \in Calls : Attach(c)
    BY <2>11 DEF Attach
  <2>12. CASE \E c \in Calls : StartFails(c)
    BY <2>12 DEF StartFails, Terminate, Uncached
  <2>13. CASE \E c \in Calls : Exit(c)
    BY <2>13 DEF Exit, Uncached
  <2>14. CASE Shutdown
    BY <2>14 DEF Shutdown, disposed, Terminate, Known
  <2>15. CASE ShutdownEnds
    BY <2>15 DEF ShutdownEnds
  <2>16. CASE UNCHANGED vars
    BY <2>16 DEF vars
  <2> QED BY <2>1, <2>2, <2>3, <2>4, <2>5, <2>6, <2>7, <2>8, <2>9, <2>10, <2>11, <2>12, <2>13, <2>14, <2>15, <2>16 DEF Next
<1>2. IInv /\ [Next]_vars => [\A e \in Calls : OrphanStep(e)]_vars
  BY <1>1
<1> QED BY <1>2, RegistryInvariant, PTL DEF Spec, OrphanedInTwoWays

=============================================================================
