-------------------------- MODULE ProcessRegistry --------------------------
(***************************************************************************)
(* The daemon's shared MCP server processes                                *)
(* (packages/mcp/src/process-registry.ts), for one serverId: servers share *)
(* no state. A call of acquire() that spawns gives its name to the entry   *)
(* and to the child it creates.                                            *)
(* The entry's `stage` follows its promise, `child` its process.           *)
(*                                                                         *)
(* An exit event is atomic: the runtime sets exitCode and runs every       *)
(* listener before other code. The ready URL is a fixed port, so whichever *)
(* process is alive may answer a probe.                                    *)
(***************************************************************************)
EXTENDS FiniteSets

CONSTANTS
  Calls,   \* calls of acquire()
  Specs,   \* spec hashes
  Inputs,  \* the specs the calls may be given: functions from Calls to Specs
  None

ASSUME RegistryAssumption ==
  /\ None \notin Calls \cup Specs
  /\ IsFiniteSet(Calls)
  /\ Inputs \subseteq [Calls -> Specs]

VARIABLES
  pc,        \* where each call is
  want,      \* the spec hash it was given
  target,    \* the entry it evicts or awaits
  stage,     \* how far the spawn of each entry is
  child,     \* the process of each entry
  cached,    \* entries.get(serverId), or None
  pidFile,   \* the child the pid file names, or None
  shut,      \* how far shutdown() is: "no", "grace", "done"
  victims    \* the children shutdown() signalled

vars == <<pc, want, target, stage, child, cached, pidFile, shut, victims>>

disposed == shut # "no"

Alive == {"running", "terminating", "killed"}

(* entry.child and entry.pidFile are set. A "deaf" entry got its exit      *)
(* listener after its child's exit event.                                  *)
Known == {"writing", "listening", "deaf"}

(* The promise of the entry has settled. *)
Settled == {"listening", "deaf", "failed"}

Init ==
  /\ pc = [c \in Calls |-> "idle"]
  /\ want \in Inputs
  /\ target = [c \in Calls |-> None]
  /\ stage = [c \in Calls |-> "none"]
  /\ child = [c \in Calls |-> "none"]
  /\ cached = None
  /\ pidFile = None
  /\ shut = "no"
  /\ victims = {}

-----------------------------------------------------------------------------
(* spawn() and entries.set: whatever is cached is overwritten. *)
Spawn(c) ==
  /\ stage' = [stage EXCEPT ![c] = "starting"]
  /\ child' = [child EXCEPT ![c] = "running"]
  /\ cached' = c

(* spawn() throws: the entry that was set is evicted again at once. *)
SpawnThrows(c) ==
  /\ stage' = [stage EXCEPT ![c] = "failed"]
  /\ cached' = None
  /\ UNCHANGED child

Begin(c, to, e) ==
  /\ pc' = [pc EXCEPT ![c] = to]
  /\ target' = [target EXCEPT ![c] = e]

Refuse(c) ==
  /\ pc[c] = "idle" /\ disposed
  /\ Begin(c, "refused", None)
  /\ UNCHANGED <<want, stage, child, cached, pidFile, shut, victims>>

SpawnAlways(c) ==   \* mutant of Join: the cached entry is not consulted
  /\ pc[c] = "idle" /\ ~disposed
  /\ cached # None /\ want[cached] = want[c]
  /\ Begin(c, "waiting", c)
  /\ Spawn(c)
  /\ UNCHANGED <<want, pidFile, shut, victims>>

Join(c) ==
  /\ pc[c] = "idle" /\ ~disposed
  /\ cached # None /\ want[cached] = want[c]
  /\ Begin(c, "waiting", cached)
  /\ UNCHANGED <<want, stage, child, cached, pidFile, shut, victims>>

FirstSpawn(c) ==
  /\ pc[c] = "idle" /\ ~disposed
  /\ cached = None
  /\ Begin(c, "waiting", c)
  /\ Spawn(c) \/ SpawnThrows(c)
  /\ UNCHANGED <<want, pidFile, shut, victims>>

(* The cached child was spawned with another spec: evictEntry begins. *)
Evict(c) ==
  /\ pc[c] = "idle" /\ ~disposed
  /\ cached # None /\ want[cached] # want[c]
  /\ Begin(c, "settling", cached)
  /\ cached' = None
  /\ UNCHANGED <<want, stage, child, pidFile, shut, victims>>

(* SIGTERM reaches what has not been signalled yet. *)
Terminate(E) == [e \in Calls |-> IF e \in E /\ child[e] = "running"
                                 THEN "terminating" ELSE child[e]]
Kill(E) == [e \in Calls |-> IF e \in E /\ child[e] \in Alive THEN "killed" ELSE child[e]]

NotAwaited(c) ==   \* mutant of EvictSettled: a spawn under way is not awaited
  /\ pc[c] = "settling"
  /\ pc' = [pc EXCEPT ![c] = "exiting"]
  /\ child' = IF stage[target[c]] \in Known THEN Terminate({target[c]}) ELSE child
  /\ UNCHANGED <<want, target, stage, cached, pidFile, shut, victims>>

(* The evicted entry's promise settles; a child it yields is told to go. *)
EvictSettled(c) ==
  /\ pc[c] = "settling"
  /\ stage[target[c]] \in Settled
  /\ pc' = [pc EXCEPT ![c] = "exiting"]
  /\ child' = IF stage[target[c]] \in Known THEN Terminate({target[c]}) ELSE child
  /\ UNCHANGED <<want, target, stage, cached, pidFile, shut, victims>>

SignalAgain(c) ==   \* mutant of EvictEscalates: SIGTERM once more
  /\ pc[c] = "exiting"
  /\ stage[target[c]] \in Known /\ child[target[c]] = "terminating"
  /\ child' = Terminate({target[c]})
  /\ UNCHANGED <<pc, want, target, stage, cached, pidFile, shut, victims>>

(* Two seconds later it still runs. *)
EvictEscalates(c) ==
  /\ pc[c] = "exiting"
  /\ stage[target[c]] \in Known /\ child[target[c]] = "terminating"
  /\ child' = Kill({target[c]})
  /\ UNCHANGED <<pc, want, target, stage, cached, pidFile, shut, victims>>

(* The evicted child is gone, or was never handed over: the pid file goes  *)
(* and acquire() falls through to its spawn, without a look at the cache   *)
(* or at disposed.                                                         *)
Respawn(c) ==
  /\ pc[c] = "exiting"
  /\ stage[target[c]] \notin Known \/ child[target[c]] = "dead"
  /\ pidFile' = IF stage[target[c]] \in Known THEN None ELSE pidFile
  /\ pc' = [pc EXCEPT ![c] = "waiting"]
  /\ target' = [target EXCEPT ![c] = c]
  /\ Spawn(c) \/ SpawnThrows(c)
  /\ UNCHANGED <<want, shut, victims>>

-----------------------------------------------------------------------------
(* The readiness loop awaits its probe with no timeout: a process that takes the *)
(* connection and says nothing holds the loop, past its deadline too.      *)
ProbeHangs(e) ==
  /\ stage[e] = "starting"
  /\ \E d \in Calls : child[d] \in Alive
  /\ stage' = [stage EXCEPT ![e] = "hung"]
  /\ UNCHANGED <<pc, want, target, child, cached, pidFile, shut, victims>>

(* The probe comes back after all, with an error, and the loop goes on. *)
ProbeFails(e) ==
  /\ stage[e] = "hung"
  /\ stage' = [stage EXCEPT ![e] = "starting"]
  /\ UNCHANGED <<pc, want, target, child, cached, pidFile, shut, victims>>

(* A probe is answered below 500; then the stream of its body is drained. *)
ProbeAnswered(e) ==
  /\ stage[e] \in {"starting", "hung"}
  /\ \E d \in Calls : child[d] \in Alive
  /\ stage' = [stage EXCEPT ![e] = "answered"]
  /\ UNCHANGED <<pc, want, target, child, cached, pidFile, shut, victims>>

(* spawnAndWaitReady returns the child: entry.child is set and the pid     *)
(* file is being written.                                                  *)
ChildKnown(e) ==
  /\ stage[e] = "answered"
  /\ stage' = [stage EXCEPT ![e] = "writing"]
  /\ UNCHANGED <<pc, want, target, child, cached, pidFile, shut, victims>>

WrongPid(e) ==   \* mutant of Attach: something else is written
  /\ stage[e] = "writing"
  /\ stage' = [stage EXCEPT ![e] = IF child[e] = "dead" THEN "deaf" ELSE "listening"]
  /\ pidFile' \in {want[e], pidFile}
  /\ UNCHANGED <<pc, want, target, child, cached, shut, victims>>

(* The pid file is written, or its write failed; the listener is attached. *)
Attach(e) ==
  /\ stage[e] = "writing"
  /\ stage' = [stage EXCEPT ![e] = IF child[e] = "dead" THEN "deaf" ELSE "listening"]
  /\ pidFile' \in {e, pidFile}
  /\ UNCHANGED <<pc, want, target, child, cached, shut, victims>>

Uncached(e) == IF cached = e THEN None ELSE cached

(* The promise rejects: the entry leaves the cache if it is still there.   *)
StartFails(e) ==
  /\ stage[e] = "starting"
  /\ \/ child[e] = "dead" /\ UNCHANGED child
     \/ child' = Terminate({e})            \* readyTimeoutMs is over
  /\ stage' = [stage EXCEPT ![e] = "failed"]
  /\ cached' = Uncached(e)
  /\ UNCHANGED <<pc, want, target, pidFile, shut, victims>>

ExitUnheard(e) ==   \* mutant of Exit: no lifetime listener
  /\ child[e] \in Alive
  /\ child' = [child EXCEPT ![e] = "dead"]
  /\ UNCHANGED <<pc, want, target, stage, cached, pidFile, shut, victims>>

(* The process exits, of its own or signalled. *)
Exit(e) ==
  /\ child[e] \in Alive
  /\ child' = [child EXCEPT ![e] = "dead"]
  /\ IF stage[e] = "listening"
     THEN cached' = Uncached(e) /\ pidFile' = None
     ELSE UNCHANGED <<cached, pidFile>>
  /\ UNCHANGED <<pc, want, target, stage, shut, victims>>

(* A caller receives the handle, or the rejection, of the entry it awaits. *)
Return(c) ==
  /\ pc[c] = "waiting"
  /\ stage[target[c]] \in Settled
  /\ pc' = [pc EXCEPT ![c] = IF stage[target[c]] = "failed" THEN "refused" ELSE "held"]
  /\ UNCHANGED <<want, target, stage, child, cached, pidFile, shut, victims>>

-----------------------------------------------------------------------------
Shutdown ==
  /\ ~disposed
  /\ shut' = "grace"
  /\ victims' = {e \in Calls : e = cached /\ stage[e] \in Known /\ child[e] # "dead"}
  /\ pidFile' = IF cached # None /\ stage[cached] \in Known THEN None ELSE pidFile
  /\ cached' = None
  /\ child' = Terminate(victims')
  /\ UNCHANGED <<pc, want, target, stage>>

ShutdownEnds ==
  /\ shut = "grace"
  /\ shut' = "done"
  /\ child' = Kill(victims)
  /\ UNCHANGED <<pc, want, target, stage, cached, pidFile, victims>>

Next ==
  \/ \E c \in Calls : Refuse(c) \/ Join(c) \/ FirstSpawn(c) \/ Evict(c)
  \/ \E c \in Calls : EvictSettled(c) \/ EvictEscalates(c) \/ Respawn(c) \/ Return(c)
  \/ \E e \in Calls :
       \/ ProbeHangs(e) \/ ProbeFails(e) \/ ProbeAnswered(e)
       \/ ChildKnown(e) \/ Attach(e) \/ StartFails(e) \/ Exit(e)
  \/ Shutdown \/ ShutdownEnds

Spec == Init /\ [][Next]_vars

(* The polling loop looks at its deadline after each probe that comes back, *)
(* a connection nobody is left to serve breaks, awaited file and timer     *)
(* callbacks come, and SIGKILL cannot be ignored. Nothing forces a call,   *)
(* an answer to a probe, an exit or a shutdown.                            *)
SpawnStep(e) == ChildKnown(e) \/ Attach(e) \/ StartFails(e)
Alone == \A d \in Calls : child[d] \notin Alive
CallStep(c)  == EvictSettled(c) \/ EvictEscalates(c) \/ Respawn(c) \/ Return(c)
Fairness ==
  /\ \A c \in Calls :
       /\ SF_vars(SpawnStep(c)) /\ WF_vars(CallStep(c))
       /\ WF_vars(Alone /\ ProbeFails(c))
       /\ WF_vars(child[c] = "killed" /\ Exit(c))
  /\ WF_vars(ShutdownEnds)

FairSpec == Spec /\ Fairness
-----------------------------------------------------------------------------
(* Type correctness of the registry. *)
TypeOK ==
  /\ pc \in [Calls -> {"idle", "settling", "exiting", "waiting", "held", "refused"}]
  /\ want \in [Calls -> Specs]
  /\ target \in [Calls -> Calls \cup {None}]
  /\ stage \in [Calls -> {"none", "starting", "hung", "answered", "failed"} \cup Known]
  /\ child \in [Calls -> {"none", "dead"} \cup Alive]
  /\ cached \in Calls \cup {None}
  /\ pidFile \in Calls \cup {None}
  /\ shut \in {"no", "grace", "done"}
  /\ victims \subseteq Calls

(* While every caller gives the same spec, calls of acquire() at once,     *)
(* failed starts, exits, retries and a shutdown never leave two server     *)
(* processes running that nothing has told to terminate.                   *)
Drift == \E c, d \in Calls : "idle" \notin {pc[c], pc[d]} /\ want[c] # want[d]
OneServer ==
  ~Drift => \A d, e \in Calls : child[d] = "running" /\ child[e] = "running" => d = e

(* What acquire() would hand out from a settled entry is a running server  *)
(* that nothing has told to go, and the pid file the launcher sweeps after *)
(* a crash names no dead process: both hold of every entry whose listener  *)
(* was attached before its child exited.                                   *)
RecordsLive ==
  \A e \in Calls : stage[e] = "listening" =>
    /\ cached = e => child[e] = "running"
    /\ pidFile = e => child[e] # "dead"

(* A running child loses its last owner (the cache, or a call that is      *)
(* evicting it) in two ways only: a call that had evicted another entry    *)
(* overwrites it with its own spawn, or shutdown() finds it still starting.*)
Owned(e) == cached = e \/ \E c \in Calls : pc[c] = "settling" /\ target[c] = e
OrphanStep(e) ==
  Owned(e) /\ ~Owned(e)' /\ child[e] = "running" /\ child'[e] = "running" =>
    \/ \E c \in Calls : pc[c] = "exiting" /\ pc'[c] = "waiting" /\ cached = e
    \/ shut' # shut /\ stage[e] \in {"starting", "hung", "answered"}
OrphanedInTwoWays == [][\A e \in Calls : OrphanStep(e)]_vars

(* Unless a readiness probe is left hanging for ever, every call of acquire() *)
(* gets a handle or an error, through evictions, failed starts, children   *)
(* that ignore SIGTERM and a shutdown. One that hangs holds every caller   *)
(* of its entry and every call that evicts it: the code sets no limit.     *)
AcquireSettles ==
  (\A e \in Calls : []<>(stage[e] # "hung"))
    => \A c \in Calls : pc[c] # "idle" ~> pc[c] \in {"held", "refused"}
=============================================================================
