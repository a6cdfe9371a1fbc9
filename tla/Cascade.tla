------------------------------- MODULE Cascade -------------------------------
(***************************************************************************)
(* CascadeConsumer (apps/atlasd/src/cascade-stream.ts): drains the         *)
(* CASCADES work queue, decides each envelope's fate by the concurrency    *)
(* policy of its (workspace, signal) key, acknowledges on that decision    *)
(* and runs the cascade in the background under a slot semaphore.          *)
(*                                                                         *)
(* Every action is one uninterrupted stretch of the event loop: the code   *)
(* between two awaits.                                                     *)
(***************************************************************************)
EXTENDS Integers, Sequences, FiniteSets

CONSTANTS
  Msgs,        \* the envelopes, one element per message of the stream
  Keys,        \* `${workspaceId}:${signalId}`
  KeyOf,       \* the key of each envelope
  Corrs,       \* correlation ids of synchronous callers
  CorrOf,      \* the correlation id of each envelope, or NoCorr
  NoCorr, NoMsg,
  Configs,     \* workspace configurations: the policies a key has in turn
  Cap          \* maxAckPending: unacknowledged messages, and dispatch slots

Policies == {"skip", "queue", "concurrent", "replace"}

ASSUME CascadeAssumption ==
  /\ IsFiniteSet(Msgs) /\ NoMsg \notin Msgs
  /\ NoCorr \notin Corrs
  /\ KeyOf \in [Msgs -> Keys]
  /\ CorrOf \in [Msgs -> Corrs \cup {NoCorr}]
  /\ Configs \subseteq [Keys -> SUBSET Policies]
  /\ Cap \in Nat \ {0}

VARIABLES
  policies,    \* the configuration of this behaviour, never changed
  daemon,      \* "up", "stopping" (in stop()), "stopped" (stop() done), "down"
  stream,      \* undelivered CASCADES messages, oldest first
  phase,       \* where each envelope is
  policy,      \* what resolvePolicy answered for it
  locks,       \* policyLocks: handlers lined up per key
  chain,       \* queueTails: `queue` envelopes chained per key, head first
  inFlight,    \* registered cascades per key
  slots,       \* cascadeInFlight
  waiters,     \* cascadeWaiters
  aborted,     \* cascades whose AbortController fired
  replaced,    \* replacedExisting, less what the walk over it has passed
  sessions,    \* cascades whose sessionId is set
  surfaced,    \* cascades named as cancelled in a cascade.replaced event
  correlated,  \* correlatedInFlight
  cancelled,   \* cancelledCorrelations
  owed,        \* history: cancellations received, less those whose record was
               \* pruned before their cascade registered
  saturated,
  answers,     \* responses published for each envelope
  unheard      \* history: envelopes whose response could not be published

loop  == <<policies, daemon>>
admit == <<policy, locks>>
gate  == <<slots, waiters>>
swap  == <<replaced, sessions, surfaced>>
corr  == <<correlated, cancelled, owed>>
reply == <<answers, unheard>>
vars  == <<loop, stream, phase, admit, chain, inFlight, gate, aborted, swap,
           corr, saturated, reply>>

Unacked   == {"expiring", "resolving", "deciding"}
Holding   == {"granted", "dispatching", "surfacing"}
Phases    == {"unsent", "pending", "chained", "waiting", "over", "lost"}
               \cup Unacked \cup Holding
Outcomes  == {"ok", "error", "skipped", "timeout"}

In(S)      == {m \in Msgs : phase[m] \in S}
Registered(reg) == UNION {reg[k] : k \in Keys}
Alive      == daemon # "down"

AtHalf(reg)   == 2 * Cardinality(Registered(reg)) >= Cap   \* mutant of OverHalf

(* totalInFlight() > maxAckPending * 0.5 *)
OverHalf(reg) == 2 * Cardinality(Registered(reg)) > Cap

Init ==
  /\ policies \in Configs
  /\ daemon = "up"
  /\ stream = <<>>
  /\ phase = [m \in Msgs |-> "unsent"]
  /\ policy = [m \in Msgs |-> "skip"]
  /\ locks = [k \in Keys |-> <<>>]
  /\ chain = [k \in Keys |-> <<>>]
  /\ inFlight = [k \in Keys |-> {}]
  /\ slots = 0 /\ waiters = <<>>
  /\ aborted = {}
  /\ replaced = [m \in Msgs |-> {}] /\ sessions = {} /\ surfaced = {}
  /\ correlated = [c \in Corrs |-> NoMsg] /\ cancelled = {} /\ owed = {}
  /\ saturated = FALSE
  /\ answers = [m \in Msgs |-> <<>>] /\ unheard = {}

-----------------------------------------------------------------------------
(* Delivery and the policy decision: handleMessage.                        *)

(* publishCascade by the SIGNALS forwarder of the same process. *)
Publish(m) ==
  /\ Alive /\ phase[m] = "unsent"
  /\ stream' = Append(stream, m)
  /\ phase' = [phase EXCEPT ![m] = "pending"]
  /\ UNCHANGED <<loop, admit, chain, inFlight, gate, aborted, swap, corr,
                 saturated, reply>>

(* runLoop hands over the next message and does not await its handler. One
   that outlived queueTimeoutMs takes the branch that gives it up. A batch
   already being fetched is still handed over while stop() waits for it. *)
Deliver(next) ==
  /\ daemon \in {"up", "stopping"}
  /\ stream # <<>>
  /\ Cardinality(In(Unacked)) < Cap
  /\ stream' = Tail(stream)
  /\ phase' = [phase EXCEPT ![Head(stream)] = next]
  /\ UNCHANGED <<loop, admit, chain, inFlight, gate, aborted, swap, corr,
                 saturated, reply>>

(* publishResponse: a publish that fails (connection closed, payload too
   large) is logged and not repeated. *)
Publishes(m, what) ==
  \/ answers' = [answers EXCEPT ![m] = Append(@, what)] /\ UNCHANGED unheard
  \/ unheard' = unheard \cup {m} /\ UNCHANGED answers

AnswerButSkips(m, what) ==   \* mutant of Answer: the skip branch forgets it
  IF CorrOf[m] = NoCorr \/ what = "skipped" THEN UNCHANGED reply ELSE Publishes(m, what)

Answer(m, what) ==
  IF CorrOf[m] = NoCorr THEN UNCHANGED reply ELSE Publishes(m, what)

(* The cascade.queue_timeout event is out: respond and terminate. *)
ExpireStale(m) ==
  /\ Alive /\ phase[m] = "expiring"
  /\ phase' = [phase EXCEPT ![m] = "over"]
  /\ Answer(m, "timeout")
  /\ UNCHANGED <<loop, stream, admit, chain, inFlight, gate, aborted, swap, corr,
                 saturated>>

(* resolvePolicy settles ("skip" when it throws); join the per-key lock. *)
Resolve(m) ==
  /\ Alive /\ phase[m] = "resolving"
  /\ \E p \in policies[KeyOf[m]] \cup {"skip"} :
       policy' = [policy EXCEPT ![m] = p]
  /\ phase' = [phase EXCEPT ![m] = "deciding"]
  /\ locks' = [locks EXCEPT ![KeyOf[m]] = Append(@, m)]
  /\ UNCHANGED <<loop, stream, chain, inFlight, gate, aborted, swap, corr,
                 saturated, reply>>

(* The policy lock is m's: withPolicyLock runs its callback and releases. *)
TakeTurn(m) ==
  /\ Alive /\ phase[m] = "deciding"
  /\ locks[KeyOf[m]] # <<>> /\ Head(locks[KeyOf[m]]) = m
  /\ locks' = [locks EXCEPT ![KeyOf[m]] = Tail(@)]
  /\ UNCHANGED policy

AcquireSlotLate(m) ==   \* mutant of AcquireSlot: the comparison admits one more
  IF slots <= Cap
  THEN /\ slots' = slots + 1
       /\ phase' = [phase EXCEPT ![m] = "granted"]
       /\ UNCHANGED waiters
  ELSE /\ waiters' = Append(waiters, m)
       /\ phase' = [phase EXCEPT ![m] = "waiting"]
       /\ UNCHANGED slots

(* A cascade asks for a slot: it has one, or it waits behind the others. *)
AcquireSlot(m) ==
  IF slots < Cap
  THEN /\ slots' = slots + 1
       /\ phase' = [phase EXCEPT ![m] = "granted"]
       /\ UNCHANGED waiters
  ELSE /\ waiters' = Append(waiters, m)
       /\ phase' = [phase EXCEPT ![m] = "waiting"]
       /\ UNCHANGED slots

NotCancelled(m) == {}   \* mutant of CancelledEarly: the record is not consulted

(* A cancellation that came before its cascade aborts it at registration. *)
CancelledEarly(m) == {x \in {m} : CorrOf[x] \in cancelled}

(* runCascade up to its first await; `victims` is replacedExisting. *)
RunCascade(m, victims) ==
  /\ inFlight' = [inFlight EXCEPT ![KeyOf[m]] = @ \cup {m}]
  /\ correlated' = IF CorrOf[m] = NoCorr THEN correlated
                   ELSE [correlated EXCEPT ![CorrOf[m]] = m]
  /\ aborted' = aborted \cup victims \cup CancelledEarly(m)
  /\ replaced' = [replaced EXCEPT ![m] = victims]
  /\ saturated' = (saturated \/ OverHalf(inFlight'))
  /\ AcquireSlot(m)
  /\ UNCHANGED <<sessions, surfaced, cancelled, owed>>

BusyDispatching(k) == \E x \in inFlight[k] : phase[x] = "dispatching"   \* mutant of Busy

(* Registered is enough: a cascade still waiting for its slot counts. *)
Busy(k) == inFlight[k] # {}

SkipDuplicate(m) ==
  /\ TakeTurn(m)
  /\ policy[m] = "skip" /\ Busy(KeyOf[m])
  /\ phase' = [phase EXCEPT ![m] = "over"]
  /\ Answer(m, "skipped")
  /\ UNCHANGED <<loop, stream, chain, inFlight, gate, aborted, swap, corr, saturated>>

EnterChain(m) ==
  /\ TakeTurn(m)
  /\ policy[m] = "queue"
  /\ chain' = [chain EXCEPT ![KeyOf[m]] = Append(@, m)]
  /\ phase' = [phase EXCEPT ![m] = "chained"]
  /\ UNCHANGED <<loop, stream, inFlight, gate, aborted, swap, corr, saturated, reply>>

VictimsDispatching(m) ==   \* mutant of Victims: those at the semaphore are missed
  {x \in inFlight[KeyOf[m]] : policy[m] = "replace" /\ phase[x] = "dispatching"}

(* `replace` aborts every cascade registered for the key. *)
Victims(m) == {x \in inFlight[KeyOf[m]] : policy[m] = "replace"}

RunAtOnce(m) ==
  /\ TakeTurn(m)
  /\ \/ policy[m] = "skip" /\ ~Busy(KeyOf[m])
     \/ policy[m] \in {"concurrent", "replace"}
  /\ RunCascade(m, Victims(m))
  /\ UNCHANGED <<loop, stream, chain, reply>>

TailItself(m) == FALSE     \* mutant of TailSettled: the tail is set before it is read,
                           \* so that the promise awaited is its own

TailForgotten(m) == TRUE   \* mutant of TailSettled: the chain starts anew each time

(* The promise this envelope was chained on (prevTail) has settled. *)
TailSettled(m) == chain[KeyOf[m]] # <<>> /\ Head(chain[KeyOf[m]]) = m

RunChained(m) ==
  /\ Alive /\ phase[m] = "chained"
  /\ TailSettled(m)
  /\ RunCascade(m, {})
  /\ UNCHANGED <<loop, stream, admit, chain, reply>>

-----------------------------------------------------------------------------
(* The background half of runCascade.                                      *)

ReleaseSlotOnly(m) ==   \* mutant of ReleaseSlot: nobody is woken
  /\ slots' = slots - 1
  /\ phase' = [phase EXCEPT ![m] = "over"]
  /\ UNCHANGED waiters

(* releaseSlot(): the woken waiter takes the slot in the same step. *)
ReleaseSlot(m) ==
  IF waiters = <<>>
  THEN /\ slots' = slots - 1
       /\ phase' = [phase EXCEPT ![m] = "over"]
       /\ UNCHANGED waiters
  ELSE /\ waiters' = Tail(waiters)
       /\ phase' = [phase EXCEPT ![m] = "over", ![Head(waiters)] = "granted"]
       /\ UNCHANGED slots

(* The response, then the finally block; a chained cascade's promise settles
   with it, which frees the next of its chain. *)
Finish(m, what) ==
  LET k    == KeyOf[m]
      c    == CorrOf[m]
      mine == c # NoCorr /\ correlated[c] = m
  IN
  /\ Answer(m, what)
  /\ ReleaseSlot(m)
  /\ inFlight' = [inFlight EXCEPT ![k] = @ \ {m}]
  /\ chain' = IF chain[k] # <<>> /\ Head(chain[k]) = m
              THEN [chain EXCEPT ![k] = Tail(@)] ELSE chain
  /\ correlated' = IF mine THEN [correlated EXCEPT ![c] = NoMsg] ELSE correlated
  /\ cancelled' = IF mine THEN cancelled \ {c} ELSE cancelled
  /\ saturated' = (saturated /\ OverHalf(inFlight'))
  /\ UNCHANGED <<loop, stream, admit, aborted, owed>>

(* The slot is granted: dispatch, unless aborted while waiting for it. *)
Dispatch(m) ==
  /\ Alive /\ phase[m] = "granted" /\ m \notin aborted
  /\ phase' = [phase EXCEPT ![m] = "dispatching"]
  /\ UNCHANGED <<loop, stream, admit, chain, inFlight, gate, aborted, swap, corr,
                 saturated, reply>>

RefuseAborted(m) ==
  /\ Alive /\ phase[m] = "granted" /\ m \in aborted
  /\ Finish(m, "error")
  /\ UNCHANGED swap

(* The walk over replacedExisting looks at each victim once: it passes those
   without a session and awaits the cascade.replaced event of the next that has
   one; after the last the response goes out. (The order of the victims is left
   open.) *)
Walk(m) ==
  \/ /\ replaced[m] \cap sessions' = {}
     /\ replaced' = [replaced EXCEPT ![m] = {}]
     /\ Finish(m, "ok")
     /\ UNCHANGED surfaced
  \/ /\ \E r \in replaced[m] \cap sessions', passed \in SUBSET (replaced[m] \ sessions') :
          /\ surfaced' = surfaced \cup {r}
          /\ replaced' = [replaced EXCEPT ![m] = @ \ (passed \cup {r})]
     /\ phase' = [phase EXCEPT ![m] = "surfacing"]
     /\ UNCHANGED <<loop, stream, admit, chain, inFlight, gate, aborted, corr, saturated,
                    reply>>

(* The dispatcher (triggerWorkspaceSignal) returns a session, and the replaced
   cascades are surfaced. An abort it has not noticed does not turn its result
   into an error. *)
DispatchOk(m) ==
  /\ Alive /\ phase[m] = "dispatching"
  /\ sessions' = sessions \cup {m}
  /\ Walk(m)

DispatchError(m) ==
  /\ Alive /\ phase[m] = "dispatching"
  /\ Finish(m, "error")
  /\ UNCHANGED swap

(* The awaited cascade.replaced event is out: the walk goes on. *)
SurfaceReplaced(m) ==
  /\ Alive /\ phase[m] = "surfacing"
  /\ UNCHANGED sessions
  /\ Walk(m)

-----------------------------------------------------------------------------
(* Cancellation, shutdown, restart.                                        *)

TargetUnchecked(c) == {correlated[c]}   \* mutant of Target: nothing may be in flight

Target(c) == {correlated[c]} \ {NoMsg}

(* A message on signals.cancel.<id>: recordCorrelationCancellation. *)
Cancel(c) ==
  /\ daemon = "up" /\ c \notin cancelled
  /\ cancelled' = cancelled \cup {c} /\ owed' = owed \cup {c}
  /\ aborted' = aborted \cup Target(c)
  /\ UNCHANGED <<loop, stream, phase, admit, chain, inFlight, gate, swap,
                 correlated, saturated, reply>>

(* pruneStaleCancellations: the record is an hour old. An envelope still in
   the stream cannot be (it is given up after queueTimeoutMs, 5 minutes), but
   one in a chain may: its cancellation is forgotten. *)
Prune(c) ==
  /\ Alive /\ c \in cancelled
  /\ \A m \in In({"pending", "resolving", "deciding"}) : CorrOf[m] # c
  /\ cancelled' = cancelled \ {c}
  /\ owed' = owed \ {x \in {c} : \E m \in In({"unsent", "chained"}) : CorrOf[m] = x}
  /\ UNCHANGED <<loop, stream, phase, admit, chain, inFlight, gate, aborted, swap,
                 correlated, saturated, reply>>

(* stop(): no further fetch, the cancel subscription goes. *)
Stop ==
  /\ daemon = "up"
  /\ daemon' = "stopping"
  /\ UNCHANGED <<policies, stream, phase, admit, chain, inFlight, gate, aborted, swap,
                 corr, saturated, reply>>

(* The loop has ended: abort what is registered. Handlers before their
   decision and chained envelopes are not, and go on until the exit. *)
AbortAll ==
  /\ daemon = "stopping"
  /\ daemon' = "stopped"
  /\ aborted' = aborted \cup Registered(inFlight)
  /\ correlated' = [c \in Corrs |-> NoMsg]
  /\ UNCHANGED <<policies, stream, phase, admit, chain, inFlight, gate, swap,
                 cancelled, owed, saturated, reply>>

(* The process ends, crashing or after stop(). The stream survives; with
   max_deliver = 1 an envelope already delivered never comes back. *)
Exit ==
  /\ Alive
  /\ daemon' = "down"
  /\ phase' = [m \in Msgs |-> IF phase[m] \in {"unsent", "pending", "over"}
                              THEN phase[m] ELSE "lost"]
  /\ locks' = [k \in Keys |-> <<>>] /\ chain' = [k \in Keys |-> <<>>]
  /\ inFlight' = [k \in Keys |-> {}]
  /\ slots' = 0 /\ waiters' = <<>>
  /\ replaced' = [m \in Msgs |-> {}] /\ sessions' = {} /\ aborted' = {}
  /\ correlated' = [c \in Corrs |-> NoMsg] /\ cancelled' = {} /\ owed' = {}
  /\ saturated' = FALSE
  /\ policy' = [m \in Msgs |-> "skip"]
  /\ UNCHANGED <<policies, stream, surfaced, reply>>

(* start() in a new process; the synthetic drained event goes out. *)
Start ==
  /\ daemon = "down"
  /\ daemon' = "up"
  /\ UNCHANGED <<policies, stream, phase, admit, chain, inFlight, gate, aborted, swap,
                 corr, saturated, reply>>

Handle(m) == Resolve(m) \/ ExpireStale(m) \/ SkipDuplicate(m) \/ EnterChain(m)
             \/ RunAtOnce(m)
Work(m)   == RunChained(m) \/ Dispatch(m) \/ RefuseAborted(m) \/ SurfaceReplaced(m)
Settle(m) == DispatchOk(m) \/ DispatchError(m)

Next ==
  \/ \E m \in Msgs : Publish(m) \/ Handle(m) \/ Work(m) \/ Settle(m)
  \/ Deliver("resolving") \/ Deliver("expiring")
  \/ \E c \in Corrs : Cancel(c) \/ Prune(c)
  \/ Stop \/ AbortAll \/ Exit \/ Start

Spec == Init /\ [][Next]_vars

(* The event loop never rests while something is ready: promises settle, the
   loop keeps fetching while it runs, and a dispatcher settles, since sessions
   end by their own timeouts. Nobody has to publish, cancel, stop or crash. *)
Fairness ==
  WF_vars(Deliver("resolving") \/ Deliver("expiring")
          \/ \E m \in Msgs : Handle(m) \/ Work(m) \/ Settle(m))

FairSpec == Spec /\ Fairness

-----------------------------------------------------------------------------
(* Properties.                                                             *)

(* Every variable keeps to its domain, whatever the interleaving of
   handlers, cascades, cancellations and restarts in cascade-stream.ts. *)
TypeOK ==
  /\ policies \in [Keys -> SUBSET Policies]
  /\ daemon \in {"up", "stopping", "stopped", "down"}
  /\ stream \in Seq(Msgs)
  /\ phase \in [Msgs -> Phases]
  /\ policy \in [Msgs -> Policies]
  /\ locks \in [Keys -> Seq(Msgs)] /\ chain \in [Keys -> Seq(Msgs)]
  /\ inFlight \in [Keys -> SUBSET Msgs]
  /\ slots \in Int /\ waiters \in Seq(Msgs)
  /\ aborted \subseteq Msgs
  /\ replaced \in [Msgs -> SUBSET Msgs]
  /\ sessions \subseteq Msgs /\ surfaced \subseteq Msgs
  /\ correlated \in [Corrs -> Msgs \cup {NoMsg}] /\ cancelled \subseteq Corrs
  /\ owed \subseteq Corrs
  /\ saturated \in BOOLEAN
  /\ answers \in [Msgs -> Seq(Outcomes)] /\ unheard \subseteq Msgs

(* The semaphore neither leaks nor overcommits: cascadeInFlight is the number
   of cascades that hold a slot, never above maxAckPending. *)
SlotsExact == slots = Cardinality(In(Holding)) /\ slots <= Cap

(* It conserves work: a cascade waits at the semaphore only while every slot
   is taken, so releaseSlot's hand-over loses no wake-up. *)
WorkConserving == In({"waiting"}) # {} => Cardinality(In(Holding)) = Cap

(* `skip`: a key whose policy is always skip has one registered cascade, even
   when two envelopes of one fetch are decided back to back. *)
SkipExclusive ==
  \A k \in Keys : policies[k] \subseteq {"skip"} => Cardinality(inFlight[k]) <= 1

(* `queue`: of the cascades a key admitted under the queue policy at most one
   is registered, whatever other policies the key had in between. *)
QueueSerial ==
  \A k \in Keys : \A m, n \in inFlight[k] :
    policy[m] = "queue" /\ policy[n] = "queue" => m = n

(* `replace`: on a key whose policy is replace (or skip, when the resolver
   throws) at most one registered cascade is not aborted. *)
ReplaceLeavesOne ==
  \A k \in Keys : policies[k] \subseteq {"skip", "replace"} =>
    \A m, n \in inFlight[k] : {m, n} \cap aborted = {} => m = n

(* No two envelopes carry the same correlation id. *)
UniqueCorr ==
  \A m, n \in Msgs : CorrOf[m] = CorrOf[n] /\ CorrOf[m] # NoCorr => m = n

(* A caller's cancellation this process received reaches its cascade: when it
   registers, at the semaphore or dispatching it is aborted, and so it is not
   dispatched any more. The one exception is the code's own: a record is dropped
   after an hour whatever became of its envelope, and one that still waits to
   register then (in an unbounded chain) runs as if nobody had cancelled. *)
CancelReaches ==
  UniqueCorr =>
    \A k \in Keys : \A m \in inFlight[k] : CorrOf[m] \in owed => m \in aborted

(* The saturated flag, which drives the queue_saturated / queue_drained events
   the UI shows, says at every moment whether over half the cap is registered. *)
SaturationExact ==
  saturated <=> 2 * Cardinality({m \in Msgs : \E k \in Keys : m \in inFlight[k]}) > Cap

(* Every way an envelope can end, expired, skipped, refused, failed or run,
   makes one attempt to answer its caller, and nothing does before: the caller
   is told once or, when that one publish failed, not at all (it waits until its
   own timeout), and never sees two outcomes. *)
AnsweredOnce ==
  \A m \in Msgs :
    LET told == CorrOf[m] # NoCorr /\ phase[m] = "over" IN
    /\ m \in unheard => told
    /\ Len(answers[m]) = IF told /\ m \notin unheard THEN 1 ELSE 0

(* In a process that stays up, every envelope taken from the stream is over
   eventually: again and again there is a moment at which none is in a handler,
   a chain, the semaphore or its dispatch, so that none of these forgets one. *)
EveryEnvelopeSettles ==
  []<>(In(Phases \ {"unsent", "pending", "over", "lost"}) = {} \/ ~Alive)

(* The comment in runCascade: "One `cascade.replaced` event per cancelled
   cascade". While the process lives, a replaced cascade leaves the walk of the
   one that replaced it only by being named in an event. *)
ReplacementSurfaced ==
  [][\A m \in Msgs : daemon' # "down" => replaced[m] \ replaced'[m] \subseteq surfaced']_vars

(* The consumer implements its contract. *)
Stage(p) == CASE p = "unsent" -> "unsent"
              [] p \in {"dispatching", "surfacing"} -> "running"
              [] p \in {"over", "lost"} -> "over"
              [] OTHER -> "accepted"

Job     == [m \in Msgs |-> Stage(phase[m])]
Replies == [m \in Msgs |-> Len(answers[m])]

Contract == INSTANCE CascadeContract WITH
  Correlated <- {m \in Msgs : CorrOf[m] # NoCorr}, job <- Job, replies <- Replies,
  unheard <- unheard

(* Whatever the policies, cancellations and restarts: each envelope runs at
   most once, no more than Cap at a time, and its caller is answered once when
   it is over, unless that one publish fails. *)
ImplementsContract == Contract!Spec

=============================================================================
