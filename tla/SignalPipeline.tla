---------------------------- MODULE SignalPipeline ----------------------------
(***************************************************************************)
(* The way of a signal to its cascade: publishSignal onto SIGNALS, the     *)
(* SignalConsumer that forwards it onto CASCADES (signal-stream.ts), the   *)
(* deduplication and the queue timeout that stand between a redelivered    *)
(* signal and a second run (cascade-stream.ts), and the HTTP handler that  *)
(* waits for the outcome (routes/workspaces/index.ts).                     *)
(*                                                                         *)
(* Time is a clock of coarse ticks; the broker's part is external. What    *)
(* happens to an admitted envelope is the module Cascade's subject.        *)
(***************************************************************************)
EXTENDS Integers, Sequences

CONSTANTS
  Sigs,          \* calls of publishSignal, one element each
  KeyOf,         \* the (workspace, signal) each call names
  Callers,       \* the calls whose HTTP handler waits for the outcome
  DupWindow,     \* CASCADES: how long a msgID is remembered
  QueueTimeout,  \* CASCADES consumer: how old an envelope may be
  CallTimeout,   \* awaitSignalCompletion
  MaxDeliver,    \* SIGNALS consumer: deliveries of one message
  Horizon,       \* bound: the last tick
  MaxCrashes,    \* bound: how often the daemon dies
  None

ASSUME PipelineAssumption ==
  /\ {DupWindow, QueueTimeout, CallTimeout, Horizon, MaxCrashes} \subseteq Nat
  /\ MaxDeliver \in Nat \ {0}
  /\ Callers \subseteq Sigs
  /\ None \notin Nat /\ None \notin Sigs

(* The defaults: both windows are five minutes, a caller waits for ten. *)
ASSUME WindowAssumption == QueueTimeout <= DupWindow /\ QueueTimeout < CallTimeout

VARIABLES
  now, up, crashes,
  publishedAt,   \* the envelope's publishedAt, None before the call
  signal,        \* the message of each call, as the SIGNALS broker sees it
  deliveries,    \* of that message
  batch,         \* delivered to runLoop, not yet handled: <<call, deliveryCount>>
  hand,          \* what handleMessage is busy with
  seenAt,        \* when CASCADES last accepted the envelope's msgID, or None
  queued,        \* copies of the envelope in CASCADES
  admitted,      \* how often one passed to the policy decision
  active,        \* admitted and not over, in this process
  caller         \* the HTTP handler of the call

clock   == <<now, up, crashes>>
broker  == <<signal, deliveries>>
worker  == <<batch, hand>>
cascade == <<seenAt, queued, admitted, active>>
vars    == <<clock, publishedAt, broker, worker, cascade, caller>>

Idle == [sig |-> None, count |-> 0, stage |-> "idle"]

Init ==
  /\ now = 0 /\ up = TRUE /\ crashes = 0
  /\ publishedAt = [s \in Sigs |-> None]
  /\ signal = [s \in Sigs |-> "none"]
  /\ deliveries = [s \in Sigs |-> 0]
  /\ batch = <<>> /\ hand = Idle
  /\ seenAt = [s \in Sigs |-> None] /\ queued = [s \in Sigs |-> 0]
  /\ admitted = [s \in Sigs |-> 0] /\ active = {}
  /\ caller = [s \in Sigs |-> "none"]

Age(s) == now - publishedAt[s]

-----------------------------------------------------------------------------
(* Publishing, and the caller that waits.                                  *)

(* The msgID is `${workspaceId}/${signalId}/${publishedAt}`: a second call
   for the same signal at the same instant has the same one. *)
SameId(s) ==
  \E t \in Sigs \ {s} : /\ KeyOf[t] = KeyOf[s] /\ publishedAt[t] = now
                        /\ signal[t] \notin {"none", "merged"}

Stored(s) == IF SameId(s) THEN "merged" ELSE "stored"

(* The handler subscribes, flushes and publishes; a call nobody waits for
   (cron, fs-watch, ?nowait=true) only publishes. *)
Trigger(s, stored, outcome) ==
  /\ up /\ publishedAt[s] = None
  /\ now + CallTimeout <= Horizon   \* bound: the caller's timer fits
  /\ publishedAt' = [publishedAt EXCEPT ![s] = now]
  /\ signal' = [signal EXCEPT ![s] = stored]
  /\ caller' = [caller EXCEPT ![s] = outcome]
  /\ UNCHANGED <<clock, deliveries, worker, cascade>>

PublishSignal(s) == Trigger(s, Stored(s), IF s \in Callers THEN "waiting" ELSE "released")

(* publish rejects: the broker may have stored the message all the same. *)
PublishFails(s) == \E stored \in {"none", Stored(s)} : Trigger(s, stored, "released")

(* A response reaches a caller still waiting; another's subscription is gone. *)
Respond(s) ==
  caller' = IF caller[s] = "waiting" THEN [caller EXCEPT ![s] = "released"] ELSE caller

StopWaiting(s, how) ==
  /\ caller[s] = "waiting"
  /\ caller' = [caller EXCEPT ![s] = how]
  /\ UNCHANGED <<clock, publishedAt, broker, worker, cascade>>

(* mutant of CallExpires: only a caller whose cascade was admitted has a timer *)
ExpiresIfAdmitted(s) ==
  StopWaiting(s, "timedout") /\ Age(s) >= CallTimeout /\ admitted[s] > 0

CallExpires(s) == StopWaiting(s, "timedout") /\ Age(s) >= CallTimeout

(* The client disconnects; the cancellation it sends is Cascade's Cancel. *)
Disconnect(s) == StopWaiting(s, "released")

-----------------------------------------------------------------------------
(* SIGNALS: delivery, redelivery and the forwarding consumer.              *)

Deliver(s) ==
  /\ up /\ signal[s] = "stored"
  /\ signal' = [signal EXCEPT ![s] = "delivered"]
  /\ deliveries' = [deliveries EXCEPT ![s] = @ + 1]
  /\ batch' = Append(batch, <<s, deliveries'[s]>>)
  /\ UNCHANGED <<clock, publishedAt, hand, cascade, caller>>

(* The broker will deliver it again, unless it has done so MaxDeliver times:
   then the message stays where it is and nobody sees it again. *)
Return(s) == signal' = [signal EXCEPT ![s] = IF deliveries[s] < MaxDeliver THEN "stored"
                                             ELSE "exhausted"]

(* The acknowledgement wait of a delivery lapses: the daemon died, or it is slow.
   No property depends on how long it is, so that it may lapse at any time. *)
AckExpires(s) ==
  /\ signal[s] = "delivered"
  /\ Return(s)
  /\ UNCHANGED <<clock, publishedAt, deliveries, worker, cascade, caller>>

HandleRedelivered ==   \* mutant of HandleNext: redeliveries are counted, not deliveries
  /\ up /\ hand = Idle /\ batch # <<>>
  /\ hand' = [sig |-> Head(batch)[1], count |-> Head(batch)[2] - 1, stage |-> "forwarding"]
  /\ batch' = Tail(batch)
  /\ UNCHANGED <<clock, publishedAt, broker, cascade, caller>>

(* runLoop awaits handleMessage before it takes the next of the batch. *)
HandleNext ==
  /\ up /\ hand = Idle /\ batch # <<>>
  /\ hand' = [sig |-> Head(batch)[1], count |-> Head(batch)[2], stage |-> "forwarding"]
  /\ batch' = Tail(batch)
  /\ UNCHANGED <<clock, publishedAt, broker, cascade, caller>>

(* CASCADES remembers the msgID: the copy is acknowledged and dropped. *)
Duplicate(s) == seenAt[s] # None /\ now - seenAt[s] <= DupWindow

AcceptUnnamed(s) ==   \* mutant of Accept: published without the signal's msgID
  /\ seenAt' = [seenAt EXCEPT ![s] = now]
  /\ queued' = [queued EXCEPT ![s] = @ + 1]

(* publishCascade, with the msgID of the signal. *)
Accept(s) ==
  IF Duplicate(s) THEN UNCHANGED <<seenAt, queued>>
  ELSE /\ seenAt' = [seenAt EXCEPT ![s] = now]
       /\ queued' = [queued EXCEPT ![s] = @ + 1]

(* publishCascade: CASCADES has it and the acknowledgement comes back, or is
   lost, or the publish fails outright. *)
ForwardCascade ==
  /\ up /\ hand.stage = "forwarding"
  /\ \/ Accept(hand.sig) /\ \E r \in {"forwarded", "failed"} : hand' = [hand EXCEPT !.stage = r]
     \/ hand' = [hand EXCEPT !.stage = "failed"] /\ UNCHANGED <<seenAt, queued>>
  /\ UNCHANGED <<clock, publishedAt, broker, batch, admitted, active, caller>>

AckEarly ==   \* mutant of AckSignal: acknowledged before it is forwarded
  /\ up /\ hand.stage \in {"forwarding", "forwarded"}
  /\ hand' = Idle
  /\ signal' = [signal EXCEPT ![hand.sig] = "gone"]
  /\ UNCHANGED <<clock, publishedAt, deliveries, batch, cascade, caller>>

AckSignal ==
  /\ up /\ hand.stage = "forwarded"
  /\ hand' = Idle
  /\ signal' = [signal EXCEPT ![hand.sig] = "gone"]
  /\ UNCHANGED <<clock, publishedAt, deliveries, batch, cascade, caller>>

NakForgotten ==   \* mutant of NakSignal: the failure is only logged
  /\ up /\ hand.stage = "failed"
  /\ hand' = Idle
  /\ UNCHANGED <<clock, publishedAt, broker, batch, cascade, caller>>

(* Give up at the last delivery, ask for another before. *)
NakSignal ==
  /\ up /\ hand.stage = "failed"
  /\ hand' = Idle
  /\ CASE signal[hand.sig] \in {"gone", "dead"} -> UNCHANGED signal
       [] hand.count >= MaxDeliver -> signal' = [signal EXCEPT ![hand.sig] = "dead"]
       [] signal[hand.sig] = "delivered" -> Return(hand.sig)
       [] OTHER -> UNCHANGED signal
  /\ UNCHANGED <<clock, publishedAt, deliveries, batch, cascade, caller>>

-----------------------------------------------------------------------------
(* CASCADES: the queue timeout and the outcome.                            *)

NeverStale(s) == FALSE   \* mutant of Stale: redelivery is left to the duplicate window

Stale(s) == Age(s) > QueueTimeout

Expire(s) ==
  /\ up /\ queued[s] > 0 /\ Stale(s)
  /\ queued' = [queued EXCEPT ![s] = @ - 1]
  /\ Respond(s)
  /\ UNCHANGED <<clock, publishedAt, broker, worker, seenAt, admitted, active>>

(* Taken up, not begun: a queue envelope is put behind its chain, and every cascade
   waits for a slot, with no further look at its age (Cascade's RunChained, Dispatch). *)
Admit(s) ==
  /\ up /\ queued[s] > 0 /\ ~Stale(s)
  /\ queued' = [queued EXCEPT ![s] = @ - 1]
  /\ admitted' = [admitted EXCEPT ![s] = @ + 1]
  /\ active' = active \cup {s}
  /\ UNCHANGED <<clock, publishedAt, broker, worker, seenAt, caller>>

Conclude(s) ==
  /\ up /\ s \in active
  /\ active' = active \ {s}
  /\ Respond(s)
  /\ UNCHANGED <<clock, publishedAt, broker, worker, seenAt, queued, admitted>>

-----------------------------------------------------------------------------
Tick ==
  /\ now < Horizon
  /\ now' = now + 1
  /\ UNCHANGED <<up, crashes, publishedAt, broker, worker, cascade, caller>>

(* The daemon dies: both streams survive, its handlers and their callers do
   not. An envelope taken from CASCADES is not delivered again. *)
Crash ==
  /\ up /\ crashes < MaxCrashes
  /\ up' = FALSE /\ crashes' = crashes + 1
  /\ batch' = <<>> /\ hand' = Idle
  /\ active' = {}
  /\ caller' = [s \in Sigs |-> IF caller[s] = "waiting" THEN "released" ELSE caller[s]]
  /\ UNCHANGED <<now, publishedAt, broker, seenAt, queued, admitted>>

Restart ==
  /\ ~up /\ up' = TRUE
  /\ UNCHANGED <<now, crashes, publishedAt, broker, worker, cascade, caller>>

Handler == HandleNext \/ ForwardCascade \/ AckSignal \/ NakSignal

Next ==
  \/ \E s \in Sigs : \/ PublishSignal(s) \/ PublishFails(s)
                     \/ CallExpires(s) \/ Disconnect(s)
                     \/ Deliver(s) \/ AckExpires(s)
                     \/ Expire(s) \/ Admit(s) \/ Conclude(s)
  \/ Handler \/ Tick \/ Crash \/ Restart

Spec == Init /\ [][Next]_vars

(* Time passes, the consumers keep fetching while the daemon runs and a
   publish settles; nobody has to trigger, answer, disconnect or crash. *)
Fairness ==
  /\ WF_vars(Tick) /\ WF_vars(Handler)
  /\ \A s \in Sigs : WF_vars(Deliver(s)) /\ WF_vars(CallExpires(s))

FairSpec == Spec /\ Fairness

-----------------------------------------------------------------------------
Times == 0..Horizon

(* Every variable keeps to its domain along the way of a signal through
   signal-stream.ts and cascade-stream.ts. *)
TypeOK ==
  /\ now \in Times /\ up \in BOOLEAN /\ crashes \in 0..MaxCrashes
  /\ publishedAt \in [Sigs -> Times \cup {None}]
  /\ signal \in [Sigs -> {"none", "merged", "stored", "delivered", "exhausted", "gone",
                          "dead"}]
  /\ deliveries \in [Sigs -> 0..MaxDeliver]
  /\ batch \in Seq(Sigs \X (1..MaxDeliver))
  /\ hand \in [sig : Sigs, count : 1..MaxDeliver,
               stage : {"forwarding", "forwarded", "failed"}] \cup {Idle}
  /\ seenAt \in [Sigs -> Times \cup {None}]
  /\ queued \in [Sigs -> Nat] /\ admitted \in [Sigs -> Nat]
  /\ active \subseteq Sigs
  /\ caller \in [Sigs -> {"none", "waiting", "released", "timedout"}]

(* The doc of publishCascade: the msgID is the signal envelope's own, "so a
   redelivered SIGNALS msg can't double-dispatch the same cascade". A crash
   between publishCascade and the acknowledgement, a lost acknowledgement or a
   slow batch has the signal forwarded again, maybe after the duplicate window
   has passed: by then the queue timeout refuses it. *)
AdmittedOnce == \A s \in Sigs : admitted[s] <= 1

(* A signal leaves SIGNALS acknowledged only when CASCADES has its envelope:
   the hand-over loses none, whenever the daemon dies. *)
AckedWasForwarded == \A s \in Sigs : signal[s] = "gone" => seenAt[s] # None

(* The queue timeout, "if the envelope sat long enough that any synchronous caller
   has already given up, term it": a copy that is still on CASCADES when its caller
   is told of a timeout, or that arrives there later, is refused and never taken
   up. It is no promise about the beginning: a cascade taken up in time may begin
   later, from its chain or at the semaphore, for a caller who has gone. *)
AdmittedInTime ==
  [][\A s \in Sigs : admitted'[s] > admitted[s] => caller[s] # "timedout"]_vars

(* In a daemon that stays up a stored signal does not circulate for ever: it
   is forwarded or given up after MaxDeliver deliveries. *)
SignalSettles ==
  \A s \in Sigs :
    signal[s] = "stored" ~> signal[s] \in {"gone", "dead", "exhausted"} \/ ~up

(* A handler that waits for a cascade is released, answered or not, even when
   its signal was merged, lost or left behind by a crash. *)
CallerReleased == \A s \in Sigs : caller[s] = "waiting" ~> caller[s] # "waiting"

(* The comment in the trigger route: "publish to SIGNALS stream and return 202
   immediately with a correlationId. The cascade runs async on CASCADES
   regardless". A publish the broker acknowledged has its message stored. *)
PublishedIsStored == \A s \in Sigs : signal[s] # "merged"
=============================================================================
