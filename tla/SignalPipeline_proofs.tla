------------------------- MODULE SignalPipeline_proofs -------------------------
(***************************************************************************)
(* Proofs about SignalPipeline for every set of calls, every pair of       *)
(* windows the assumptions allow, any number of deliveries and crashes.    *)
(***************************************************************************)
EXTENDS SignalPipeline, TLAPS

Published(s) == publishedAt[s] # None

(* The clock readings of a call follow the order of its way. *)
Ordered(s) ==
  /\ Published(s) => publishedAt[s] <= now
  /\ seenAt[s] # None => Published(s) /\ publishedAt[s] <= seenAt[s] /\ seenAt[s] <= now

(* Nothing of a call exists before it is made, or in CASCADES before it is seen. *)
Fresh(s) ==
  /\ ~Published(s) => signal[s] = "none" /\ deliveries[s] = 0 /\ caller[s] = "none"
  /\ seenAt[s] = None => queued[s] = 0 /\ admitted[s] = 0
  /\ signal[s] = "stored" => deliveries[s] < MaxDeliver

(* While an envelope may still be admitted there is one of it, or it was. *)
SingleCopy(s) ==
  /\ admitted[s] <= 1
  /\ Published(s) /\ ~Stale(s) => queued[s] + admitted[s] <= 1

(* What the forwarder says of a call is so. *)
Forwarded(s) ==
  /\ signal[s] = "gone" => seenAt[s] # None
  /\ caller[s] = "timedout" => Published(s) /\ Age(s) >= CallTimeout

InHand ==
  /\ \A i \in 1..Len(batch) : Published(batch[i][1])
  /\ hand # Idle => Published(hand.sig)
  /\ hand.stage = "forwarded" => seenAt[hand.sig] # None

PipeInv ==
  /\ \A s \in Sigs : Ordered(s) /\ Fresh(s) /\ SingleCopy(s) /\ Forwarded(s)
  /\ InHand

IInv == TypeOK /\ PipeInv

-----------------------------------------------------------------------------
(* The consumer is busy with a real delivery whenever it is not idle. *)
LEMMA Busied ==
  ASSUME PipelineAssumption, TypeOK, hand.stage \in {"forwarding", "forwarded", "failed"}
  PROVE  /\ hand # Idle /\ hand.sig \in Sigs /\ hand.count \in 1..MaxDeliver
         /\ hand \in [sig : Sigs, count : 1..MaxDeliver,
                      stage : {"forwarding", "forwarded", "failed"}]
BY DEF TypeOK, Idle

(* Taking the first of the batch leaves the rest of it, and yields a delivery. *)
LEMMA FirstOfBatch ==
  ASSUME TypeOK, batch # <<>>
  PROVE  /\ Head(batch) = batch[1] /\ Head(batch) \in Sigs \X (1..MaxDeliver)
         /\ Tail(batch) \in Seq(Sigs \X (1..MaxDeliver))
         /\ Len(Tail(batch)) = Len(batch) - 1 /\ 1 \in 1..Len(batch)
         /\ \A i \in 1..Len(Tail(batch)) : Tail(batch)[i] = batch[i + 1]
BY DEF TypeOK

LEMMA BatchTyped ==
  ASSUME TypeOK
  PROVE  \A i \in 1..Len(batch) : /\ batch[i] \in Sigs \X (1..MaxDeliver)
                                  /\ batch[i][1] \in Sigs
<1>1. batch \in Seq(Sigs \X (1..MaxDeliver))
  BY DEF TypeOK
<1>2. \A i \in 1..Len(batch) : batch[i] \in Sigs \X (1..MaxDeliver)
  BY <1>1
<1> QED BY <1>2

LEMMA InitInv == ASSUME PipelineAssumption, Init PROVE IInv
<1>1. TypeOK
  BY DEF PipelineAssumption, Init, TypeOK, Times
<1>2. PipeInv
  BY DEF PipelineAssumption, Init, PipeInv, Ordered, Fresh, SingleCopy, Forwarded,
         InHand, Published, Stale, Age, Idle
<1> QED BY <1>1, <1>2 DEF IInv

(* A call that is made, or fails. *)
LEMMA TriggerInv ==
  ASSUME PipelineAssumption, IInv, NEW s \in Sigs, NEW stored \in {"none", "stored", "merged"},
         NEW outcome \in {"waiting", "released"}, Trigger(s, stored, outcome)
  PROVE  IInv'
<1> USE DEF Trigger, IInv, clock, worker, cascade
<1>1. publishedAt' = [publishedAt EXCEPT ![s] = now] /\ publishedAt[s] = None
  OBVIOUS
<1>2. TypeOK'
  BY DEF TypeOK, Times
<1>3. \A t \in Sigs : t # s => /\ publishedAt'[t] = publishedAt[t] /\ signal'[t] = signal[t]
                              /\ caller'[t] = caller[t]
  BY DEF TypeOK
<1>4. publishedAt'[s] = now /\ signal'[s] = stored /\ caller'[s] = outcome /\ now \in Nat
      /\ now # None
  BY DEF TypeOK, Times, PipelineAssumption
<1>5. seenAt[s] = None /\ queued[s] = 0 /\ admitted[s] = 0 /\ deliveries[s] = 0
  BY DEF PipeInv, Ordered, Fresh, Published
<1>6. \A t \in Sigs : Ordered(t)' /\ Fresh(t)' /\ SingleCopy(t)' /\ Forwarded(t)'
  <2> TAKE t \in Sigs
  <2>1. CASE t = s
    BY <2>1, <1>4, <1>5 DEF Ordered, Fresh, SingleCopy, Forwarded, Published,
                            PipelineAssumption
  <2>2. CASE t # s
    BY <2>2, <1>3 DEF PipeInv, Ordered, Fresh, SingleCopy, Forwarded, Published, Stale, Age
  <2> QED BY <2>1, <2>2
<1>7. InHand'
  <2>1. hand' = hand /\ batch' = batch /\ seenAt' = seenAt /\ InHand
    BY DEF PipeInv
  <2>2. \A t : Published(t) /\ t \in Sigs => Published(t)'
    BY <1>3, <1>4 DEF Published
  <2>3. \A i \in 1..Len(batch) : batch[i][1] \in Sigs
    BY BatchTyped
  <2>4. hand # Idle => hand.sig \in Sigs
    BY DEF TypeOK
  <2> QED BY <2>1, <2>2, <2>3, <2>4 DEF InHand
<1> QED BY <1>2, <1>6, <1>7 DEF PipeInv

(* A step that leaves the envelope, CASCADES, the worker and the clock alone and
   moves a message or a caller within its bounds. *)
LEMMA MessageInv ==
  ASSUME PipelineAssumption, IInv, NEW s \in Sigs,
         \/ CallExpires(s) \/ Disconnect(s) \/ AckExpires(s)
  PROVE  IInv'
<1> USE DEF IInv
<1>1. UNCHANGED <<now, publishedAt, batch, hand, seenAt, queued, admitted>>
  BY DEF CallExpires, Disconnect, StopWaiting, AckExpires, clock, broker, worker, cascade
<1>2. InHand'
  BY <1>1 DEF PipeInv, InHand, Published
<1>3. CASE CallExpires(s) \/ Disconnect(s)
  <2>1. TypeOK'
    BY <1>3 DEF CallExpires, Disconnect, StopWaiting, TypeOK, clock, broker, worker, cascade
  <2>2. \A t \in Sigs : Ordered(t)' /\ SingleCopy(t)'
    BY <1>1 DEF PipeInv, Ordered, SingleCopy, Published, Stale, Age
  <2>4. \A t \in Sigs : Fresh(t)'
    BY <1>1, <1>3 DEF CallExpires, Disconnect, StopWaiting, broker, PipeInv, Fresh,
                     Published, TypeOK
  <2>3. \A t \in Sigs : Forwarded(t)'
    BY <1>1, <1>3 DEF CallExpires, Disconnect, StopWaiting, broker, PipeInv, Forwarded,
                     Fresh, Published, Age, TypeOK
  <2> QED BY <1>2, <2>1, <2>2, <2>3, <2>4 DEF PipeInv
<1>4. CASE AckExpires(s)
  <2>1. TypeOK'
    BY <1>4 DEF AckExpires, Return, TypeOK, clock, worker, cascade
  <2>2. \A t \in Sigs : Ordered(t)' /\ SingleCopy(t)'
    BY <1>1 DEF PipeInv, Ordered, SingleCopy, Published, Stale, Age
  <2>3. \A t \in Sigs : Fresh(t)' /\ Forwarded(t)'
    BY <1>1, <1>4 DEF AckExpires, Return, PipeInv, Fresh, Forwarded, Published, Age, TypeOK
  <2> QED BY <1>2, <2>1, <2>2, <2>3 DEF PipeInv
<1> QED BY <1>3, <1>4

LEMMA DeliverInv ==
  ASSUME PipelineAssumption, IInv, NEW s \in Sigs, Deliver(s)
  PROVE  IInv'
<1> USE DEF IInv
<1>1. UNCHANGED <<now, publishedAt, hand, seenAt, queued, admitted, caller>>
  BY DEF Deliver, clock, cascade
<1>2. deliveries'[s] = deliveries[s] + 1 /\ deliveries'[s] \in 1..MaxDeliver
  BY DEF Deliver, PipeInv, Fresh, TypeOK, PipelineAssumption
<1>3. batch' = Append(batch, <<s, deliveries'[s]>>) /\ batch \in Seq(Sigs \X (1..MaxDeliver))
  BY DEF Deliver, TypeOK
<1>4. <<s, deliveries'[s]>> \in Sigs \X (1..MaxDeliver)
  BY <1>2
<1>5. TypeOK'
  <2>1. batch' \in Seq(Sigs \X (1..MaxDeliver))
    BY <1>3, <1>4
  <2>2. deliveries' \in [Sigs -> 0..MaxDeliver]
    BY <1>2 DEF Deliver, TypeOK
  <2> QED BY <2>1, <2>2 DEF Deliver, TypeOK, clock, cascade
<1>6. \A t \in Sigs : Ordered(t)' /\ SingleCopy(t)'
  BY <1>1 DEF PipeInv, Ordered, SingleCopy, Published, Stale, Age
<1>7. \A t \in Sigs : Fresh(t)' /\ Forwarded(t)'
  BY <1>1 DEF Deliver, PipeInv, Fresh, Forwarded, Published, Age, TypeOK
<1>8. InHand'
  <2>1. Published(s)
    BY DEF Deliver, PipeInv, Fresh
  <2>2. \A i \in 1..Len(batch') : batch'[i] = IF i <= Len(batch) THEN batch[i]
                                              ELSE <<s, deliveries'[s]>>
    BY <1>3, <1>4
  <2>3. Len(batch') = Len(batch) + 1 /\ Len(batch) \in Nat
    BY <1>3
  <2>4. \A i \in 1..Len(batch') : Published(batch'[i][1])
    <3> TAKE i \in 1..Len(batch')
    <3>1. CASE i <= Len(batch)
      BY <3>1, <2>2, <2>3 DEF PipeInv, InHand
    <3>2. CASE ~(i <= Len(batch))
      BY <3>2, <2>1, <2>2
    <3> QED BY <3>1, <3>2
  <2> QED BY <1>1, <2>4 DEF PipeInv, InHand, Published
<1> QED BY <1>5, <1>6, <1>7, <1>8 DEF PipeInv

LEMMA HandleNextInv ==
  ASSUME PipelineAssumption, IInv, HandleNext
  PROVE  IInv'
<1> USE DEF IInv
<1>1. UNCHANGED <<now, publishedAt, signal, deliveries, seenAt, queued, admitted, caller>>
  BY DEF HandleNext, clock, broker, cascade
<1>2. batch # <<>> /\ batch' = Tail(batch) /\ hand'.sig = batch[1][1]
      /\ hand'.stage = "forwarding"
  BY FirstOfBatch DEF HandleNext
<1>3. TypeOK'
  BY FirstOfBatch DEF HandleNext, TypeOK, clock, broker, cascade
<1>4. \A t \in Sigs : Ordered(t)' /\ Fresh(t)' /\ SingleCopy(t)' /\ Forwarded(t)'
  BY <1>1 DEF PipeInv, Ordered, Fresh, SingleCopy, Forwarded, Published, Stale, Age
<1>5. InHand'
  <2>1. \A i \in 1..Len(batch') : i + 1 \in 1..Len(batch) /\ batch'[i] = batch[i + 1]
    BY <1>2, FirstOfBatch DEF TypeOK
  <2>2. (\A i \in 1..Len(batch) : Published(batch[i][1]))'
    BY <1>1, <2>1 DEF PipeInv, InHand, Published
  <2>3. Published(hand.sig)'
    BY <1>1, <1>2, FirstOfBatch DEF PipeInv, InHand, Published
  <2> QED BY <1>2, <2>2, <2>3 DEF InHand, Published
<1> QED BY <1>3, <1>4, <1>5 DEF PipeInv

(* CASCADES takes a copy: by then no earlier one can be admitted any more. *)
LEMMA ForwardInv ==
  ASSUME PipelineAssumption, WindowAssumption, IInv, ForwardCascade
  PROVE  IInv'
<1> USE DEF IInv
<1>0. PICK s \in Sigs : s = hand.sig
  BY Busied DEF ForwardCascade
<1>1. UNCHANGED <<now, publishedAt, signal, deliveries, batch, admitted, caller>>
  BY DEF ForwardCascade, clock, broker
<1>2. s \in Sigs /\ hand # Idle /\ Published(s) /\ now \in Nat /\ publishedAt[s] \in Nat
  BY <1>0, Busied DEF ForwardCascade, PipeInv, InHand, TypeOK, Times, Published
<1>3. hand'.sig = s /\ hand'.stage \in {"forwarded", "failed"} /\ hand' # Idle
      /\ hand' \in [sig : Sigs, count : 1..MaxDeliver,
                    stage : {"forwarding", "forwarded", "failed"}]
  BY <1>0, Busied DEF ForwardCascade, Idle
<1>4. CASE UNCHANGED <<seenAt, queued>>
  <2>1. TypeOK'
    BY <1>3, <1>4 DEF ForwardCascade, TypeOK, clock, broker
  <2>2. \A t \in Sigs : Ordered(t)' /\ Fresh(t)' /\ SingleCopy(t)' /\ Forwarded(t)'
    BY <1>1, <1>4 DEF PipeInv, Ordered, Fresh, SingleCopy, Forwarded, Published, Stale, Age
  <2>3. hand'.stage = "forwarded" => seenAt[s] # None
    BY <1>0, <1>2, <1>4 DEF ForwardCascade, Accept, Duplicate, TypeOK
  <2>4. InHand'
    BY <1>0, <1>1, <1>2, <1>3, <1>4, <2>3 DEF PipeInv, InHand, Published
  <2> QED BY <2>1, <2>2, <2>4 DEF PipeInv
<1>5. CASE /\ ~Duplicate(s)
           /\ seenAt' = [seenAt EXCEPT ![s] = now]
           /\ queued' = [queued EXCEPT ![s] = @ + 1]
  <2>1. TypeOK'
    <3>1. /\ seenAt \in [Sigs -> Times \cup {None}] /\ queued \in [Sigs -> Nat]
          /\ now \in Times
      BY Zenon DEF TypeOK
    <3>2. seenAt' \in [Sigs -> Times \cup {None}]
      BY <1>5, <3>1
    <3>3. queued' \in [Sigs -> Nat]
      BY <1>5, <3>1
    <3> QED BY <1>3, <3>2, <3>3 DEF ForwardCascade, TypeOK, clock, broker
  <2>2. seenAt'[s] = now /\ queued'[s] = queued[s] + 1 /\ now # None
    BY <1>2, <1>5 DEF TypeOK, PipelineAssumption
  <2>3. \A t \in Sigs : t # s => seenAt'[t] = seenAt[t] /\ queued'[t] = queued[t]
    BY <1>5 DEF TypeOK
  <2>4. Ordered(s)' /\ Fresh(s)' /\ Forwarded(s)'
    <3>1. Ordered(s) /\ Fresh(s) /\ Forwarded(s)
      BY <1>2 DEF PipeInv
    <3>2. Ordered(s)'
      BY <1>1, <1>2, <2>2, <3>1 DEF Ordered, Published
    <3>3. Fresh(s)' /\ Forwarded(s)'
      BY <1>1, <1>2, <2>2, <3>1 DEF Fresh, Forwarded, Published, Age
    <3> QED BY <3>2, <3>3
  <2>5. ~Stale(s) => queued[s] + admitted[s] = 0
    <3>1. CASE seenAt[s] = None
      BY <3>1, <1>2 DEF PipeInv, Fresh
    <3>2. CASE seenAt[s] # None
      <4>1. seenAt[s] \in Nat /\ publishedAt[s] <= seenAt[s]
        <5>1. seenAt[s] \in Nat
          BY <3>2, <1>2 DEF TypeOK, Times
        <5> QED BY <3>2, <1>2, <5>1 DEF PipeInv, Ordered
      <4>3. now - seenAt[s] > DupWindow
        BY <3>2, <4>1, <1>2, <1>5 DEF Duplicate, PipelineAssumption
      <4>2. Stale(s)
        BY <4>1, <4>3, <1>2 DEF Stale, Age, WindowAssumption, PipelineAssumption
      <4> QED BY <4>2
    <3> QED BY <3>1, <3>2
  <2>6. SingleCopy(s)'
    <3>1. SingleCopy(s) /\ queued[s] \in Nat /\ admitted[s] \in Nat
      BY <1>2 DEF PipeInv, TypeOK
    <3> QED BY <1>1, <2>2, <2>5, <3>1 DEF SingleCopy, Published, Stale, Age
  <2>7. \A t \in Sigs : t # s =>
          Ordered(t)' /\ Fresh(t)' /\ SingleCopy(t)' /\ Forwarded(t)'
    BY <1>1, <2>3 DEF PipeInv, Ordered, Fresh, SingleCopy, Forwarded, Published, Stale, Age
  <2>8. InHand'
    <3>1. hand'.stage = "forwarded" => seenAt'[hand'.sig] # None
      BY <1>3, <2>2
    <3> QED BY <1>0, <1>1, <1>2, <1>3, <3>1 DEF PipeInv, InHand, Published
  <2> QED BY <2>1, <2>4, <2>6, <2>7, <2>8 DEF PipeInv
<1> QED BY <1>0, <1>4, <1>5 DEF ForwardCascade, Accept

LEMMA SettleInv ==
  ASSUME PipelineAssumption, IInv, AckSignal \/ NakSignal
  PROVE  IInv'
<1> DEFINE s == hand.sig
<1> USE DEF IInv
<1>1. UNCHANGED <<now, publishedAt, deliveries, batch, seenAt, queued, admitted, caller>>
      /\ hand' = Idle
  BY DEF AckSignal, NakSignal, clock, cascade
<1>2. s \in Sigs /\ hand # Idle /\ Published(s)
  BY Busied DEF AckSignal, NakSignal, PipeInv, InHand
<1>3. InHand'
  BY <1>1 DEF PipeInv, InHand, Published, Idle
<1>4. \A t \in Sigs : Ordered(t)' /\ SingleCopy(t)'
  BY <1>1 DEF PipeInv, Ordered, SingleCopy, Published, Stale, Age
<1>5. \E x \in {"gone", "dead", "stored", "exhausted", signal[s]} :
        /\ signal' = [signal EXCEPT ![s] = x]
        /\ x = "gone" => seenAt[s] # None
        /\ x = "stored" => deliveries[s] < MaxDeliver
  <2>1. CASE AckSignal
    BY <2>1 DEF AckSignal, PipeInv, InHand
  <2>2. CASE NakSignal
    <3>1. signal = [signal EXCEPT ![s] = signal[s]]
      BY <1>2 DEF TypeOK
    <3>2. (signal[s] = "gone" => seenAt[s] # None)
          /\ (signal[s] = "stored" => deliveries[s] < MaxDeliver)
      BY <1>2 DEF PipeInv, Fresh, Forwarded
    <3>3. CASE UNCHANGED signal
      BY <3>1, <3>2, <3>3
    <3>4. CASE signal' = [signal EXCEPT ![s] = "dead"]
      BY <3>4
    <3>5. CASE Return(s)
      BY <3>5 DEF Return
    <3> QED BY <2>2, <3>3, <3>4, <3>5 DEF NakSignal
  <2> QED BY <2>1, <2>2
<1>6. TypeOK'
  BY <1>1, <1>2, <1>5 DEF AckSignal, NakSignal, TypeOK, clock, cascade
<1>7. \A t \in Sigs : Fresh(t)' /\ Forwarded(t)'
  BY <1>1, <1>2, <1>5 DEF PipeInv, Fresh, Forwarded, Published, Age, TypeOK
<1> QED BY <1>3, <1>4, <1>6, <1>7 DEF PipeInv

(* CASCADES gives an envelope up, or ends a cascade. *)
LEMMA EndInv ==
  ASSUME PipelineAssumption, IInv, NEW s \in Sigs, Expire(s) \/ Conclude(s)
  PROVE  IInv'
<1> USE DEF IInv
<1>1. UNCHANGED <<now, publishedAt, signal, deliveries, batch, hand, seenAt, admitted>>
  BY DEF Expire, Conclude, clock, broker, worker
<1>2. \/ queued' = queued
      \/ queued' = [queued EXCEPT ![s] = queued[s] - 1] /\ queued[s] > 0
  BY DEF Expire, Conclude
<1>3. \/ caller' = caller
      \/ caller' = [caller EXCEPT ![s] = "released"] /\ caller[s] = "waiting"
  BY DEF Expire, Conclude, Respond
<1>4. queued' \in [Sigs -> Nat] /\ \A t \in Sigs : queued'[t] <= queued[t]
  <2>1. queued \in [Sigs -> Nat]
    BY DEF TypeOK
  <2>2. CASE queued' = queued
    BY <2>1, <2>2
  <2>3. CASE queued' = [queued EXCEPT ![s] = queued[s] - 1] /\ queued[s] > 0
    <3>1. queued[s] \in Nat /\ queued[s] - 1 \in Nat
      BY <2>1, <2>3
    <3> QED BY <2>1, <2>3, <3>1
  <2> QED BY <1>2, <2>2, <2>3
<1>5. TypeOK'
  <2>1. active' \subseteq Sigs /\ up' = up /\ crashes' = crashes
    BY DEF Expire, Conclude, clock, TypeOK
  <2> QED BY <1>1, <1>3, <1>4, <2>1 DEF TypeOK
<1>6. \A t \in Sigs : Ordered(t)' /\ Forwarded(t)'
  BY <1>1, <1>3 DEF PipeInv, Ordered, Forwarded, Published, Age, TypeOK
<1>7. \A t \in Sigs : Fresh(t)'
  BY <1>1, <1>3, <1>4 DEF PipeInv, Fresh, Published, TypeOK
<1>8. \A t \in Sigs : SingleCopy(t)'
  <2> TAKE t \in Sigs
  <2>1. SingleCopy(t) /\ queued[t] \in Nat /\ admitted[t] \in Nat /\ queued'[t] \in Nat
        /\ queued'[t] <= queued[t]
    BY <1>4 DEF PipeInv, TypeOK
  <2> QED BY <1>1, <2>1 DEF SingleCopy, Published, Stale, Age
<1>9. InHand'
  BY <1>1 DEF PipeInv, InHand, Published
<1> QED BY <1>5, <1>6, <1>7, <1>8, <1>9 DEF PipeInv

(* An envelope is published, alone and admitted for the first time when Admit
   takes it, and its caller has not timed out. *)
LEMMA AdmitFirst ==
  ASSUME PipelineAssumption, WindowAssumption, IInv, NEW s \in Sigs, Admit(s)
  PROVE  /\ queued[s] = 1 /\ admitted[s] = 0
         /\ caller[s] # "timedout"
<1> USE DEF IInv
<1>1. queued[s] \in Nat /\ admitted[s] \in Nat /\ queued[s] > 0 /\ ~Stale(s)
  BY DEF Admit, TypeOK
<1>2. Published(s)
  BY <1>1 DEF PipeInv, Fresh, Ordered
<1>3. queued[s] + admitted[s] <= 1
  BY <1>1, <1>2 DEF PipeInv, SingleCopy
<1>4. now \in Nat /\ publishedAt[s] \in Nat
  BY <1>2 DEF TypeOK, Times, Published
<1>5. caller[s] # "timedout"
  BY <1>1, <1>4 DEF PipeInv, Forwarded, Stale, Age, WindowAssumption, PipelineAssumption
<1> QED BY <1>1, <1>3, <1>5

LEMMA AdmitInv ==
  ASSUME PipelineAssumption, WindowAssumption, IInv, NEW s \in Sigs, Admit(s)
  PROVE  IInv'
<1> USE DEF IInv
<1>1. UNCHANGED <<now, up, crashes, publishedAt, signal, deliveries, batch, hand, seenAt,
                  caller>>
  BY DEF Admit, clock, broker, worker
<1>2. /\ queued' = [queued EXCEPT ![s] = queued[s] - 1]
      /\ admitted' = [admitted EXCEPT ![s] = admitted[s] + 1]
      /\ active' = active \cup {s}
  BY DEF Admit
<1>3. queued[s] = 1 /\ admitted[s] = 0
  BY AdmitFirst
<1>4. queued'[s] = 0 /\ admitted'[s] = 1
  BY <1>2, <1>3 DEF TypeOK
<1>5. \A t \in Sigs : t # s => queued'[t] = queued[t] /\ admitted'[t] = admitted[t]
  BY <1>2 DEF TypeOK
<1>6. TypeOK'
  BY <1>1, <1>2, <1>3 DEF TypeOK
<1>7. seenAt[s] # None
  BY <1>3 DEF PipeInv, Fresh
<1>8. \A t \in Sigs : Ordered(t)' /\ Forwarded(t)'
  BY <1>1 DEF PipeInv, Ordered, Forwarded, Published, Age
<1>9. \A t \in Sigs : Fresh(t)' /\ SingleCopy(t)'
  <2> TAKE t \in Sigs
  <2>1. CASE t = s
    BY <2>1, <1>1, <1>4, <1>7 DEF PipeInv, Fresh, SingleCopy, Published
  <2>2. CASE t # s
    BY <2>2, <1>1, <1>5 DEF PipeInv, Fresh, SingleCopy, Published, Stale, Age
  <2> QED BY <2>1, <2>2
<1>10. InHand'
  BY <1>1 DEF PipeInv, InHand, Published
<1> QED BY <1>6, <1>8, <1>9, <1>10 DEF PipeInv

(* Time passes: what is stale stays stale. *)
LEMMA TickInv ==
  ASSUME PipelineAssumption, IInv, Tick
  PROVE  IInv'
<1> USE DEF IInv
<1>1. UNCHANGED <<publishedAt, signal, deliveries, batch, hand, seenAt, queued, admitted,
                  caller>>
  BY DEF Tick, broker, worker, cascade
<1>2. now' = now + 1 /\ now \in Nat /\ now' \in Times
  BY DEF Tick, TypeOK, Times, PipelineAssumption
<1>3. TypeOK'
  BY <1>2 DEF Tick, TypeOK, broker, worker, cascade
<1>4. \A t \in Sigs : Ordered(t)' /\ Fresh(t)' /\ SingleCopy(t)' /\ Forwarded(t)'
  <2> TAKE t \in Sigs
  <2>1. Ordered(t) /\ Fresh(t) /\ SingleCopy(t) /\ Forwarded(t)
    BY DEF PipeInv
  <2>2. Published(t) => publishedAt[t] \in Nat
    BY DEF Published, TypeOK, Times
  <2>3. seenAt[t] # None => seenAt[t] \in Nat
    BY DEF TypeOK, Times
  <2>4. Ordered(t)' /\ Fresh(t)'
    BY <1>1, <1>2, <2>1, <2>2, <2>3 DEF Ordered, Fresh, Published
  <2>5. SingleCopy(t)'
    BY <1>1, <1>2, <2>1, <2>2 DEF SingleCopy, Published, Stale, Age, PipelineAssumption
  <2>6. Forwarded(t)'
    BY <1>1, <1>2, <2>1, <2>2 DEF Forwarded, Published, Age, PipelineAssumption
  <2> QED BY <2>4, <2>5, <2>6
<1>5. InHand'
  BY <1>1 DEF PipeInv, InHand, Published
<1> QED BY <1>3, <1>4, <1>5 DEF PipeInv

(* The daemon dies, or starts again. *)
LEMMA ProcessInv ==
  ASSUME PipelineAssumption, IInv, Crash \/ Restart
  PROVE  IInv'
<1> USE DEF IInv
<1>1. UNCHANGED <<now, publishedAt, signal, deliveries, seenAt, queued, admitted>>
  BY DEF Crash, Restart, broker, worker, cascade
<1>2. \/ UNCHANGED <<batch, hand>>
      \/ batch' = <<>> /\ hand' = Idle
  BY DEF Crash, Restart, worker
<1>3. \A t \in Sigs : caller'[t] = caller[t] \/ (caller[t] = "waiting" /\ caller'[t] = "released")
  BY DEF Crash, Restart
<1>4. TypeOK'
  <2>1. CASE Crash
    <3>1. crashes' \in 0..MaxCrashes /\ up' \in BOOLEAN /\ active' \subseteq Sigs
      <4>1. crashes \in 0..MaxCrashes /\ MaxCrashes \in Nat /\ crashes < MaxCrashes
        BY <2>1 DEF Crash, TypeOK, PipelineAssumption
      <4>2. crashes' = crashes + 1 /\ up' = FALSE /\ active' = {}
        BY <2>1 DEF Crash
      <4>3. crashes' \in 0..MaxCrashes
        BY <4>1, <4>2
      <4> QED BY <4>2, <4>3
    <3>2. caller' \in [Sigs -> {"none", "waiting", "released", "timedout"}]
      BY <2>1 DEF Crash, TypeOK
    <3>3. batch' \in Seq(Sigs \X (1..MaxDeliver)) /\ hand' = Idle
      BY <2>1 DEF Crash
    <3> QED BY <1>1, <3>1, <3>2, <3>3 DEF TypeOK
  <2>2. CASE Restart
    BY <2>2 DEF Restart, TypeOK, broker, worker, cascade
  <2> QED BY <2>1, <2>2
<1>5. \A t \in Sigs : Ordered(t)' /\ SingleCopy(t)'
  BY <1>1 DEF PipeInv, Ordered, SingleCopy, Published, Stale, Age
<1>6. \A t \in Sigs : Fresh(t)' /\ Forwarded(t)'
  BY <1>1, <1>3 DEF PipeInv, Fresh, Forwarded, Published, Age
<1>7. InHand'
  BY <1>1, <1>2 DEF PipeInv, InHand, Published, Idle
<1> QED BY <1>4, <1>5, <1>6, <1>7 DEF PipeInv

LEMMA NextInv ==
  ASSUME PipelineAssumption, WindowAssumption, IInv, [Next]_vars
  PROVE  IInv'
<1>1. ASSUME NEW s \in Sigs, PublishSignal(s) \/ PublishFails(s)
      PROVE  IInv'
  <2>1. Stored(s) \in {"stored", "merged"}
    BY DEF Stored
  <2>2. \E stored \in {"none", "stored", "merged"}, outcome \in {"waiting", "released"} :
          Trigger(s, stored, outcome)
    BY <1>1, <2>1 DEF PublishSignal, PublishFails
  <2> QED BY <2>2, TriggerInv
<1>2. CASE UNCHANGED vars
  <2> USE <1>2 DEF vars, clock, broker, worker, cascade
  <2>1. TypeOK'
    BY DEF IInv, TypeOK
  <2>2. PipeInv'
    BY DEF IInv, PipeInv, InHand, Ordered, Fresh, SingleCopy, Forwarded, Published, Stale, Age
  <2> QED BY <2>1, <2>2 DEF IInv
<1> QED BY <1>1, <1>2, MessageInv, DeliverInv, HandleNextInv, ForwardInv, SettleInv, EndInv,
           AdmitInv, TickInv, ProcessInv DEF Next, Handler

LEMMA AlwaysIInv == Spec => []IInv
<1>1. Init => IInv
  BY InitInv, PipelineAssumption
<1>2. IInv /\ [Next]_vars => IInv'
  BY NextInv, PipelineAssumption, WindowAssumption
<1> QED BY <1>1, <1>2, PTL DEF Spec

-----------------------------------------------------------------------------
(* Every variable keeps to its domain, for every set of calls, with any number
   of redeliveries and crashes. *)
THEOREM PipelineTypeCorrect == Spec => []TypeOK
<1>1. IInv => TypeOK
  BY DEF IInv
<1> QED BY <1>1, AlwaysIInv, PTL

(* No signal's cascade is admitted twice, however often the signal is forwarded
   (signal-stream.ts), as long as the queue timeout is not longer than the
   window in which CASCADES drops duplicates. *)
THEOREM PipelineAdmitsOnce == Spec => []AdmittedOnce
<1>1. IInv => AdmittedOnce
  BY DEF IInv, PipeInv, SingleCopy, AdmittedOnce
<1> QED BY <1>1, AlwaysIInv, PTL

(* The hand-over from SIGNALS to CASCADES loses no acknowledged signal. *)
THEOREM PipelineLosesNone == Spec => []AckedWasForwarded
<1>1. IInv => AckedWasForwarded
  BY DEF IInv, PipeInv, Forwarded, AckedWasForwarded
<1> QED BY <1>1, AlwaysIInv, PTL

(* No envelope passes the age check and is taken up after its caller was told of a
   timeout, because the queue timeout is the shorter of the two. When the cascade
   then begins is no part of it. *)
THEOREM PipelineAdmitsInTime == Spec => AdmittedInTime
<1>1. ASSUME IInv, [Next]_vars, NEW s \in Sigs, admitted'[s] > admitted[s]
      PROVE  caller[s] # "timedout"
  <2>1. admitted[s] \in Nat /\ admitted' # admitted
    BY <1>1 DEF IInv, TypeOK
  <2>2. PICK t \in Sigs : Admit(t)
    BY <1>1, <2>1 DEF Next, Handler, vars, clock, broker, worker, cascade, PublishSignal,
       PublishFails, Trigger, CallExpires, Disconnect, StopWaiting, Deliver, AckExpires,
       Expire, Conclude, HandleNext, ForwardCascade, AckSignal, NakSignal, Tick, Crash, Restart
  <2>3. t = s
    BY <1>1, <2>1, <2>2 DEF Admit, IInv, TypeOK
  <2> QED BY <1>1, <2>2, <2>3, AdmitFirst, PipelineAssumption, WindowAssumption
<1>2. IInv /\ [Next]_vars
      => [\A s \in Sigs : admitted'[s] > admitted[s] => caller[s] # "timedout"]_vars
  BY <1>1
<1> QED BY <1>2, AlwaysIInv, PTL DEF Spec, AdmittedInTime
=============================================================================
