---------------------------- MODULE Cascade_proofs ----------------------------
(***************************************************************************)
(* Proofs about Cascade for every set of envelopes and keys, every         *)
(* configuration, every capacity and any number of restarts.               *)
(***************************************************************************)
EXTENDS Cascade, FiniteSetTheorems, TLAPS

(* Joining the semaphore keeps the types. *)
LEMMA AcquireType ==
  ASSUME TypeOK, NEW m \in Msgs, AcquireSlot(m)
  PROVE  phase' \in [Msgs -> Phases] /\ slots' \in Int /\ waiters' \in Seq(Msgs)
<1>1. /\ phase \in [Msgs -> Phases] /\ slots \in Int /\ waiters \in Seq(Msgs)
      /\ {"granted", "waiting"} \subseteq Phases
  BY DEF TypeOK, Phases, Holding
<1>2. CASE slots < Cap
  BY <1>1, <1>2 DEF AcquireSlot
<1>3. CASE ~(slots < Cap)
  BY <1>1, <1>3 DEF AcquireSlot
<1> QED BY <1>2, <1>3

LEMMA ReleaseType ==
  ASSUME TypeOK, NEW m \in Msgs, ReleaseSlot(m)
  PROVE  phase' \in [Msgs -> Phases] /\ slots' \in Int /\ waiters' \in Seq(Msgs)
<1>1. /\ phase \in [Msgs -> Phases] /\ slots \in Int /\ waiters \in Seq(Msgs)
      /\ {"granted", "over"} \subseteq Phases
  BY DEF TypeOK, Phases, Holding
<1>2. CASE waiters = <<>>
  BY <1>1, <1>2 DEF ReleaseSlot
<1>3. CASE waiters # <<>>
  <2>1. Tail(waiters) \in Seq(Msgs)
    BY <1>1, <1>3
  <2>2. /\ phase' = [phase EXCEPT ![m] = "over", ![Head(waiters)] = "granted"]
        /\ waiters' = Tail(waiters) /\ slots' = slots
    BY <1>3 DEF ReleaseSlot
  <2>3. phase' \in [Msgs -> Phases]
    BY <1>1, <2>2
  <2> QED BY <1>1, <2>1, <2>2, <2>3
<1> QED BY <1>2, <1>3

LEMMA AnswerType ==
  ASSUME TypeOK, NEW m \in Msgs, NEW what \in Outcomes, Answer(m, what)
  PROVE  answers' \in [Msgs -> Seq(Outcomes)] /\ unheard' \subseteq Msgs
<1>1. CASE UNCHANGED answers
  BY <1>1 DEF TypeOK, Answer, Publishes, reply
<1>2. CASE answers' = [answers EXCEPT ![m] = Append(@, what)] /\ UNCHANGED unheard
  <2>1. answers[m] \in Seq(Outcomes)
    BY DEF TypeOK
  <2>2. Append(answers[m], what) \in Seq(Outcomes)
    BY <2>1
  <2> QED BY <1>2, <2>2 DEF TypeOK
<1> QED BY <1>1, <1>2 DEF Answer, Publishes, reply

(* A dispatch that returned, and each event of the walk after it, ends the
   cascade or awaits another event. *)
LEMMA WalkKinds ==
  ASSUME NEW m \in Msgs, DispatchOk(m) \/ SurfaceReplaced(m)
  PROVE  /\ phase[m] \in {"dispatching", "surfacing"}
         /\ \/ Finish(m, "ok")
            \/ /\ phase' = [phase EXCEPT ![m] = "surfacing"]
               /\ UNCHANGED <<loop, stream, admit, chain, inFlight, gate, aborted, corr,
                              saturated, reply>>
BY DEF DispatchOk, SurfaceReplaced, Walk

(* Registering a cascade keeps the types. *)
LEMMA RunType ==
  ASSUME CascadeAssumption, TypeOK, NEW m \in Msgs, NEW victims \in SUBSET Msgs,
         RunCascade(m, victims)
  PROVE  /\ phase' \in [Msgs -> Phases] /\ slots' \in Int /\ waiters' \in Seq(Msgs)
         /\ inFlight' \in [Keys -> SUBSET Msgs]
         /\ aborted' \subseteq Msgs /\ replaced' \in [Msgs -> SUBSET Msgs]
         /\ sessions' \subseteq Msgs /\ surfaced' \subseteq Msgs
         /\ correlated' \in [Corrs -> Msgs \cup {NoMsg}]
         /\ cancelled' \subseteq Corrs /\ owed' \subseteq Corrs /\ saturated' \in BOOLEAN
<1>1. phase' \in [Msgs -> Phases] /\ slots' \in Int /\ waiters' \in Seq(Msgs)
  BY AcquireType DEF RunCascade
<1>2. inFlight' \in [Keys -> SUBSET Msgs]
  BY DEF RunCascade, TypeOK, CascadeAssumption
<1>3. aborted' \subseteq Msgs /\ replaced' \in [Msgs -> SUBSET Msgs]
  BY DEF RunCascade, CancelledEarly, TypeOK
<1>4. correlated' \in [Corrs -> Msgs \cup {NoMsg}]
  BY DEF RunCascade, TypeOK, CascadeAssumption
<1>5. saturated' \in BOOLEAN
  <2>1. (saturated \/ OverHalf(inFlight')) \in BOOLEAN
    BY ZenonT(20) DEF TypeOK
  <2> QED BY <2>1 DEF RunCascade
<1> QED BY <1>1, <1>2, <1>3, <1>4, <1>5 DEF RunCascade, TypeOK

(* So does ending one. *)
LEMMA FinishType ==
  ASSUME CascadeAssumption, TypeOK, NEW m \in Msgs, NEW what \in Outcomes,
         Finish(m, what)
  PROVE  /\ phase' \in [Msgs -> Phases] /\ slots' \in Int /\ waiters' \in Seq(Msgs)
         /\ inFlight' \in [Keys -> SUBSET Msgs] /\ chain' \in [Keys -> Seq(Msgs)]
         /\ correlated' \in [Corrs -> Msgs \cup {NoMsg}]
         /\ cancelled' \subseteq Corrs /\ saturated' \in BOOLEAN
         /\ answers' \in [Msgs -> Seq(Outcomes)] /\ unheard' \subseteq Msgs
         /\ UNCHANGED <<loop, stream, admit, aborted, owed>>
<1>1. phase' \in [Msgs -> Phases] /\ slots' \in Int /\ waiters' \in Seq(Msgs)
  BY ReleaseType DEF Finish
<1>2. inFlight' \in [Keys -> SUBSET Msgs]
  BY DEF Finish, TypeOK, CascadeAssumption
<1>3. chain' \in [Keys -> Seq(Msgs)]
  BY DEF Finish, TypeOK, CascadeAssumption
<1>4. correlated' \in [Corrs -> Msgs \cup {NoMsg}] /\ cancelled' \subseteq Corrs
  BY DEF Finish, TypeOK, CascadeAssumption
<1>5. saturated' \in BOOLEAN
  <2>1. (saturated /\ OverHalf(inFlight')) \in BOOLEAN
    BY ZenonT(20) DEF TypeOK
  <2> QED BY <2>1 DEF Finish
<1>6. answers' \in [Msgs -> Seq(Outcomes)] /\ unheard' \subseteq Msgs
  BY AnswerType DEF Finish
<1> QED BY <1>1, <1>2, <1>3, <1>4, <1>5, <1>6 DEF Finish

(* Any step of any actor keeps every variable in its domain. *)
LEMMA TypeStep ==
  ASSUME CascadeAssumption, TypeOK, [Next]_vars
  PROVE  TypeOK'
<1> USE DEF loop, admit, gate, swap, corr, reply
<1>0. /\ {"up", "stopping", "stopped", "down"} = {"up", "stopping", "stopped", "down"}
      /\ {"unsent", "pending", "chained", "waiting", "over", "lost", "expiring",
          "resolving", "deciding", "granted", "dispatching", "surfacing"} \subseteq Phases
      /\ {"ok", "error", "skipped", "timeout"} \subseteq Outcomes
      /\ "skip" \in Policies
  BY DEF Phases, Unacked, Holding, Outcomes, Policies
<1>1. ASSUME NEW m \in Msgs, Publish(m) PROVE TypeOK'
  <2>3. stream' \in Seq(Msgs) /\ phase' \in [Msgs -> Phases]
    BY <1>0, <1>1 DEF Publish, TypeOK
  <2> QED BY <1>1, <2>3 DEF Publish, TypeOK
<1>2. ASSUME NEW next \in {"resolving", "expiring"}, Deliver(next) PROVE TypeOK'
  BY <1>0, <1>2 DEF Deliver, TypeOK
<1>3. ASSUME NEW m \in Msgs, ExpireStale(m) PROVE TypeOK'
  <2>1. answers' \in [Msgs -> Seq(Outcomes)] /\ unheard' \subseteq Msgs
    BY <1>0, <1>3, AnswerType DEF ExpireStale
  <2> QED BY <1>0, <1>3, <2>1 DEF ExpireStale, TypeOK
<1>4. ASSUME NEW m \in Msgs, Resolve(m) PROVE TypeOK'
  <2>1. KeyOf[m] \in Keys /\ locks[KeyOf[m]] \in Seq(Msgs)
    BY DEF CascadeAssumption, TypeOK
  <2>2. policy' \in [Msgs -> Policies]
    BY <1>0, <1>4, <2>1 DEF Resolve, TypeOK
  <2> QED BY <1>0, <1>4, <2>1, <2>2 DEF Resolve, TypeOK
<1>5. ASSUME NEW m \in Msgs, TakeTurn(m)
      PROVE  locks' \in [Keys -> Seq(Msgs)] /\ policy' = policy
  <2>1. KeyOf[m] \in Keys /\ locks[KeyOf[m]] \in Seq(Msgs)
    BY DEF CascadeAssumption, TypeOK
  <2>2. Tail(locks[KeyOf[m]]) \in Seq(Msgs)
    BY <1>5, <2>1 DEF TakeTurn
  <2> QED BY <1>5, <2>1, <2>2 DEF TakeTurn, TypeOK
<1>6. ASSUME NEW m \in Msgs, SkipDuplicate(m) PROVE TypeOK'
  <2>1. answers' \in [Msgs -> Seq(Outcomes)] /\ unheard' \subseteq Msgs
    BY <1>0, <1>6, AnswerType DEF SkipDuplicate
  <2>2. locks' \in [Keys -> Seq(Msgs)] /\ policy' = policy
    BY <1>5, <1>6 DEF SkipDuplicate
  <2> QED BY <1>0, <1>6, <2>1, <2>2 DEF SkipDuplicate, TypeOK
<1>7. ASSUME NEW m \in Msgs, EnterChain(m) PROVE TypeOK'
  <2>1. KeyOf[m] \in Keys /\ chain[KeyOf[m]] \in Seq(Msgs)
    BY DEF CascadeAssumption, TypeOK
  <2>2. locks' \in [Keys -> Seq(Msgs)] /\ policy' = policy
    BY <1>5, <1>7 DEF EnterChain
  <2>3. chain' \in [Keys -> Seq(Msgs)]
    BY <1>7, <2>1 DEF EnterChain, TypeOK
  <2>4. phase' \in [Msgs -> Phases]
    BY <1>0, <1>7 DEF EnterChain, TypeOK
  <2> QED BY <1>7, <2>2, <2>3, <2>4 DEF EnterChain, TypeOK
<1>8. ASSUME NEW m \in Msgs, RunAtOnce(m) PROVE TypeOK'
  <2>1. Victims(m) \in SUBSET Msgs
    BY DEF Victims, CascadeAssumption, TypeOK
  <2>2. locks' \in [Keys -> Seq(Msgs)] /\ policy' = policy
    BY <1>5, <1>8 DEF RunAtOnce
  <2> QED BY <1>8, <2>1, <2>2, RunType DEF RunAtOnce, TypeOK
<1>9. ASSUME NEW m \in Msgs, RunChained(m) PROVE TypeOK'
  BY <1>9, RunType DEF RunChained, TypeOK
<1>10. ASSUME NEW m \in Msgs, Dispatch(m) PROVE TypeOK'
  BY <1>0, <1>10 DEF Dispatch, TypeOK
<1>11. ASSUME NEW m \in Msgs, RefuseAborted(m) PROVE TypeOK'
  BY <1>0, <1>11, FinishType DEF RefuseAborted, TypeOK
<1>12. ASSUME NEW m \in Msgs, DispatchOk(m) \/ SurfaceReplaced(m) PROVE TypeOK'
  <2> sessions' \subseteq Msgs
    BY <1>12 DEF DispatchOk, SurfaceReplaced, TypeOK
  <2> replaced[m] \subseteq Msgs /\ surfaced \subseteq Msgs
    BY DEF TypeOK
  <2> surfaced' \subseteq Msgs
    BY <1>12 DEF DispatchOk, SurfaceReplaced, Walk
  <2>a. \E left \in SUBSET Msgs : replaced' = [replaced EXCEPT ![m] = left]
    BY <1>12 DEF DispatchOk, SurfaceReplaced, Walk
  <2> replaced' \in [Msgs -> SUBSET Msgs]
    BY <2>a DEF TypeOK
  <2>1. CASE Finish(m, "ok")
    BY <1>0, <2>1, FinishType DEF TypeOK
  <2>2. CASE ~Finish(m, "ok")
    <3>1. /\ phase' = [phase EXCEPT ![m] = "surfacing"]
          /\ UNCHANGED <<loop, stream, admit, chain, inFlight, gate, aborted, corr,
                         saturated, reply>>
      BY <1>12, <2>2, WalkKinds
    <3>2. phase' \in [Msgs -> Phases]
      BY <1>0, <3>1 DEF TypeOK
    <3> QED BY <3>1, <3>2 DEF TypeOK
  <2> QED BY <2>1, <2>2
<1>13. ASSUME NEW m \in Msgs, DispatchError(m) PROVE TypeOK'
  BY <1>0, <1>13, FinishType DEF DispatchError, TypeOK
<1>15. ASSUME NEW c \in Corrs, Cancel(c) PROVE TypeOK'
  BY <1>15 DEF Cancel, Target, TypeOK
<1>16. ASSUME NEW c \in Corrs, Prune(c) PROVE TypeOK'
  BY <1>16 DEF Prune, TypeOK
<1>17. ASSUME Stop \/ Start PROVE TypeOK'
  BY <1>17 DEF Stop, Start, TypeOK
<1>18. ASSUME AbortAll PROVE TypeOK'
  BY <1>18 DEF AbortAll, Registered, TypeOK
<1>19. ASSUME Exit PROVE TypeOK'
  <2>2. phase' \in [Msgs -> Phases]
    BY <1>0, <1>19 DEF Exit, TypeOK
  <2>3. policy' \in [Msgs -> Policies] /\ replaced' \in [Msgs -> SUBSET Msgs]
    BY <1>0, <1>19 DEF Exit
  <2>4. /\ locks' \in [Keys -> Seq(Msgs)] /\ chain' \in [Keys -> Seq(Msgs)]
        /\ inFlight' \in [Keys -> SUBSET Msgs] /\ waiters' \in Seq(Msgs)
        /\ correlated' \in [Corrs -> Msgs \cup {NoMsg}]
    BY <1>19 DEF Exit
  <2>5. answers' \in [Msgs -> Seq(Outcomes)] /\ stream' \in Seq(Msgs)
        /\ policies' \in [Keys -> SUBSET Policies]
    BY <1>19 DEF Exit, TypeOK
  <2>6. /\ daemon' \in {"up", "stopping", "stopped", "down"} /\ slots' \in Int /\ sessions' \subseteq Msgs
        /\ surfaced' \subseteq Msgs /\ aborted' \subseteq Msgs
        /\ cancelled' \subseteq Corrs /\ owed' \subseteq Corrs /\ unheard' \subseteq Msgs
    BY <1>19 DEF Exit, TypeOK
  <2>7. saturated' \in BOOLEAN
    BY <1>19, Zenon DEF Exit
  <2> QED BY <2>2, <2>3, <2>4, <2>5, <2>6, <2>7 DEF TypeOK
<1>20. CASE UNCHANGED vars
  BY <1>20 DEF vars, TypeOK
<1> QED
  BY <1>1, <1>2, <1>3, <1>4, <1>6, <1>7, <1>8, <1>9, <1>10, <1>11, <1>12, <1>13,
     <1>15, <1>16, <1>17, <1>18, <1>19, <1>20
     DEF Next, Handle, Work, Settle

(* The state of the cascade consumer is well formed in every behaviour. *)
THEOREM CascadeTypeCorrect == ASSUME CascadeAssumption PROVE Spec => []TypeOK
<1>1. Init => TypeOK
  <2> SUFFICES ASSUME Init PROVE TypeOK
    OBVIOUS
  <2>1. /\ policies \in [Keys -> SUBSET Policies] /\ daemon \in {"up", "stopping", "stopped", "down"} /\ slots \in Int
    BY DEF Init, CascadeAssumption
  <2>5. saturated \in BOOLEAN
    BY Zenon DEF Init
  <2>2. /\ phase \in [Msgs -> Phases] /\ policy \in [Msgs -> Policies]
        /\ replaced \in [Msgs -> SUBSET Msgs]
    BY DEF Init, Phases, Policies
  <2>3. /\ stream \in Seq(Msgs) /\ locks \in [Keys -> Seq(Msgs)]
        /\ chain \in [Keys -> Seq(Msgs)] /\ waiters \in Seq(Msgs)
        /\ answers \in [Msgs -> Seq(Outcomes)]
    BY DEF Init
  <2>4. /\ inFlight \in [Keys -> SUBSET Msgs] /\ aborted \subseteq Msgs
        /\ sessions \subseteq Msgs /\ surfaced \subseteq Msgs /\ cancelled \subseteq Corrs
        /\ owed \subseteq Corrs /\ unheard \subseteq Msgs
        /\ correlated \in [Corrs -> Msgs \cup {NoMsg}]
    BY DEF Init
  <2> QED BY <2>1, <2>2, <2>3, <2>4, <2>5 DEF TypeOK
<1>2. TypeOK /\ [Next]_vars => TypeOK'
  BY TypeStep
<1> QED BY <1>1, <1>2, PTL DEF Spec

-----------------------------------------------------------------------------
(* The semaphore.                                                          *)

(* cascadeWaiters lists each waiting cascade once, and nobody waits while a
   slot is free. *)
WaitersListed ==
  /\ \A i \in 1..Len(waiters) : phase[waiters[i]] = "waiting"
  /\ \A i, j \in 1..Len(waiters) : waiters[i] = waiters[j] => i = j
  /\ \A m \in In({"waiting"}) : \E i \in 1..Len(waiters) : waiters[i] = m
  /\ waiters # <<>> => slots = Cap

SlotInv == SlotsExact /\ WaitersListed

LEMMA HoldersFinite ==
  ASSUME CascadeAssumption
  PROVE  IsFiniteSet(In(Holding)) /\ Cardinality(In(Holding)) \in Nat
BY FS_Subset, FS_CardinalityType DEF CascadeAssumption, In

(* A step that moves no cascade to, from or within the semaphore. *)
LEMMA SlotQuiet ==
  ASSUME SlotInv, UNCHANGED gate,
         \A x \in Msgs : phase'[x] \in Holding <=> phase[x] \in Holding,
         \A x \in Msgs : phase'[x] = "waiting" <=> phase[x] = "waiting",
         TypeOK
  PROVE  SlotInv'
<1>1. In(Holding)' = In(Holding) /\ In({"waiting"})' = In({"waiting"})
  BY DEF In
<1>2. SlotsExact'
  BY <1>1 DEF SlotInv, SlotsExact, gate
<1>3. \A i \in 1..Len(waiters) : waiters[i] \in Msgs
  BY DEF TypeOK
<1>4. WaitersListed'
  BY <1>1, <1>3 DEF SlotInv, WaitersListed, gate
<1> QED BY <1>2, <1>4 DEF SlotInv

(* acquireSlot keeps the count exact and the queue complete. *)
LEMMA SlotAcquire ==
  ASSUME CascadeAssumption, TypeOK, SlotInv, NEW m \in Msgs,
         phase[m] \notin Holding \cup {"waiting"}, AcquireSlot(m)
  PROVE  SlotInv'
<1> USE DEF Holding
<1>0. /\ phase \in [Msgs -> Phases] /\ slots \in Int /\ waiters \in Seq(Msgs) /\ Cap \in Nat
      /\ slots = Cardinality(In(Holding)) /\ slots <= Cap
  BY DEF TypeOK, CascadeAssumption, SlotInv, SlotsExact
<1>1. CASE slots < Cap
  <2>1. In(Holding)' = In(Holding) \cup {m} /\ m \notin In(Holding)
    BY <1>0, <1>1 DEF AcquireSlot, In
  <2>2. Cardinality(In(Holding)') = Cardinality(In(Holding)) + 1
    BY <2>1, HoldersFinite, FS_AddElement
  <2>3. SlotsExact'
    BY <1>0, <1>1, <2>2 DEF AcquireSlot, SlotsExact
  <2>4. waiters = <<>> /\ waiters' = <<>> /\ In({"waiting"})' = In({"waiting"})
    BY <1>0, <1>1 DEF SlotInv, WaitersListed, AcquireSlot, In
  <2> QED BY <2>3, <2>4 DEF SlotInv, WaitersListed
<1>2. CASE ~(slots < Cap)
  <2>1. /\ waiters' = Append(waiters, m) /\ slots' = slots
        /\ phase' = [phase EXCEPT ![m] = "waiting"]
    BY <1>2 DEF AcquireSlot
  <2>2. In(Holding)' = In(Holding) /\ In({"waiting"})' = In({"waiting"}) \cup {m}
    BY <1>0, <2>1 DEF In
  <2>3. SlotsExact'
    BY <1>0, <2>1, <2>2 DEF SlotsExact
  <2>4. /\ Len(waiters') = Len(waiters) + 1 /\ waiters'[Len(waiters) + 1] = m
        /\ \A i \in 1..Len(waiters) : waiters'[i] = waiters[i] /\ waiters[i] \in Msgs
    BY <1>0, <2>1
  <2>5. \A i \in 1..Len(waiters) : waiters[i] # m /\ phase[waiters[i]] = "waiting"
    BY DEF SlotInv, WaitersListed
  <2>6. \A i \in 1..Len(waiters') : phase'[waiters'[i]] = "waiting"
    BY <1>0, <2>1, <2>4, <2>5
  <2>7. \A i, j \in 1..Len(waiters') : waiters'[i] = waiters'[j] => i = j
    BY <1>0, <2>4, <2>5 DEF SlotInv, WaitersListed
  <2>8. \A x \in In({"waiting"})' : \E i \in 1..Len(waiters') : waiters'[i] = x
    BY <1>0, <2>2, <2>4 DEF SlotInv, WaitersListed
  <2>9. slots' = Cap
    BY <1>0, <1>2, <2>1
  <2> QED BY <2>3, <2>6, <2>7, <2>8, <2>9 DEF SlotInv, WaitersListed
<1> QED BY <1>1, <1>2

(* releaseSlot does too: a woken waiter takes over the slot. *)
LEMMA SlotRelease ==
  ASSUME CascadeAssumption, TypeOK, SlotInv, NEW m \in Msgs,
         phase[m] \in Holding, ReleaseSlot(m)
  PROVE  SlotInv'
<1> USE DEF Holding
<1>0. /\ phase \in [Msgs -> Phases] /\ slots \in Int /\ waiters \in Seq(Msgs) /\ Cap \in Nat
      /\ slots = Cardinality(In(Holding)) /\ slots <= Cap /\ m \in In(Holding)
  BY DEF TypeOK, CascadeAssumption, SlotInv, SlotsExact, In
<1>a. Cardinality(In(Holding) \ {m}) = slots - 1 /\ IsFiniteSet(In(Holding) \ {m})
  BY <1>0, HoldersFinite, FS_RemoveElement
<1>1. CASE waiters = <<>>
  <2>1. slots' = slots - 1 /\ waiters' = <<>> /\ phase' = [phase EXCEPT ![m] = "over"]
    BY <1>1 DEF ReleaseSlot
  <2>2. In(Holding)' = In(Holding) \ {m} /\ In({"waiting"})' = In({"waiting"})
    BY <1>0, <2>1 DEF In
  <2>3. SlotsExact'
    <3>1. Cardinality(In(Holding)') = slots - 1
      BY <1>a, <2>2
    <3> QED BY <1>0, <2>1, <3>1 DEF SlotsExact
  <2> QED BY <1>1, <2>1, <2>2, <2>3 DEF SlotInv, WaitersListed
<1>2. CASE waiters # <<>>
  <2> DEFINE w == Head(waiters)
  <2>1. /\ slots' = slots /\ waiters' = Tail(waiters)
        /\ phase' = [phase EXCEPT ![m] = "over", ![w] = "granted"]
    BY <1>2 DEF ReleaseSlot
  <2>2. /\ Len(waiters) > 0 /\ w = waiters[1] /\ Len(waiters') = Len(waiters) - 1
        /\ \A i \in 1..Len(waiters') : waiters'[i] = waiters[i + 1]
        /\ \A i \in 1..Len(waiters) : waiters[i] \in Msgs
    BY <1>0, <1>2, <2>1
  <2>3. /\ \A i \in 1..Len(waiters) : phase[waiters[i]] = "waiting"
        /\ \A i, j \in 1..Len(waiters) : waiters[i] = waiters[j] => i = j
        /\ \A x \in In({"waiting"}) : \E i \in 1..Len(waiters) : waiters[i] = x
        /\ slots = Cap
    BY <1>2 DEF SlotInv, WaitersListed
  <2>4. w \in Msgs /\ phase[w] = "waiting" /\ w # m
    BY <1>0, <2>2, <2>3 DEF In
  <2> HIDE DEF w
  <2>5. /\ In(Holding)' = (In(Holding) \ {m}) \cup {w} /\ w \notin In(Holding) \ {m}
        /\ In({"waiting"})' = In({"waiting"}) \ {w}
    BY <1>0, <2>1, <2>4 DEF In
  <2>6. Cardinality(In(Holding)') = slots
    <3>1. Cardinality((In(Holding) \ {m}) \cup {w}) = Cardinality(In(Holding) \ {m}) + 1
      BY <1>a, <2>5, FS_AddElement
    <3>2. Cardinality((In(Holding) \ {m}) \cup {w}) = slots
      BY <1>0, <1>a, <3>1
    <3> QED BY <2>5, <3>2
  <2>7. SlotsExact'
    BY <1>0, <2>1, <2>6 DEF SlotsExact
  <2>8. \A i \in 1..Len(waiters') : phase'[waiters'[i]] = "waiting"
    <3> SUFFICES ASSUME NEW i \in 1..Len(waiters') PROVE phase'[waiters'[i]] = "waiting"
      OBVIOUS
    <3>1. i + 1 \in 1..Len(waiters) /\ waiters'[i] = waiters[i + 1] /\ waiters[i + 1] # w
      BY <1>0, <2>2, <2>3
    <3> QED BY <1>0, <2>1, <2>2, <2>3, <3>1
  <2>9. \A i, j \in 1..Len(waiters') : waiters'[i] = waiters'[j] => i = j
    <3> SUFFICES ASSUME NEW i \in 1..Len(waiters'), NEW j \in 1..Len(waiters'),
                        waiters'[i] = waiters'[j]
                 PROVE  i = j
      OBVIOUS
    <3>1. i + 1 \in 1..Len(waiters) /\ j + 1 \in 1..Len(waiters)
      BY <1>0, <2>2
    <3>2. waiters[i + 1] = waiters[j + 1]
      BY <2>2
    <3>3. i + 1 = j + 1
      BY <2>3, <3>1, <3>2
    <3> QED BY <3>3
  <2>10. \A x \in In({"waiting"})' : \E i \in 1..Len(waiters') : waiters'[i] = x
    <3> SUFFICES ASSUME NEW x \in In({"waiting"})'
                 PROVE  \E i \in 1..Len(waiters') : waiters'[i] = x
      OBVIOUS
    <3>1. PICK i \in 1..Len(waiters) : waiters[i] = x
      BY <2>3, <2>5
    <3>2. i # 1
      BY <2>2, <2>5, <3>1
    <3>3. i - 1 \in 1..Len(waiters') /\ waiters'[i - 1] = x
      BY <1>0, <2>2, <3>1, <3>2
    <3> QED BY <3>3
  <2> QED BY <2>1, <2>3, <2>7, <2>8, <2>9, <2>10 DEF SlotInv, WaitersListed
<1> QED BY <1>1, <1>2

(* The stream holds pending envelopes, each once. *)
StreamListed ==
  /\ \A i \in 1..Len(stream) : phase[stream[i]] = "pending"
  /\ \A i, j \in 1..Len(stream) : stream[i] = stream[j] => i = j

IInv == TypeOK /\ SlotInv /\ StreamListed

(* Whatever the step, the semaphore stays exact. *)
LEMMA SlotStep ==
  ASSUME CascadeAssumption, IInv, [Next]_vars
  PROVE  SlotInv'
<1> USE DEF Holding
<1> USE DEF IInv
<1>0. phase \in [Msgs -> Phases] /\ waiters \in Seq(Msgs) /\ stream \in Seq(Msgs)
  BY DEF TypeOK
<1>1. ASSUME NEW m \in Msgs, Publish(m) \/ ExpireStale(m) \/ Resolve(m) PROVE SlotInv'
  <2>1. UNCHANGED gate
    BY <1>1 DEF Publish, ExpireStale, Resolve
  <2>2. \E p \in {"pending", "over", "deciding"} :
          phase' = [phase EXCEPT ![m] = p] /\ phase[m] \in {"unsent", "expiring", "resolving"}
    BY <1>1 DEF Publish, ExpireStale, Resolve
  <2> QED BY <1>0, <2>1, <2>2, SlotQuiet
<1>2. ASSUME NEW m \in Msgs, SkipDuplicate(m) \/ EnterChain(m) PROVE SlotInv'
  <2>1. UNCHANGED gate
    BY <1>2 DEF SkipDuplicate, EnterChain
  <2>2. \E p \in {"over", "chained"} :
          phase' = [phase EXCEPT ![m] = p] /\ phase[m] = "deciding"
    BY <1>2 DEF SkipDuplicate, EnterChain, TakeTurn
  <2> QED BY <1>0, <2>1, <2>2, SlotQuiet
<1>3. ASSUME NEW m \in Msgs, Dispatch(m) PROVE SlotInv'
  <2>1. /\ UNCHANGED gate
        /\ phase' = [phase EXCEPT ![m] = "dispatching"] /\ phase[m] = "granted"
    BY <1>3 DEF Dispatch
  <2> QED BY <1>0, <2>1, SlotQuiet
<1>4. ASSUME NEW m \in Msgs, RunAtOnce(m) \/ RunChained(m) PROVE SlotInv'
  <2>1. AcquireSlot(m)
    BY <1>4 DEF RunAtOnce, RunChained, RunCascade
  <2>2. phase[m] \in {"deciding", "chained"}
    BY <1>4 DEF RunAtOnce, RunChained, TakeTurn
  <2> QED BY <2>1, <2>2, SlotAcquire
<1>5. ASSUME NEW m \in Msgs, NEW what \in Outcomes, phase[m] \in Holding, Finish(m, what)
      PROVE  SlotInv'
  BY <1>5, SlotRelease DEF Finish
<1>6. {"ok", "error"} \subseteq Outcomes
  BY DEF Outcomes
<1>7. ASSUME NEW m \in Msgs, RefuseAborted(m) \/ DispatchError(m) PROVE SlotInv'
  BY <1>5, <1>6, <1>7 DEF RefuseAborted, DispatchError
<1>8. ASSUME NEW m \in Msgs, DispatchOk(m) \/ SurfaceReplaced(m) PROVE SlotInv'
  <2>1. CASE Finish(m, "ok")
    BY <1>5, <1>6, <1>8, <2>1, WalkKinds
  <2>2. CASE ~Finish(m, "ok")
    <3>1. /\ UNCHANGED gate /\ phase[m] \in {"dispatching", "surfacing"}
          /\ phase' = [phase EXCEPT ![m] = "surfacing"]
      BY <1>8, <2>2, WalkKinds
    <3> QED BY <1>0, <3>1, SlotQuiet
  <2> QED BY <2>1, <2>2
<1>10. ASSUME NEW next \in {"resolving", "expiring"}, Deliver(next) PROVE SlotInv'
  <2>1. UNCHANGED gate /\ phase' = [phase EXCEPT ![Head(stream)] = next] /\ stream # <<>>
    BY <1>10 DEF Deliver
  <2>2. Head(stream) \in Msgs /\ phase[Head(stream)] = "pending"
    BY <1>0, <1>10, <2>1 DEF StreamListed
  <2> QED BY <1>0, <2>1, <2>2, SlotQuiet
<1>11. ASSUME NEW c \in Corrs, Cancel(c) \/ Prune(c) PROVE SlotInv'
  <2>1. UNCHANGED <<gate, phase>>
    BY <1>11 DEF Cancel, Prune
  <2> QED BY <2>1, SlotQuiet
<1>12. ASSUME Stop \/ AbortAll \/ Start PROVE SlotInv'
  <2>1. UNCHANGED <<gate, phase>>
    BY <1>12 DEF Stop, AbortAll, Start
  <2> QED BY <2>1, SlotQuiet
<1>13. ASSUME Exit PROVE SlotInv'
  <2>1. /\ slots' = 0 /\ waiters' = <<>>
        /\ \A x \in Msgs : phase'[x] \in {"unsent", "pending", "over", "lost"}
    BY <1>0, <1>13 DEF Exit
  <2>2. In(Holding)' = {} /\ In({"waiting"})' = {}
    BY <2>1 DEF In
  <2>3. SlotsExact'
    <3>1. Cardinality(In(Holding)') = 0
      BY <2>2, FS_EmptySet
    <3> QED BY <2>1, <3>1 DEF SlotsExact, CascadeAssumption
  <2> QED BY <2>1, <2>2, <2>3 DEF SlotInv, WaitersListed
<1>14. CASE UNCHANGED vars
  <2>1. UNCHANGED <<gate, phase>>
    BY <1>14 DEF vars
  <2> QED BY <2>1, SlotQuiet
<1> QED
  BY <1>1, <1>2, <1>3, <1>4, <1>7, <1>8, <1>10, <1>11, <1>12, <1>13, <1>14
     DEF Next, Handle, Work, Settle

-----------------------------------------------------------------------------
(* The stream, and how a step moves envelopes.                             *)

LEMMA AcquireMoves ==
  ASSUME TypeOK, NEW m \in Msgs, AcquireSlot(m)
  PROVE  /\ phase'[m] \in {"granted", "waiting"}
         /\ \A x \in Msgs \ {m} : phase'[x] = phase[x]
BY DEF TypeOK, AcquireSlot

LEMMA ReleaseMoves ==
  ASSUME TypeOK, SlotInv, NEW m \in Msgs, phase[m] \in Holding, ReleaseSlot(m)
  PROVE  /\ phase'[m] = "over"
         /\ \A x \in Msgs \ {m} : \/ phase'[x] = phase[x]
                                  \/ phase[x] = "waiting" /\ phase'[x] = "granted"
<1>0. phase \in [Msgs -> Phases] /\ waiters \in Seq(Msgs)
  BY DEF TypeOK
<1>1. CASE waiters = <<>>
  BY <1>0, <1>1 DEF ReleaseSlot
<1>2. CASE waiters # <<>>
  <2>1. Head(waiters) \in Msgs /\ phase[Head(waiters)] = "waiting"
    BY <1>0, <1>2 DEF SlotInv, WaitersListed
  <2>2. Head(waiters) # m
    BY <2>1 DEF Holding
  <2> QED BY <1>0, <1>2, <2>1, <2>2 DEF ReleaseSlot
<1> QED BY <1>1, <1>2

(* Only the stream's head stops being pending, and only by its delivery. *)
LEMMA StreamStep ==
  ASSUME CascadeAssumption, IInv, [Next]_vars
  PROVE  StreamListed'
<1> USE DEF IInv
<1>0. /\ phase \in [Msgs -> Phases] /\ stream \in Seq(Msgs)
      /\ \A i \in 1..Len(stream) : stream[i] \in Msgs
  BY DEF TypeOK
<1>a. ASSUME UNCHANGED stream,
             \A x \in Msgs : phase[x] = "pending" => phase'[x] = "pending"
      PROVE  StreamListed'
  BY <1>0, <1>a DEF StreamListed
<1>1. ASSUME NEW m \in Msgs, Publish(m) PROVE StreamListed'
  <2>1. /\ stream' = Append(stream, m) /\ phase[m] = "unsent"
        /\ phase' = [phase EXCEPT ![m] = "pending"]
    BY <1>1 DEF Publish
  <2>2. /\ Len(stream') = Len(stream) + 1 /\ stream'[Len(stream) + 1] = m
        /\ \A i \in 1..Len(stream) : stream'[i] = stream[i]
    BY <1>0, <2>1
  <2>3. \A i \in 1..Len(stream) : stream[i] # m
    BY <2>1 DEF StreamListed
  <2>4. \A i, j \in 1..Len(stream') : stream'[i] = stream'[j] => i = j
    <3>1. \A i \in 1..Len(stream') : i = Len(stream) + 1 \/ i \in 1..Len(stream)
      BY <1>0, <2>2
    <3>2. \A i, j \in 1..Len(stream) : stream'[i] = stream'[j] => i = j
      BY <2>2 DEF StreamListed
    <3>3. \A i \in 1..Len(stream) : stream'[i] # stream'[Len(stream) + 1]
      BY <2>2, <2>3
    <3> QED BY <3>1, <3>2, <3>3
  <2>5. \A i \in 1..Len(stream') : phase'[stream'[i]] = "pending"
    <3>1. \A i \in 1..Len(stream) : phase'[stream[i]] = "pending"
      BY <1>0, <2>1, <2>3 DEF StreamListed
    <3>2. phase'[m] = "pending"
      BY <1>0, <2>1
    <3>3. \A i \in 1..Len(stream') : i = Len(stream) + 1 \/ i \in 1..Len(stream)
      BY <1>0, <2>2
    <3> QED BY <2>2, <3>1, <3>2, <3>3
  <2> QED BY <2>4, <2>5 DEF StreamListed
<1>2. ASSUME NEW next \in {"resolving", "expiring"}, Deliver(next) PROVE StreamListed'
  <2>1. /\ stream' = Tail(stream) /\ stream # <<>>
        /\ phase' = [phase EXCEPT ![Head(stream)] = next]
    BY <1>2 DEF Deliver
  <2>2. /\ Len(stream) > 0 /\ Head(stream) = stream[1] /\ Len(stream') = Len(stream) - 1
        /\ \A i \in 1..Len(stream') : stream'[i] = stream[i + 1]
    BY <1>0, <2>1
  <2>3. \A i \in 1..Len(stream') : i + 1 \in 1..Len(stream)
    BY <1>0, <2>2
  <2>4. \A i \in 1..Len(stream') : phase'[stream'[i]] = "pending"
    <3> SUFFICES ASSUME NEW i \in 1..Len(stream') PROVE phase'[stream'[i]] = "pending"
      OBVIOUS
    <3>1. stream'[i] # Head(stream)
      BY <1>0, <2>2, <2>3 DEF StreamListed
    <3>2. stream'[i] \in Msgs /\ phase[stream'[i]] = "pending"
      BY <1>0, <2>2, <2>3 DEF StreamListed
    <3> QED BY <1>0, <2>1, <3>1, <3>2
  <2>5. \A i, j \in 1..Len(stream') : stream'[i] = stream'[j] => i = j
    <3> SUFFICES ASSUME NEW i \in 1..Len(stream'), NEW j \in 1..Len(stream'),
                        stream'[i] = stream'[j]
                 PROVE  i = j
      OBVIOUS
    <3>1. i + 1 = j + 1
      BY <2>2, <2>3 DEF StreamListed
    <3> QED BY <3>1
  <2> QED BY <2>4, <2>5 DEF StreamListed
<1>3. ASSUME NEW m \in Msgs, ExpireStale(m) \/ Resolve(m) PROVE StreamListed'
  <2>1. /\ UNCHANGED stream /\ phase[m] # "pending"
        /\ \E p \in Phases : phase' = [phase EXCEPT ![m] = p]
    BY <1>3 DEF ExpireStale, Resolve, Phases, Unacked
  <2> QED BY <1>0, <1>a, <2>1
<1>4. ASSUME NEW m \in Msgs, SkipDuplicate(m) \/ EnterChain(m) \/ Dispatch(m)
      PROVE  StreamListed'
  <2>1. /\ UNCHANGED stream /\ phase[m] # "pending"
        /\ \E p \in Phases : phase' = [phase EXCEPT ![m] = p]
    BY <1>4 DEF SkipDuplicate, EnterChain, Dispatch, TakeTurn, Phases, Holding
  <2> QED BY <1>0, <1>a, <2>1
<1>5. ASSUME NEW m \in Msgs, RunAtOnce(m) \/ RunChained(m) PROVE StreamListed'
  <2>1. UNCHANGED stream /\ phase[m] # "pending" /\ AcquireSlot(m)
    BY <1>5 DEF RunAtOnce, RunChained, TakeTurn, RunCascade
  <2> QED BY <1>a, <2>1, AcquireMoves
<1>6. ASSUME NEW m \in Msgs, NEW what \in Outcomes, phase[m] \in Holding, Finish(m, what)
      PROVE  StreamListed'
  <2>1. UNCHANGED stream /\ phase[m] # "pending" /\ ReleaseSlot(m)
    BY <1>6 DEF Finish, Holding
  <2> QED BY <1>6, <1>a, <2>1, ReleaseMoves
<1>7. {"ok", "error"} \subseteq Outcomes
  BY DEF Outcomes
<1>8. ASSUME NEW m \in Msgs, RefuseAborted(m) \/ DispatchError(m) PROVE StreamListed'
  BY <1>6, <1>7, <1>8 DEF RefuseAborted, DispatchError, Holding
<1>9. ASSUME NEW m \in Msgs, DispatchOk(m) \/ SurfaceReplaced(m) PROVE StreamListed'
  <2>0. phase[m] \in Holding
    BY <1>9, WalkKinds DEF Holding
  <2>1. CASE Finish(m, "ok")
    BY <1>6, <1>7, <2>0, <2>1
  <2>2. CASE ~Finish(m, "ok")
    <3>1. UNCHANGED stream /\ phase' = [phase EXCEPT ![m] = "surfacing"]
      BY <1>9, <2>2, WalkKinds
    <3> QED BY <1>0, <1>a, <2>0, <3>1 DEF Holding
  <2> QED BY <2>1, <2>2
<1>11. ASSUME NEW c \in Corrs, Cancel(c) \/ Prune(c) PROVE StreamListed'
  BY <1>11, <1>a DEF Cancel, Prune
<1>12. ASSUME Stop \/ AbortAll \/ Start PROVE StreamListed'
  BY <1>12, <1>a DEF Stop, AbortAll, Start
<1>13. ASSUME Exit PROVE StreamListed'
  BY <1>13, <1>a DEF Exit
<1>14. CASE UNCHANGED vars
  BY <1>14, <1>a DEF vars
<1> QED
  BY <1>1, <1>2, <1>3, <1>4, <1>5, <1>8, <1>9, <1>11, <1>12, <1>13, <1>14
     DEF Next, Handle, Work, Settle

(* The invariant the safety theorems below rest on. *)
LEMMA CascadeIInv == ASSUME CascadeAssumption PROVE Spec => []IInv
<1>1. Init => SlotInv /\ StreamListed
  <2> SUFFICES ASSUME Init PROVE SlotInv /\ StreamListed
    OBVIOUS
  <2>1. In(Holding) = {} /\ In({"waiting"}) = {} /\ waiters = <<>> /\ stream = <<>> /\ slots = 0
    BY DEF Init, In, Holding
  <2>2. Cardinality(In(Holding)) = 0
    BY <2>1, FS_EmptySet
  <2>3. SlotsExact
    BY <2>1, <2>2 DEF SlotsExact, CascadeAssumption
  <2> QED BY <2>1, <2>3 DEF SlotInv, WaitersListed, StreamListed
<1>2. IInv /\ [Next]_vars => SlotInv' /\ StreamListed'
  BY SlotStep, StreamStep
<1> QED BY <1>1, <1>2, CascadeTypeCorrect, PTL DEF Spec, IInv

(* The semaphore neither leaks nor overcommits a slot, in any interleaving of
   cascades that acquire, release and are woken. *)
THEOREM CascadeSlotsExact == ASSUME CascadeAssumption PROVE Spec => []SlotsExact
<1>1. IInv => SlotsExact
  BY DEF IInv, SlotInv
<1> QED BY <1>1, CascadeIInv, PTL

(* A cascade waits only while all slots are taken. *)
THEOREM CascadeWorkConserving ==
  ASSUME CascadeAssumption PROVE Spec => []WorkConserving
<1>1. IInv => WorkConserving
  BY DEF IInv, SlotInv, WaitersListed, SlotsExact, WorkConserving, TypeOK
<1> QED BY <1>1, CascadeIInv, PTL

-----------------------------------------------------------------------------
(* The consumer implements CascadeContract.                                *)

(* Envelopes change stage as the contract allows: m as given, no other. *)
LEMMA JobMoves ==
  ASSUME TypeOK, NEW m \in Msgs,
         \A x \in Msgs \ {m} : Stage(phase'[x]) = Stage(phase[x])
  PROVE  Job' = [Job EXCEPT ![m] = Stage(phase'[m])]
BY DEF Job

(* One envelope is concluded, its caller told or the answer lost. *)
LEMMA ConcludeStep ==
  ASSUME TypeOK, NEW m \in Msgs, NEW what \in Outcomes, Answer(m, what),
         Job' = [Job EXCEPT ![m] = "over"], Job[m] \in {"accepted", "running"}
  PROVE  Contract!Conclude(m)
<1>1. CASE CorrOf[m] = NoCorr
  <2>1. Replies' = Replies /\ unheard' = unheard
    BY <1>1 DEF Answer, Replies, reply
  <2> QED BY <1>1, <2>1 DEF Contract!Conclude
<1>2. CASE CorrOf[m] # NoCorr /\ unheard' = unheard \cup {m} /\ UNCHANGED answers
  <2>1. Replies' = Replies
    BY <1>2 DEF Replies
  <2> QED BY <1>2, <2>1 DEF Contract!Conclude
<1>3. CASE /\ CorrOf[m] # NoCorr /\ UNCHANGED unheard
           /\ answers' = [answers EXCEPT ![m] = Append(@, what)]
  <2>1. answers[m] \in Seq(Outcomes)
    BY DEF TypeOK
  <2>2. Len(Append(answers[m], what)) = Len(answers[m]) + 1
    BY <2>1
  <2>3. Replies' = [Replies EXCEPT ![m] = Replies[m] + 1]
    BY <1>3, <2>2 DEF Replies, TypeOK
  <2> QED BY <1>3, <2>3 DEF Contract!Conclude
<1> QED BY <1>1, <1>2, <1>3 DEF Answer, Publishes

(* The contract counts with the Cardinality of this module. *)
LEMMA SameCardinality == \A S : Contract!Cardinality(S) = Cardinality(S)
BY Zenon DEF Contract!Cardinality, Cardinality, Contract!IsFiniteSet, IsFiniteSet

(* A cascade starts running only under the cap: it holds a slot already. *)
LEMMA BeginStep ==
  ASSUME CascadeAssumption, IInv, NEW m \in Msgs, Dispatch(m)
  PROVE  Contract!Begin(m)
<1> USE DEF Holding, IInv
<1>0. phase \in [Msgs -> Phases] /\ Job \in [Msgs -> {"unsent", "running", "over", "accepted"}]
  BY DEF TypeOK, Job, Stage
<1>1. phase[m] = "granted" /\ phase' = [phase EXCEPT ![m] = "dispatching"]
  BY DEF Dispatch
<1>2. Job[m] = "accepted" /\ Job' = [Job EXCEPT ![m] = "running"] /\ Replies' = Replies /\ unheard' = unheard
  BY <1>0, <1>1 DEF Job, Stage, Replies, Dispatch, reply
<1>3. Contract!Running \subseteq In(Holding) \ {m}
  BY <1>0, <1>1 DEF Contract!Running, Job, Stage, In
<1>4. Cardinality(In(Holding) \ {m}) = Cardinality(In(Holding)) - 1
      /\ IsFiniteSet(In(Holding) \ {m})
  BY <1>0, <1>1, HoldersFinite, FS_RemoveElement DEF In
<1>5. Cardinality(Contract!Running) <= Cardinality(In(Holding) \ {m})
      /\ Cardinality(Contract!Running) \in Nat
  BY <1>3, <1>4, FS_Subset, FS_CardinalityType
<1>6. Cardinality(In(Holding)) <= Cap /\ Cap \in Nat /\ Cardinality(In(Holding)) \in Nat
  BY HoldersFinite DEF SlotInv, SlotsExact, CascadeAssumption
<1> QED BY <1>2, <1>4, <1>5, <1>6, SameCardinality DEF Contract!Begin

(* A cascade that ends is concluded in the contract's sense, and whoever it
   wakes at the semaphore stays accepted. *)
LEMMA FinishStep ==
  ASSUME CascadeAssumption, IInv, NEW m \in Msgs, NEW what \in Outcomes,
         phase[m] \in Holding, Finish(m, what)
  PROVE  Contract!Conclude(m)
<1> USE DEF IInv
<1>1. /\ phase'[m] = "over"
      /\ \A x \in Msgs \ {m} : \/ phase'[x] = phase[x]
                               \/ phase[x] = "waiting" /\ phase'[x] = "granted"
  BY ReleaseMoves DEF Finish
<1>2. Job' = [Job EXCEPT ![m] = "over"]
  BY <1>1, JobMoves DEF Stage
<1>3. Job[m] \in {"accepted", "running"}
  BY DEF Job, Stage, Holding
<1> QED BY <1>2, <1>3, ConcludeStep DEF Finish

(* Every step of the consumer is one of the contract, or invisible to it. *)
LEMMA ContractStep ==
  ASSUME CascadeAssumption, IInv, [Next]_vars
  PROVE  [Contract!Next]_(Contract!vars)
<1> USE DEF IInv
<1>0. phase \in [Msgs -> Phases] /\ stream \in Seq(Msgs) /\ {"ok", "error", "skipped", "timeout"} \subseteq Outcomes
  BY DEF TypeOK, Outcomes
<1>a. ASSUME \A x \in Msgs : Stage(phase'[x]) = Stage(phase[x]), UNCHANGED reply
      PROVE  UNCHANGED Contract!vars
  BY <1>a DEF Contract!vars, Job, Replies, reply
<1>1. ASSUME NEW m \in Msgs, Publish(m) PROVE Contract!Next
  <2>1. phase[m] = "unsent" /\ phase' = [phase EXCEPT ![m] = "pending"] /\ UNCHANGED reply
    BY <1>1 DEF Publish
  <2>2. Job[m] = "unsent" /\ Job' = [Job EXCEPT ![m] = "accepted"] /\ Replies' = Replies /\ unheard' = unheard
    BY <1>0, <2>1 DEF Job, Stage, Replies, reply
  <2> QED BY <2>2 DEF Contract!Next, Contract!Accept
<1>2. ASSUME NEW next \in {"resolving", "expiring"}, Deliver(next)
      PROVE  UNCHANGED Contract!vars
  <2>1. /\ UNCHANGED reply /\ phase' = [phase EXCEPT ![Head(stream)] = next]
        /\ stream # <<>>
    BY <1>2 DEF Deliver
  <2>2. Head(stream) \in Msgs /\ phase[Head(stream)] = "pending"
    BY <1>0, <2>1 DEF StreamListed
  <2> QED BY <1>0, <1>a, <2>1, <2>2 DEF Stage
<1>3. ASSUME NEW m \in Msgs, Resolve(m) \/ EnterChain(m) PROVE UNCHANGED Contract!vars
  <2>1. /\ UNCHANGED reply /\ phase[m] \in {"resolving", "deciding"}
        /\ \E p \in {"deciding", "chained"} : phase' = [phase EXCEPT ![m] = p]
    BY <1>3 DEF Resolve, EnterChain, TakeTurn
  <2> QED BY <1>0, <1>a, <2>1 DEF Stage
<1>4. ASSUME NEW m \in Msgs, RunAtOnce(m) \/ RunChained(m) PROVE UNCHANGED Contract!vars
  <2>1. /\ UNCHANGED reply /\ phase[m] \in {"deciding", "chained"} /\ AcquireSlot(m)
    BY <1>4 DEF RunAtOnce, RunChained, TakeTurn, RunCascade
  <2>2. /\ phase'[m] \in {"granted", "waiting"}
        /\ \A x \in Msgs \ {m} : phase'[x] = phase[x]
    BY <2>1, AcquireMoves
  <2> QED BY <1>a, <2>1, <2>2 DEF Stage
<1>5. ASSUME NEW m \in Msgs, ExpireStale(m) \/ SkipDuplicate(m) PROVE Contract!Next
  <2>1. /\ phase[m] \in {"expiring", "deciding"} /\ phase' = [phase EXCEPT ![m] = "over"]
        /\ Answer(m, "timeout") \/ Answer(m, "skipped")
    BY <1>5 DEF ExpireStale, SkipDuplicate, TakeTurn
  <2>2. Job[m] = "accepted" /\ Job' = [Job EXCEPT ![m] = "over"]
    BY <1>0, <2>1 DEF Job, Stage
  <2>3. Contract!Conclude(m)
    BY <1>0, <2>1, <2>2, ConcludeStep
  <2> QED BY <2>3 DEF Contract!Next
<1>6. ASSUME NEW m \in Msgs, Dispatch(m) PROVE Contract!Next
  BY <1>6, BeginStep DEF Contract!Next
<1>7. ASSUME NEW m \in Msgs, NEW what \in Outcomes, phase[m] \in Holding, Finish(m, what)
      PROVE  Contract!Next
  BY <1>7, FinishStep DEF Contract!Next
<1>8. ASSUME NEW m \in Msgs, RefuseAborted(m) \/ DispatchError(m) PROVE Contract!Next
  BY <1>0, <1>7, <1>8 DEF RefuseAborted, DispatchError, Holding
<1>9. ASSUME NEW m \in Msgs, DispatchOk(m) \/ SurfaceReplaced(m)
      PROVE  [Contract!Next]_(Contract!vars)
  <2>0. phase[m] \in Holding
    BY <1>9, WalkKinds DEF Holding
  <2>1. CASE Finish(m, "ok")
    BY <1>0, <1>7, <2>0, <2>1
  <2>2. CASE ~Finish(m, "ok")
    <3>1. /\ UNCHANGED reply /\ phase' = [phase EXCEPT ![m] = "surfacing"]
          /\ phase[m] \in {"dispatching", "surfacing"}
      BY <1>9, <2>2, WalkKinds
    <3> QED BY <1>0, <1>a, <3>1 DEF Stage
  <2> QED BY <2>1, <2>2
<1>11. ASSUME NEW c \in Corrs, Cancel(c) \/ Prune(c) PROVE UNCHANGED Contract!vars
  BY <1>11, <1>a DEF Cancel, Prune
<1>12. ASSUME Stop \/ AbortAll \/ Start PROVE UNCHANGED Contract!vars
  BY <1>12, <1>a DEF Stop, AbortAll, Start
<1>13. ASSUME Exit PROVE Contract!Next
  <2> DEFINE taken == {x \in Msgs : phase'[x] = "lost" /\ Job[x] = "accepted"}
  <2>1. /\ UNCHANGED reply
        /\ phase' = [x \in Msgs |-> IF phase[x] \in {"unsent", "pending", "over"}
                                    THEN phase[x] ELSE "lost"]
    BY <1>13 DEF Exit
  <2>2. Job' = [x \in Msgs |->
                  IF x \in Contract!Running \cup taken
                  THEN "over" ELSE Job[x]]
    <3> SUFFICES ASSUME NEW x \in Msgs
                 PROVE  Stage(phase'[x]) =
                          IF x \in Contract!Running \cup taken
                          THEN "over" ELSE Job[x]
      BY DEF Job
    <3>1. CASE phase[x] \in {"unsent", "pending", "over"}
      BY <2>1, <3>1 DEF Job, Stage, Contract!Running
    <3>2. CASE phase[x] \notin {"unsent", "pending", "over"}
      BY <1>0, <2>1, <3>2 DEF Job, Stage, Contract!Running
    <3> QED BY <3>1, <3>2
  <2>3. Replies' = Replies /\ unheard' = unheard
    BY <2>1 DEF Replies, reply
  <2>4. Contract!Cut(taken)
    BY <2>2, <2>3 DEF Contract!Cut
  <2>5. taken \in SUBSET Contract!Accepted
    BY DEF Contract!Accepted
  <2> QED BY <2>4, <2>5 DEF Contract!Next
<1>14. CASE UNCHANGED vars
  BY <1>14, <1>a DEF vars
<1> QED
  BY <1>1, <1>2, <1>3, <1>4, <1>5, <1>6, <1>8, <1>9, <1>11, <1>12, <1>13, <1>14
     DEF Next, Handle, Work, Settle

(* The consumer implements its contract for any number of envelopes, keys and
   slots: each envelope runs at most once, at most Cap run together, and a
   caller is answered once, when its envelope is over, or never if that one
   publish fails, in every interleaving with cancellations, policy edits,
   shutdowns and crashes. *)
THEOREM CascadeImplementsContract ==
  ASSUME CascadeAssumption PROVE Spec => ImplementsContract
<1>1. Init => Contract!Init
  <2> SUFFICES ASSUME Init PROVE Contract!Init
    OBVIOUS
  <2>1. phase = [m \in Msgs |-> "unsent"] /\ answers = [m \in Msgs |-> <<>>] /\ unheard = {}
    BY DEF Init
  <2> QED BY <2>1 DEF Contract!Init, Job, Replies, Stage
<1>2. IInv /\ [Next]_vars => [Contract!Next]_(Contract!vars)
  BY ContractStep
<1> QED BY <1>1, <1>2, CascadeIInv, PTL DEF Spec, ImplementsContract, Contract!Spec
=============================================================================
