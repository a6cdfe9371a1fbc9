------------------------- MODULE CascadePolicy_proofs -------------------------
(***************************************************************************)
(* What the registry of cascade-stream.ts is for: the concurrency          *)
(* policies, cancellation, the saturation flag and the one answer of each  *)
(* caller, for every set of envelopes and keys and every configuration.    *)
(***************************************************************************)
EXTENDS Cascade_proofs

(* A cascade is in the registry from runCascade to its finally block. *)
Enlisted == Holding \cup {"waiting"}

RegistryExact == \A k \in Keys : inFlight[k] = {m \in In(Enlisted) : KeyOf[m] = k}

-----------------------------------------------------------------------------
(* What the steps do to the registry.                                      *)

(* A step that enlists no cascade and ends none. *)
LEMMA RegistryQuiet ==
  ASSUME RegistryExact, UNCHANGED inFlight,
         \A x \in Msgs : phase'[x] \in Enlisted <=> phase[x] \in Enlisted
  PROVE  RegistryExact' /\ In(Enlisted)' = In(Enlisted)
BY DEF RegistryExact, In

(* runCascade enlists one. *)
LEMMA RegistryRun ==
  ASSUME CascadeAssumption, TypeOK, RegistryExact, NEW m \in Msgs, NEW victims,
         phase[m] \notin Enlisted, RunCascade(m, victims)
  PROVE  RegistryExact' /\ In(Enlisted)' = In(Enlisted) \cup {m} /\ m \notin In(Enlisted)
<1>1. /\ phase'[m] \in {"granted", "waiting"}
      /\ \A x \in Msgs \ {m} : phase'[x] = phase[x]
  BY AcquireMoves DEF RunCascade
<1>2. In(Enlisted)' = In(Enlisted) \cup {m} /\ m \notin In(Enlisted)
  BY <1>1 DEF In, Enlisted, Holding
<1>3. inFlight' = [inFlight EXCEPT ![KeyOf[m]] = @ \cup {m}] /\ KeyOf[m] \in Keys
  BY DEF RunCascade, CascadeAssumption
<1>4. ASSUME NEW k \in Keys PROVE inFlight'[k] = {x \in In(Enlisted)' : KeyOf[x] = k}
  BY <1>2, <1>3 DEF RegistryExact, TypeOK
<1> QED BY <1>2, <1>4 DEF RegistryExact

(* The finally block takes it out; a woken waiter was enlisted already. *)
LEMMA RegistryFinish ==
  ASSUME CascadeAssumption, TypeOK, SlotInv, RegistryExact, NEW m \in Msgs, NEW what,
         phase[m] \in Holding, Finish(m, what)
  PROVE  RegistryExact' /\ In(Enlisted)' = In(Enlisted) \ {m} /\ m \in In(Enlisted)
<1>1. /\ phase'[m] = "over"
      /\ \A x \in Msgs \ {m} : \/ phase'[x] = phase[x]
                               \/ phase[x] = "waiting" /\ phase'[x] = "granted"
  BY ReleaseMoves DEF Finish
<1>2. In(Enlisted)' = In(Enlisted) \ {m} /\ m \in In(Enlisted)
  BY <1>1 DEF In, Enlisted, Holding
<1>3. inFlight' = [inFlight EXCEPT ![KeyOf[m]] = @ \ {m}] /\ KeyOf[m] \in Keys
  BY DEF Finish, CascadeAssumption
<1>4. ASSUME NEW k \in Keys PROVE inFlight'[k] = {x \in In(Enlisted)' : KeyOf[x] = k}
  BY <1>2, <1>3 DEF RegistryExact, TypeOK
<1> QED BY <1>2, <1>4 DEF RegistryExact

(* The steps of Next by what they do to the registry: one cascade enlisted,
   one ended, all forgotten, or none touched. *)
Enlists(m)   == RunAtOnce(m) \/ RunChained(m)
Ends(m)      == phase[m] \in Holding /\ (Finish(m, "ok") \/ Finish(m, "error"))
Handles(m)   == Publish(m) \/ ExpireStale(m) \/ Resolve(m) \/ SkipDuplicate(m)
                \/ EnterChain(m) \/ Dispatch(m)
Surfaces(m)  ==
  /\ UNCHANGED <<loop, stream, admit, chain, inFlight, gate, aborted, corr, saturated, reply>>
  /\ phase[m] \in {"dispatching", "surfacing"} /\ phase' = [phase EXCEPT ![m] = "surfacing"]

LEMMA StepKinds ==
  ASSUME IInv, [Next]_vars
  PROVE  \/ \E m \in Msgs : Enlists(m) \/ Ends(m) \/ Handles(m) \/ Surfaces(m)
         \/ \E next \in {"resolving", "expiring"} : Deliver(next)
         \/ \E c \in Corrs : Cancel(c) \/ Prune(c)
         \/ Stop \/ AbortAll \/ Exit \/ Start \/ UNCHANGED vars
<1>1. ASSUME NEW m \in Msgs, RefuseAborted(m) \/ DispatchError(m) PROVE Ends(m)
  BY <1>1 DEF RefuseAborted, DispatchError, Ends, Holding
<1>2. ASSUME NEW m \in Msgs, DispatchOk(m) \/ SurfaceReplaced(m) PROVE Ends(m) \/ Surfaces(m)
  BY <1>2, WalkKinds DEF Ends, Surfaces, Holding
<1> QED BY <1>1, <1>2 DEF Next, Handle, Work, Settle, Handles, Enlists

(* Who is enlisted was decided upon or chained before. *)
LEMMA EnlistsFrom ==
  ASSUME NEW m \in Msgs, Enlists(m)
  PROVE  /\ phase[m] \in {"deciding", "chained"} /\ phase[m] \notin Enlisted /\ AcquireSlot(m)
         /\ Alive /\ UNCHANGED <<loop, stream, chain, reply, policy>>
         /\ \E victims \in SUBSET inFlight[KeyOf[m]] : RunCascade(m, victims)
BY DEF Enlists, RunAtOnce, RunChained, TakeTurn, RunCascade, Enlisted, Holding, admit, Victims

(* Before it is enlisted and after it is over an envelope is not in the
   registry. *)
LEMMA HandlesOutside ==
  ASSUME TypeOK, NEW m \in Msgs, Handles(m)
  PROVE  /\ UNCHANGED <<loop, inFlight, aborted, corr, saturated>>
         /\ \A x \in Msgs : phase'[x] \in Enlisted <=> phase[x] \in Enlisted
BY DEF TypeOK, Handles, Publish, ExpireStale, Resolve, SkipDuplicate, EnterChain, Dispatch,
       TakeTurn, Enlisted, Holding

LEMMA DeliverOutside ==
  ASSUME IInv, NEW next \in {"resolving", "expiring"}, Deliver(next)
  PROVE  /\ UNCHANGED <<loop, admit, chain, inFlight, aborted, corr, saturated, reply>>
         /\ \A x \in Msgs : phase'[x] # phase[x] => phase[x] = "pending" /\ phase'[x] = next
<1>1. Head(stream) \in Msgs /\ phase[Head(stream)] = "pending"
  BY DEF IInv, TypeOK, StreamListed, Deliver
<1> QED BY <1>1 DEF IInv, TypeOK, Deliver

(* A process that ends leaves nothing behind in the registry. *)
LEMMA ExitEmpties ==
  ASSUME TypeOK, Exit
  PROVE  In(Enlisted)' = {} /\ inFlight' = [k \in Keys |-> {}]
BY DEF TypeOK, Exit, In, Enlisted, Holding

(* The registry lists, per key, the cascades between runCascade and its end. *)
LEMMA RegistryStep ==
  ASSUME CascadeAssumption, IInv, RegistryExact, [Next]_vars
  PROVE  RegistryExact'
<1> USE DEF IInv
<1>1. CASE \E m \in Msgs : Enlists(m)
  BY <1>1, EnlistsFrom, RegistryRun
<1>2. CASE \E m \in Msgs : Ends(m)
  BY <1>2, RegistryFinish DEF Ends
<1>3. CASE \E m \in Msgs : Handles(m)
  BY <1>3, HandlesOutside, RegistryQuiet
<1>4. CASE \E m \in Msgs : Surfaces(m)
  <2>1. UNCHANGED inFlight /\ \A x \in Msgs : phase'[x] \in Enlisted <=> phase[x] \in Enlisted
    BY <1>4 DEF Surfaces, TypeOK, Enlisted, Holding
  <2> QED BY <2>1, RegistryQuiet
<1>5. CASE \E next \in {"resolving", "expiring"} : Deliver(next)
  <2>1. UNCHANGED inFlight /\ \A x \in Msgs : phase'[x] \in Enlisted <=> phase[x] \in Enlisted
    BY <1>5, DeliverOutside DEF Enlisted, Holding
  <2> QED BY <2>1, RegistryQuiet
<1>6. CASE \E c \in Corrs : Cancel(c) \/ Prune(c)
  BY <1>6, RegistryQuiet DEF Cancel, Prune
<1>7. CASE Stop \/ AbortAll \/ Start \/ UNCHANGED vars
  BY <1>7, RegistryQuiet DEF Stop, AbortAll, Start, vars
<1>8. CASE Exit
  BY <1>8, ExitEmpties DEF RegistryExact
<1> QED BY <1>1, <1>2, <1>3, <1>4, <1>5, <1>6, <1>7, <1>8, StepKinds

-----------------------------------------------------------------------------
(* Answers.                                                                *)

(* An envelope that is over now gets its one answer, if somebody waits. *)
LEMMA AnswerOne ==
  ASSUME TypeOK, AnsweredOnce, NEW m \in Msgs, NEW what \in Outcomes, Answer(m, what),
         phase[m] # "over", phase'[m] = "over",
         \A x \in Msgs \ {m} : phase'[x] = "over" <=> phase[x] = "over"
  PROVE  AnsweredOnce'
<1>1. ASSUME NEW x \in Msgs \ {m} PROVE answers'[x] = answers[x] /\ (x \in unheard' <=> x \in unheard)
  BY DEF Answer, Publishes, reply, TypeOK
<1>2. Len(answers[m]) = 0 /\ answers[m] \in Seq(Outcomes) /\ m \notin unheard
  BY DEF AnsweredOnce, TypeOK
<1>3. CASE CorrOf[m] = NoCorr
  BY <1>1, <1>2, <1>3 DEF AnsweredOnce, Answer, reply
<1>4. CASE CorrOf[m] # NoCorr /\ unheard' = unheard \cup {m} /\ UNCHANGED answers
  BY <1>1, <1>2, <1>4 DEF AnsweredOnce
<1>5. CASE /\ CorrOf[m] # NoCorr /\ UNCHANGED unheard
           /\ answers' = [answers EXCEPT ![m] = Append(@, what)]
  <2>1. answers'[m] = Append(answers[m], what)
    BY <1>5 DEF TypeOK
  <2>2. Len(answers'[m]) = 1
    BY <1>2, <2>1
  <2> QED BY <1>1, <1>2, <1>5, <2>2 DEF AnsweredOnce
<1> QED BY <1>3, <1>4, <1>5 DEF Answer, Publishes

(* A step that ends no envelope answers none. *)
LEMMA AnswerNone ==
  ASSUME AnsweredOnce, UNCHANGED reply,
         \A x \in Msgs : phase'[x] = "over" <=> phase[x] = "over"
  PROVE  AnsweredOnce'
BY DEF AnsweredOnce, reply

LEMMA AnswerStep ==
  ASSUME CascadeAssumption, IInv, AnsweredOnce, [Next]_vars
  PROVE  AnsweredOnce'
<1> USE DEF IInv
<1>0. {"ok", "error", "skipped", "timeout"} \subseteq Outcomes /\ phase \in [Msgs -> Phases]
  BY DEF Outcomes, TypeOK
<1>1. ASSUME NEW m \in Msgs, Enlists(m) PROVE AnsweredOnce'
  BY <1>1, EnlistsFrom, AcquireMoves, AnswerNone
<1>2. ASSUME NEW m \in Msgs, Ends(m) PROVE AnsweredOnce'
  <2>1. PICK what \in {"ok", "error"} : Finish(m, what)
    BY <1>2 DEF Ends
  <2>2. /\ phase'[m] = "over" /\ phase[m] # "over"
        /\ \A x \in Msgs \ {m} : phase'[x] = "over" <=> phase[x] = "over"
    BY <1>2, <2>1, ReleaseMoves DEF Ends, Finish, Holding
  <2> QED BY <1>0, <2>1, <2>2, AnswerOne DEF Finish
<1>3. ASSUME NEW m \in Msgs, ExpireStale(m) \/ SkipDuplicate(m) PROVE AnsweredOnce'
  <2>1. /\ Answer(m, "timeout") \/ Answer(m, "skipped")
        /\ phase[m] # "over" /\ phase' = [phase EXCEPT ![m] = "over"]
    BY <1>3 DEF ExpireStale, SkipDuplicate, TakeTurn
  <2>2. /\ phase'[m] = "over"
        /\ \A x \in Msgs \ {m} : phase'[x] = "over" <=> phase[x] = "over"
    BY <1>0, <2>1
  <2> QED BY <1>0, <2>1, <2>2, AnswerOne
<1>4. ASSUME NEW m \in Msgs, Publish(m) \/ Resolve(m) \/ EnterChain(m) \/ Dispatch(m)
      PROVE  AnsweredOnce'
  <2>1. /\ UNCHANGED reply
        /\ \A x \in Msgs : phase'[x] = "over" <=> phase[x] = "over"
    BY <1>0, <1>4 DEF Publish, Resolve, EnterChain, Dispatch, TakeTurn
  <2> QED BY <2>1, AnswerNone
<1>5. ASSUME NEW m \in Msgs, Surfaces(m) PROVE AnsweredOnce'
  <2>1. /\ UNCHANGED reply
        /\ \A x \in Msgs : phase'[x] = "over" <=> phase[x] = "over"
    BY <1>0, <1>5 DEF Surfaces
  <2> QED BY <2>1, AnswerNone
<1>6. CASE \E next \in {"resolving", "expiring"} : Deliver(next)
  BY <1>6, DeliverOutside, AnswerNone
<1>7. CASE \E c \in Corrs : Cancel(c) \/ Prune(c)
  BY <1>7, AnswerNone DEF Cancel, Prune
<1>8. CASE Stop \/ AbortAll \/ Start \/ UNCHANGED vars
  BY <1>8, AnswerNone DEF Stop, AbortAll, Start, vars
<1>9. CASE Exit
  <2>1. /\ UNCHANGED reply
        /\ \A x \in Msgs : phase'[x] = "over" <=> phase[x] = "over"
    BY <1>0, <1>9 DEF Exit
  <2> QED BY <2>1, AnswerNone
<1> QED BY <1>1, <1>2, <1>3, <1>4, <1>5, <1>6, <1>7, <1>8, <1>9, StepKinds DEF Handles

(* Every caller of a cascade that is over was told once, or its one response
   could not be published, and no other was told: in all interleavings of
   skips, expiries, failures, cancellations and crashes. *)
THEOREM CascadeAnsweredOnce == ASSUME CascadeAssumption PROVE Spec => []AnsweredOnce
<1>1. Init => AnsweredOnce
  BY DEF Init, AnsweredOnce
<1>2. IInv /\ AnsweredOnce /\ [Next]_vars => AnsweredOnce'
  BY AnswerStep
<1> QED BY <1>1, <1>2, CascadeIInv, PTL DEF Spec

-----------------------------------------------------------------------------
(* The saturation flag.                                                    *)

(* With the registry exact, totalInFlight() counts who is enlisted. *)
LEMMA CountsEnlisted ==
  ASSUME CascadeAssumption, NEW reg, NEW all \in SUBSET Msgs,
         \A k \in Keys : reg[k] = {m \in all : KeyOf[m] = k}
  PROVE  Registered(reg) = all /\ {m \in Msgs : \E k \in Keys : m \in reg[k]} = all
BY DEF CascadeAssumption, Registered

OverHalfOf(S) == 2 * Cardinality(S) > Cap

LEMMA EnlistedFinite ==
  ASSUME CascadeAssumption
  PROVE  IsFiniteSet(In(Enlisted)) /\ IsFiniteSet(In(Enlisted)')
BY FS_Subset DEF CascadeAssumption, In

LEMMA OverHalfMonotone ==
  ASSUME CascadeAssumption, NEW S, NEW T, IsFiniteSet(T), S \subseteq T, OverHalfOf(S)
  PROVE  OverHalfOf(T)
<1>1. Cardinality(S) <= Cardinality(T) /\ Cardinality(S) \in Nat /\ Cardinality(T) \in Nat
  BY FS_Subset, FS_CardinalityType
<1> QED BY <1>1 DEF OverHalfOf, CascadeAssumption

(* The flag in terms of who is enlisted. *)
LEMMA SaturationOf ==
  ASSUME CascadeAssumption, RegistryExact
  PROVE  /\ SaturationExact <=> (saturated <=> OverHalfOf(In(Enlisted)))
         /\ OverHalf(inFlight) <=> OverHalfOf(In(Enlisted))
<1>1. /\ Registered(inFlight) = In(Enlisted)
      /\ {m \in Msgs : \E k \in Keys : m \in inFlight[k]} = In(Enlisted)
  <2>1. In(Enlisted) \in SUBSET Msgs /\ \A k \in Keys : inFlight[k] = {m \in In(Enlisted) : KeyOf[m] = k}
    BY DEF RegistryExact, In
  <2> QED BY <2>1, CountsEnlisted
<1> QED BY <1>1, Zenon DEF SaturationExact, OverHalf, OverHalfOf

LEMMA SaturationOfNext ==
  ASSUME CascadeAssumption, RegistryExact'
  PROVE  /\ SaturationExact' <=> (saturated' <=> OverHalfOf(In(Enlisted)'))
         /\ OverHalf(inFlight') <=> OverHalfOf(In(Enlisted)')
<1>1. /\ Registered(inFlight') = In(Enlisted)'
      /\ {m \in Msgs : \E k \in Keys : m \in inFlight'[k]} = In(Enlisted)'
  <2>1. In(Enlisted)' \in SUBSET Msgs /\ \A k \in Keys : inFlight'[k] = {m \in In(Enlisted)' : KeyOf[m] = k}
    BY DEF RegistryExact, In
  <2> QED BY <2>1, CountsEnlisted
<1> QED BY <1>1, Zenon DEF SaturationExact, OverHalf, OverHalfOf

LEMMA SaturationQuiet ==
  ASSUME CascadeAssumption, RegistryExact, RegistryExact', SaturationExact,
         In(Enlisted)' = In(Enlisted), UNCHANGED saturated
  PROVE  SaturationExact'
BY SaturationOf, SaturationOfNext, Zenon

LEMMA SaturationStep ==
  ASSUME CascadeAssumption, IInv, RegistryExact, SaturationExact, [Next]_vars
  PROVE  SaturationExact'
<1> USE DEF IInv
<1>0. RegistryExact'
  BY RegistryStep
<1>a. ASSUME UNCHANGED <<inFlight, saturated>>,
             \A x \in Msgs : phase'[x] \in Enlisted <=> phase[x] \in Enlisted
      PROVE  SaturationExact'
  BY <1>0, <1>a, RegistryQuiet, SaturationQuiet
<1>1. ASSUME NEW m \in Msgs, Enlists(m) PROVE SaturationExact'
  <2>1. In(Enlisted)' = In(Enlisted) \cup {m}
    BY <1>1, EnlistsFrom, RegistryRun
  <2>2. OverHalfOf(In(Enlisted)) => OverHalfOf(In(Enlisted)')
    BY <2>1, EnlistedFinite, OverHalfMonotone
  <2>3. saturated' = (saturated \/ OverHalf(inFlight'))
    BY <1>1, EnlistsFrom DEF RunCascade
  <2> QED BY <1>0, <2>2, <2>3, SaturationOf, SaturationOfNext, Zenon
<1>2. ASSUME NEW m \in Msgs, Ends(m) PROVE SaturationExact'
  <2>1. PICK what \in {"ok", "error"} : Finish(m, what)
    BY <1>2 DEF Ends
  <2>2. In(Enlisted)' = In(Enlisted) \ {m}
    BY <1>2, <2>1, RegistryFinish DEF Ends
  <2>3. OverHalfOf(In(Enlisted)') => OverHalfOf(In(Enlisted))
    BY <2>2, EnlistedFinite, OverHalfMonotone
  <2>4. saturated' = (saturated /\ OverHalf(inFlight'))
    BY <2>1 DEF Finish
  <2> QED BY <1>0, <2>3, <2>4, SaturationOf, SaturationOfNext, Zenon
<1>3. CASE \E m \in Msgs : Handles(m)
  BY <1>3, <1>a, HandlesOutside
<1>4. CASE \E m \in Msgs : Surfaces(m)
  BY <1>4, <1>a DEF Surfaces, TypeOK, Enlisted, Holding
<1>5. CASE \E next \in {"resolving", "expiring"} : Deliver(next)
  BY <1>5, <1>a, DeliverOutside DEF Enlisted, Holding
<1>6. CASE \E c \in Corrs : Cancel(c) \/ Prune(c)
  BY <1>6, <1>a DEF Cancel, Prune
<1>7. CASE Stop \/ AbortAll \/ Start \/ UNCHANGED vars
  BY <1>7, <1>a DEF Stop, AbortAll, Start, vars
<1>8. CASE Exit
  <2>1. Cardinality(In(Enlisted)') = 0
    BY <1>8, ExitEmpties, FS_EmptySet
  <2>2. ~OverHalfOf(In(Enlisted)')
    BY <2>1 DEF OverHalfOf, CascadeAssumption
  <2>3. saturated' = FALSE
    BY <1>8 DEF Exit
  <2> QED BY <1>0, <2>2, <2>3, SaturationOfNext, Zenon
<1> QED BY <1>1, <1>2, <1>3, <1>4, <1>5, <1>6, <1>7, <1>8, StepKinds

-----------------------------------------------------------------------------
(* The policies.                                                           *)

(* The phases after the policy lookup. *)
Decided == Enlisted \cup {"deciding", "chained"}

(* What was decided is a policy the key may have, and only `queue` chains. *)
PolicyKept ==
  /\ \A m \in In(Decided) : policy[m] \in policies[KeyOf[m]] \cup {"skip"}
  /\ \A m \in In({"chained"}) : policy[m] = "queue"

(* A registered `queue` cascade heads its chain until its promise settles. *)
QueueAtHead ==
  \A m \in In(Enlisted) : policy[m] = "queue" =>
     chain[KeyOf[m]] # <<>> /\ Head(chain[KeyOf[m]]) = m

(* `skip` in terms of envelopes. *)
SkipAlone ==
  \A m, n \in In(Enlisted) :
    KeyOf[m] = KeyOf[n] /\ policies[KeyOf[m]] \subseteq {"skip"} => m = n

(* `replace` in terms of envelopes. *)
ReplaceAlone ==
  \A m, n \in In(Enlisted) \ aborted :
    KeyOf[m] = KeyOf[n] /\ policies[KeyOf[m]] \subseteq {"skip", "replace"} => m = n

PolicyInv == RegistryExact /\ PolicyKept /\ QueueAtHead /\ SkipAlone /\ ReplaceAlone

(* A step that enlists nobody, decides on nobody and leaves the chains. *)
LEMMA PolicyQuiet ==
  ASSUME PolicyInv, UNCHANGED <<policies, policy, chain>>, aborted \subseteq aborted',
         \A x \in Msgs : phase'[x] \in Enlisted => phase[x] \in Enlisted,
         \A x \in Msgs : phase'[x] \in {"deciding", "chained"} => phase'[x] = phase[x]
  PROVE  PolicyKept' /\ QueueAtHead' /\ SkipAlone' /\ ReplaceAlone'
<1> USE DEF PolicyInv
<1>1. In(Enlisted)' \subseteq In(Enlisted) /\ In(Decided)' \subseteq In(Decided)
      /\ In({"chained"})' \subseteq In({"chained"})
  BY DEF In, Decided
<1>2. PolicyKept'
  BY <1>1 DEF PolicyKept
<1>3. QueueAtHead'
  BY <1>1 DEF QueueAtHead
<1>4. SkipAlone' /\ ReplaceAlone'
  BY <1>1 DEF SkipAlone, ReplaceAlone
<1> QED BY <1>2, <1>3, <1>4

(* The resolver's answer is one the key may have. *)
LEMMA PolicyResolve ==
  ASSUME TypeOK, PolicyInv, NEW m \in Msgs, Resolve(m)
  PROVE  PolicyKept' /\ QueueAtHead' /\ SkipAlone' /\ ReplaceAlone'
<1> USE DEF PolicyInv
<1>1. /\ phase[m] = "resolving" /\ phase' = [phase EXCEPT ![m] = "deciding"]
      /\ UNCHANGED <<policies, chain, aborted>>
      /\ policy'[m] \in policies[KeyOf[m]] \cup {"skip"}
      /\ \A x \in Msgs \ {m} : policy'[x] = policy[x]
  BY DEF Resolve, loop, TypeOK
<1>2. /\ In(Enlisted)' = In(Enlisted) /\ In({"chained"})' = In({"chained"})
      /\ In(Decided)' \subseteq In(Decided) \cup {m} /\ m \notin In(Enlisted) \cup In({"chained"})
  BY <1>1 DEF In, Decided, Enlisted, Holding, TypeOK
<1>3. \A x \in In(Enlisted) \cup In({"chained"}) : policy'[x] = policy[x]
  BY <1>1, <1>2 DEF In
<1>4. PolicyKept'
  <2>1. ASSUME NEW x \in In(Decided)' PROVE policy'[x] \in policies'[KeyOf[x]] \cup {"skip"}
    BY <1>1, <1>2, <2>1 DEF PolicyKept, In
  <2>2. ASSUME NEW x \in In({"chained"})' PROVE policy'[x] = "queue"
    BY <1>2, <1>3 DEF PolicyKept
  <2> QED BY <2>1, <2>2 DEF PolicyKept
<1>5. QueueAtHead'
  BY <1>1, <1>2, <1>3 DEF QueueAtHead
<1>6. SkipAlone' /\ ReplaceAlone'
  BY <1>1, <1>2 DEF SkipAlone, ReplaceAlone
<1> QED BY <1>4, <1>5, <1>6

(* A `queue` envelope lines up behind whoever heads the chain. *)
LEMMA PolicyChain ==
  ASSUME CascadeAssumption, TypeOK, PolicyInv, NEW m \in Msgs, EnterChain(m)
  PROVE  PolicyKept' /\ QueueAtHead' /\ SkipAlone' /\ ReplaceAlone'
<1> USE DEF PolicyInv
<1>1. /\ phase[m] = "deciding" /\ phase' = [phase EXCEPT ![m] = "chained"]
      /\ UNCHANGED <<policies, policy, aborted>> /\ policy[m] = "queue"
      /\ chain' = [chain EXCEPT ![KeyOf[m]] = Append(@, m)]
  BY DEF EnterChain, TakeTurn, loop
<1>2. /\ In(Enlisted)' = In(Enlisted) /\ In({"chained"})' = In({"chained"}) \cup {m}
      /\ In(Decided)' = In(Decided)
  BY <1>1 DEF In, Decided, Enlisted, Holding, TypeOK
<1>3. PolicyKept'
  BY <1>1, <1>2 DEF PolicyKept
<1>4. \A k \in Keys : chain[k] # <<>> => chain'[k] # <<>> /\ Head(chain'[k]) = Head(chain[k])
  <2>1. \A q \in Seq(Msgs) : q # <<>> => Append(q, m) # <<>> /\ Head(Append(q, m)) = Head(q)
    OBVIOUS
  <2>2. \A k \in Keys : /\ chain[k] \in Seq(Msgs)
                        /\ chain'[k] = chain[k] \/ chain'[k] = Append(chain[k], m)
    BY <1>1 DEF TypeOK
  <2> QED BY <2>1, <2>2
<1>5. QueueAtHead'
  BY <1>1, <1>2, <1>4 DEF QueueAtHead, In, CascadeAssumption
<1>6. SkipAlone' /\ ReplaceAlone'
  BY <1>1, <1>2 DEF SkipAlone, ReplaceAlone
<1> QED BY <1>3, <1>5, <1>6

(* A cascade is enlisted only as its policy allows. *)
LEMMA PolicyEnlist ==
  ASSUME CascadeAssumption, TypeOK, PolicyInv, NEW m \in Msgs, Enlists(m)
  PROVE  PolicyKept' /\ QueueAtHead' /\ SkipAlone' /\ ReplaceAlone'
<1> USE DEF PolicyInv
<1> DEFINE k == KeyOf[m]
<1>1. PICK victims \in SUBSET inFlight[k] : RunCascade(m, victims)
  BY EnlistsFrom
<1>2. /\ In(Enlisted)' = In(Enlisted) \cup {m} /\ m \notin In(Enlisted)
      /\ UNCHANGED <<policies, policy, chain>> /\ phase[m] \in {"deciding", "chained"}
      /\ aborted \subseteq aborted' /\ k \in Keys
  BY <1>1, EnlistsFrom, RegistryRun DEF RunCascade, loop, CascadeAssumption
<1>3. /\ phase'[m] \in {"granted", "waiting"}
      /\ \A x \in Msgs \ {m} : phase'[x] = phase[x]
  BY EnlistsFrom, AcquireMoves
<1>4. policy[m] \in policies[k] \cup {"skip"}
  BY <1>2 DEF PolicyKept, In, Decided
<1>5. PolicyKept'
  <2>1. In(Decided)' \subseteq In(Decided) /\ In({"chained"})' \subseteq In({"chained"})
    BY <1>2, <1>3 DEF In, Decided
  <2> QED BY <1>2, <2>1 DEF PolicyKept
<1>6. inFlight[k] = {x \in In(Enlisted) : KeyOf[x] = k}
  BY <1>2 DEF RegistryExact
<1>7. \/ RunAtOnce(m) /\ policy[m] # "queue"
      \/ /\ RunChained(m) /\ chain[k] # <<>> /\ Head(chain[k]) = m
         /\ policy[m] = "queue"
  BY DEF Enlists, RunAtOnce, RunChained, TailSettled, PolicyKept, In
<1>8. QueueAtHead'
  BY <1>2, <1>7 DEF QueueAtHead
<1>9. policies[k] \subseteq {"skip", "replace"} => RunAtOnce(m) /\ policy[m] \in {"skip", "replace"}
  BY <1>4, <1>7
<1>10. RunAtOnce(m) /\ policy[m] = "skip" => inFlight[k] = {}
  BY DEF RunAtOnce, Busy
<1>11. RunAtOnce(m) /\ policy[m] = "replace" => inFlight[k] \subseteq aborted'
  BY DEF RunAtOnce, Victims, RunCascade
<1>12. SkipAlone'
  <2> SUFFICES ASSUME NEW x \in In(Enlisted)', NEW y \in In(Enlisted)', KeyOf[x] = KeyOf[y],
                      policies[KeyOf[x]] \subseteq {"skip"}
               PROVE  x = y
    BY <1>2 DEF SkipAlone
  <2>1. CASE x # m /\ y # m
    BY <1>2, <2>1 DEF SkipAlone
  <2>2. CASE x = m \/ y = m
    BY <1>2, <1>4, <1>6, <1>9, <1>10, <2>2
  <2> QED BY <2>1, <2>2
<1>13. ReplaceAlone'
  <2> SUFFICES ASSUME NEW x \in In(Enlisted)' \ aborted', NEW y \in In(Enlisted)' \ aborted',
                      KeyOf[x] = KeyOf[y], policies[KeyOf[x]] \subseteq {"skip", "replace"}
               PROVE  x = y
    BY <1>2 DEF ReplaceAlone
  <2>1. CASE x # m /\ y # m
    BY <1>2, <2>1 DEF ReplaceAlone
  <2>2. CASE x = m \/ y = m
    BY <1>2, <1>6, <1>9, <1>10, <1>11, <2>2
  <2> QED BY <2>1, <2>2
<1> QED BY <1>5, <1>8, <1>12, <1>13

(* A cascade that ends and heads its chain lets the next one of it go. *)
LEMMA PolicyEnd ==
  ASSUME CascadeAssumption, IInv, PolicyInv, NEW m \in Msgs, Ends(m)
  PROVE  PolicyKept' /\ QueueAtHead' /\ SkipAlone' /\ ReplaceAlone'
<1> USE DEF IInv, PolicyInv
<1> DEFINE k == KeyOf[m]
<1>1. PICK what \in {"ok", "error"} : Finish(m, what)
  BY DEF Ends
<1>2. /\ In(Enlisted)' = In(Enlisted) \ {m} /\ m \in In(Enlisted)
      /\ UNCHANGED <<policies, policy, aborted>> /\ k \in Keys
  BY <1>1, RegistryFinish DEF Ends, Finish, loop, admit, CascadeAssumption
<1>3. /\ phase'[m] = "over"
      /\ \A x \in Msgs \ {m} : \/ phase'[x] = phase[x]
                               \/ phase[x] = "waiting" /\ phase'[x] = "granted"
  BY <1>1, ReleaseMoves DEF Ends, Finish
<1>4. PolicyKept'
  <2>1. In(Decided)' \subseteq In(Decided) /\ In({"chained"})' \subseteq In({"chained"})
    BY <1>2, <1>3 DEF In, Decided, Enlisted, Holding
  <2> QED BY <1>2, <2>1 DEF PolicyKept
<1>5. QueueAtHead'
  <2> SUFFICES ASSUME NEW x \in In(Enlisted)', policy[x] = "queue"
               PROVE  chain'[KeyOf[x]] # <<>> /\ Head(chain'[KeyOf[x]]) = x
    BY <1>2 DEF QueueAtHead
  <2>1. x # m /\ x \in In(Enlisted) /\ chain[KeyOf[x]] # <<>> /\ Head(chain[KeyOf[x]]) = x
    BY <1>2 DEF QueueAtHead
  <2>2. chain' = IF chain[k] # <<>> /\ Head(chain[k]) = m
                 THEN [chain EXCEPT ![k] = Tail(@)] ELSE chain
    BY <1>1 DEF Finish
  <2>3. chain'[KeyOf[x]] = chain[KeyOf[x]]
    BY <1>2, <2>1, <2>2 DEF TypeOK
  <2> QED BY <2>1, <2>3
<1>6. SkipAlone' /\ ReplaceAlone'
  BY <1>2 DEF SkipAlone, ReplaceAlone
<1> QED BY <1>4, <1>5, <1>6

(* Whatever the step, the policies keep excluding what they exclude. *)
LEMMA PolicyStep ==
  ASSUME CascadeAssumption, IInv, PolicyInv, [Next]_vars
  PROVE  PolicyInv'
<1> USE DEF IInv
<1>0. RegistryExact'
  BY RegistryStep DEF PolicyInv
<1>1. CASE \E m \in Msgs : Enlists(m)
  BY <1>0, <1>1, PolicyEnlist DEF PolicyInv
<1>2. CASE \E m \in Msgs : Ends(m)
  BY <1>0, <1>2, PolicyEnd DEF PolicyInv
<1>3. ASSUME NEW m \in Msgs, Handles(m) PROVE PolicyInv'
  <2>1. CASE Resolve(m)
    BY <1>0, <2>1, PolicyResolve DEF PolicyInv
  <2>2. CASE EnterChain(m)
    BY <1>0, <2>2, PolicyChain DEF PolicyInv
  <2>3. CASE Publish(m) \/ ExpireStale(m) \/ SkipDuplicate(m) \/ Dispatch(m)
    <3>1. /\ UNCHANGED <<policies, policy, chain, aborted>>
          /\ \A x \in Msgs : phase'[x] \in {"deciding", "chained"} => phase'[x] = phase[x]
      BY <2>3 DEF TypeOK, Publish, ExpireStale, SkipDuplicate, Dispatch, TakeTurn, loop, admit
    <3> QED BY <1>0, <1>3, <3>1, HandlesOutside, PolicyQuiet DEF PolicyInv
  <2> QED BY <1>3, <2>1, <2>2, <2>3 DEF Handles
<1>4. ASSUME NEW m \in Msgs, Surfaces(m) PROVE PolicyInv'
  <2>1. /\ UNCHANGED <<policies, policy, chain, aborted>>
        /\ \A x \in Msgs : phase'[x] \in Enlisted => phase[x] \in Enlisted
        /\ \A x \in Msgs : phase'[x] \in {"deciding", "chained"} => phase'[x] = phase[x]
    BY <1>4 DEF TypeOK, Surfaces, loop, admit, Enlisted, Holding
  <2> QED BY <1>0, <2>1, PolicyQuiet DEF PolicyInv
<1>5. ASSUME NEW next \in {"resolving", "expiring"}, Deliver(next) PROVE PolicyInv'
  <2>1. /\ UNCHANGED <<policies, policy, chain, aborted>>
        /\ \A x \in Msgs : phase'[x] \in Enlisted \cup {"deciding", "chained"} =>
                            phase'[x] = phase[x]
    BY <1>5, DeliverOutside DEF loop, admit, Enlisted, Holding
  <2> QED BY <1>0, <2>1, PolicyQuiet DEF PolicyInv
<1>6. ASSUME NEW c \in Corrs, Cancel(c) \/ Prune(c) PROVE PolicyInv'
  <2>1. UNCHANGED <<policies, policy, chain, phase>> /\ aborted \subseteq aborted'
    BY <1>6 DEF Cancel, Prune, loop, admit
  <2> QED BY <1>0, <2>1, PolicyQuiet DEF PolicyInv
<1>7. CASE Stop \/ AbortAll \/ Start \/ UNCHANGED vars
  <2>1. UNCHANGED <<policies, policy, chain, phase>> /\ aborted \subseteq aborted'
    BY <1>7 DEF Stop, AbortAll, Start, vars, loop, admit
  <2> QED BY <1>0, <2>1, PolicyQuiet DEF PolicyInv
<1>8. CASE Exit
  <2>1. In(Decided)' = {} /\ In({"chained"})' = {} /\ In(Enlisted)' = {}
    BY <1>8 DEF TypeOK, Exit, In, Decided, Enlisted, Holding
  <2> QED BY <1>0, <2>1 DEF PolicyInv, PolicyKept, QueueAtHead, SkipAlone, ReplaceAlone
<1> QED BY <1>1, <1>2, <1>3, <1>4, <1>5, <1>6, <1>7, <1>8, StepKinds

LEMMA CascadePolicyInv == ASSUME CascadeAssumption PROVE Spec => [](IInv /\ PolicyInv)
<1>1. Init => PolicyInv
  <2> SUFFICES ASSUME Init PROVE PolicyInv
    OBVIOUS
  <2>1. In(Decided) = {} /\ In({"chained"}) = {} /\ In(Enlisted) = {}
    BY DEF Init, In, Decided, Enlisted, Holding
  <2> QED BY <2>1 DEF PolicyInv, RegistryExact, PolicyKept, QueueAtHead, SkipAlone, ReplaceAlone,
                      Init
<1>2. IInv /\ PolicyInv /\ [Next]_vars => PolicyInv'
  BY PolicyStep
<1> QED BY <1>1, <1>2, CascadeIInv, PTL DEF Spec

(* The saturated flag says at every moment whether over half the cap is
   registered, so that queue_saturated and queue_drained alternate. *)
THEOREM CascadeSaturationExact == ASSUME CascadeAssumption PROVE Spec => []SaturationExact
<1>1. Init => SaturationExact
  <2> SUFFICES ASSUME Init PROVE SaturationExact
    OBVIOUS
  <2>1. {m \in Msgs : \E k \in Keys : m \in inFlight[k]} = {}
    BY DEF Init
  <2>2. ~(2 * Cardinality({m \in Msgs : \E k \in Keys : m \in inFlight[k]}) > Cap)
    <3> DEFINE S == {m \in Msgs : \E k \in Keys : m \in inFlight[k]}
    <3>1. Cardinality(S) = 0
      BY <2>1, FS_EmptySet
    <3> HIDE DEF S
    <3>2. ~(2 * Cardinality(S) > Cap)
      BY <3>1 DEF CascadeAssumption
    <3> QED BY <3>2, Zenon DEF S
  <2>3. saturated = FALSE
    BY DEF Init
  <2> QED BY <2>2, <2>3, Zenon DEF SaturationExact
<1>2. IInv /\ PolicyInv /\ SaturationExact /\ [Next]_vars => SaturationExact'
  BY SaturationStep DEF PolicyInv
<1> QED BY <1>1, <1>2, CascadePolicyInv, PTL DEF Spec

(* A key whose policy is always `skip` runs one cascade at a time. *)
THEOREM CascadeSkipExclusive == ASSUME CascadeAssumption PROVE Spec => []SkipExclusive
<1>1. PolicyInv => SkipExclusive
  <2> SUFFICES ASSUME PolicyInv, NEW k \in Keys, policies[k] \subseteq {"skip"}
               PROVE  Cardinality(inFlight[k]) <= 1
    BY DEF SkipExclusive
  <2>1. \A m, n \in inFlight[k] : m = n
    BY DEF PolicyInv, RegistryExact, SkipAlone
  <2>2. CASE inFlight[k] = {}
    BY <2>2, FS_EmptySet
  <2>3. CASE \E m : inFlight[k] = {m}
    <3>1. PICK m : inFlight[k] = {m}
      BY <2>3
    <3>2. Cardinality({m}) = 1
      BY FS_Singleton
    <3> QED BY <3>1, <3>2
  <2>4. CASE inFlight[k] # {}
    <3>1. PICK m : m \in inFlight[k]
      BY <2>4
    <3>2. inFlight[k] = {m}
      BY <2>1, <3>1
    <3> QED BY <2>3, <3>2
  <2> QED BY <2>2, <2>4
<1> QED BY <1>1, CascadePolicyInv, PTL

(* Of the cascades admitted under `queue` a key runs one at a time, although
   the policy of the key may change while they wait. *)
THEOREM CascadeQueueSerial == ASSUME CascadeAssumption PROVE Spec => []QueueSerial
<1>1. PolicyInv => QueueSerial
  <2> SUFFICES ASSUME PolicyInv, NEW k \in Keys, NEW m \in inFlight[k], NEW n \in inFlight[k],
                      policy[m] = "queue", policy[n] = "queue"
               PROVE  m = n
    BY DEF QueueSerial
  <2>1. {m, n} \subseteq In(Enlisted) /\ KeyOf[m] = k /\ KeyOf[n] = k
    BY DEF PolicyInv, RegistryExact
  <2> QED BY <2>1 DEF PolicyInv, QueueAtHead
<1> QED BY <1>1, CascadePolicyInv, PTL

(* After a replacement nobody but the latest runs unaborted. *)
THEOREM CascadeReplaceLeavesOne == ASSUME CascadeAssumption PROVE Spec => []ReplaceLeavesOne
<1>1. PolicyInv => ReplaceLeavesOne
  <2> SUFFICES ASSUME PolicyInv, NEW k \in Keys, NEW m \in inFlight[k], NEW n \in inFlight[k],
                      policies[k] \subseteq {"skip", "replace"}, {m, n} \cap aborted = {}
               PROVE  m = n
    BY DEF ReplaceLeavesOne
  <2>1. {m, n} \subseteq In(Enlisted) \ aborted /\ KeyOf[m] = k /\ KeyOf[n] = k
    BY DEF PolicyInv, RegistryExact
  <2> QED BY <2>1 DEF PolicyInv, ReplaceAlone
<1> QED BY <1>1, CascadePolicyInv, PTL

-----------------------------------------------------------------------------
(* Cancellation.                                                           *)

(* While the process may still be told of a cancellation, the correlation id
   of a registered cascade leads to it. *)
Correlates ==
  daemon \in {"up", "stopping"} =>
    \A m \in In(Enlisted) : CorrOf[m] # NoCorr => correlated[CorrOf[m]] = m

(* A new process begins with an empty registry. *)
DownEmpty == daemon = "down" => In(Enlisted) = {}

(* The phases from which an envelope may still be registered. *)
Awaiting == {"unsent", "pending", "resolving", "deciding", "chained"}

(* A cancellation that is owed to such an envelope is on record. *)
OwedRecorded == \A m \in In(Awaiting) : CorrOf[m] \in owed => CorrOf[m] \in cancelled

(* CancelReaches in terms of who is enlisted. *)
CancelledAborted == \A m \in In(Enlisted) : CorrOf[m] \in owed => m \in aborted

CancelInv == Correlates /\ DownEmpty /\ OwedRecorded /\ CancelledAborted

(* A step that enlists nobody, cancels nothing and forgets no correlation. *)
LEMMA CancelQuiet ==
  ASSUME CancelInv, UNCHANGED <<daemon, corr>>, aborted \subseteq aborted',
         \A x \in Msgs : phase'[x] \in Enlisted => phase[x] \in Enlisted,
         \A x \in Msgs : phase'[x] \in Awaiting => phase[x] \in Awaiting
  PROVE  CancelInv'
<1>1. In(Enlisted)' \subseteq In(Enlisted) /\ In(Awaiting)' \subseteq In(Awaiting)
  BY DEF In
<1> QED BY <1>1 DEF CancelInv, Correlates, DownEmpty, OwedRecorded, CancelledAborted, corr

(* A cascade is correlated as it is enlisted, and aborted if its caller has
   cancelled already. *)
LEMMA CancelEnlist ==
  ASSUME CascadeAssumption, UniqueCorr, TypeOK, RegistryExact, CancelInv, NEW m \in Msgs,
         Enlists(m)
  PROVE  CancelInv'
<1>1. PICK victims \in SUBSET inFlight[KeyOf[m]] : RunCascade(m, victims)
  BY EnlistsFrom
<1>2. /\ In(Enlisted)' = In(Enlisted) \cup {m}
      /\ UNCHANGED daemon /\ daemon # "down"
  BY <1>1, EnlistsFrom, RegistryRun DEF loop, Alive
<1>3. /\ correlated' = IF CorrOf[m] = NoCorr THEN correlated
                       ELSE [correlated EXCEPT ![CorrOf[m]] = m]
      /\ aborted' = aborted \cup victims \cup {x \in {m} : CorrOf[x] \in cancelled}
      /\ UNCHANGED <<cancelled, owed>>
  BY <1>1 DEF RunCascade, CancelledEarly
<1>4. /\ m \in In(Awaiting) /\ In(Awaiting)' \subseteq In(Awaiting)
  <2>1. /\ phase'[m] \in {"granted", "waiting"} /\ \A x \in Msgs \ {m} : phase'[x] = phase[x]
        /\ phase[m] \in {"deciding", "chained"}
    BY EnlistsFrom, AcquireMoves
  <2> QED BY <2>1 DEF In, Awaiting
<1>5. Correlates'
  <2> SUFFICES ASSUME daemon \in {"up", "stopping"},
                      NEW x \in In(Enlisted)', CorrOf[x] # NoCorr
               PROVE  correlated'[CorrOf[x]] = x
    BY <1>2 DEF Correlates
  <2>1. x \in Msgs /\ CorrOf[x] \in Corrs
    BY DEF In, CascadeAssumption
  <2>2. CASE x = m
    BY <1>3, <2>1, <2>2 DEF TypeOK
  <2>3. CASE x # m
    <3>1. CorrOf[x] # CorrOf[m] /\ correlated[CorrOf[x]] = x
      BY <1>2, <2>1, <2>3 DEF UniqueCorr, CancelInv, Correlates
    <3> QED BY <1>3, <2>1, <3>1 DEF TypeOK
  <2> QED BY <2>2, <2>3
<1>6. CancelledAborted'
  BY <1>2, <1>3, <1>4 DEF CancelInv, OwedRecorded, CancelledAborted
<1>7. OwedRecorded'
  BY <1>3, <1>4 DEF CancelInv, OwedRecorded
<1> QED BY <1>2, <1>5, <1>6, <1>7 DEF CancelInv, DownEmpty

(* A cascade that ends takes no correlation but its own along. *)
LEMMA CancelEnd ==
  ASSUME CascadeAssumption, UniqueCorr, IInv, RegistryExact, CancelInv, NEW m \in Msgs, Ends(m)
  PROVE  CancelInv'
<1> USE DEF IInv
<1>1. PICK what \in {"ok", "error"} : Finish(m, what)
  BY DEF Ends
<1>2. /\ In(Enlisted)' = In(Enlisted) \ {m}
      /\ UNCHANGED <<daemon, aborted, owed>>
  BY <1>1, RegistryFinish DEF Ends, Finish, loop
<1>3. m \notin In(Awaiting) /\ In(Awaiting)' \subseteq In(Awaiting)
  <2>1. /\ phase'[m] = "over" /\ phase[m] \in Holding
        /\ \A x \in Msgs \ {m} : \/ phase'[x] = phase[x]
                                 \/ phase[x] = "waiting" /\ phase'[x] = "granted"
    BY <1>1, ReleaseMoves DEF Ends, Finish
  <2> QED BY <2>1 DEF In, Awaiting, Holding
<1>4. Correlates'
  <2> SUFFICES ASSUME daemon \in {"up", "stopping"},
                      NEW x \in In(Enlisted)', CorrOf[x] # NoCorr
               PROVE  correlated'[CorrOf[x]] = x
    BY <1>2 DEF Correlates
  <2>1. /\ x \in Msgs /\ CorrOf[x] \in Corrs
        /\ CorrOf[x] # CorrOf[m] /\ correlated[CorrOf[x]] = x
    BY <1>2 DEF In, CascadeAssumption, UniqueCorr, CancelInv, Correlates
  <2>2. correlated' = correlated \/ correlated' = [correlated EXCEPT ![CorrOf[m]] = NoMsg]
    BY <1>1 DEF Finish
  <2> QED BY <2>1, <2>2 DEF TypeOK
<1>5. CancelledAborted'
  BY <1>2 DEF CancelInv, CancelledAborted
<1>6. OwedRecorded'
  <2> SUFFICES ASSUME NEW x \in In(Awaiting)', CorrOf[x] \in owed PROVE CorrOf[x] \in cancelled'
    BY <1>2 DEF OwedRecorded
  <2>1. x \in Msgs /\ x # m /\ CorrOf[x] \in cancelled /\ CorrOf[x] \in Corrs
    BY <1>3 DEF In, CancelInv, OwedRecorded, TypeOK
  <2>2. CorrOf[x] # CorrOf[m]
    BY <2>1 DEF UniqueCorr, CascadeAssumption
  <2> QED BY <1>1, <2>1, <2>2 DEF Finish
<1> QED BY <1>2, <1>4, <1>5, <1>6 DEF CancelInv, DownEmpty

(* The cancellation that arrives finds the cascade by its correlation id. *)
LEMMA CancelArrives ==
  ASSUME CascadeAssumption, CancelInv, NEW c \in Corrs, Cancel(c)
  PROVE  CancelInv'
<1>1. /\ daemon = "up" /\ cancelled' = cancelled \cup {c} /\ owed' = owed \cup {c}
      /\ aborted' = aborted \cup ({correlated[c]} \ {NoMsg})
      /\ UNCHANGED <<daemon, correlated, phase>>
  BY DEF Cancel, Target, loop
<1>2. In(Enlisted)' = In(Enlisted) /\ In(Awaiting)' = In(Awaiting)
  BY <1>1 DEF In
<1>3. CancelledAborted'
  <2> SUFFICES ASSUME NEW m \in In(Enlisted), CorrOf[m] \in owed \cup {c}
               PROVE  m \in aborted'
    BY <1>1, <1>2 DEF CancelledAborted
  <2>1. CASE CorrOf[m] \in owed
    BY <1>1, <2>1 DEF CancelInv, CancelledAborted
  <2>2. CASE CorrOf[m] = c
    <3>1. c # NoCorr /\ m # NoMsg
      BY DEF CascadeAssumption, In
    <3>2. correlated[c] = m
      BY <1>1, <2>2, <3>1 DEF CancelInv, Correlates
    <3> QED BY <1>1, <3>1, <3>2
  <2> QED BY <2>1, <2>2
<1>4. OwedRecorded'
  BY <1>1, <1>2 DEF CancelInv, OwedRecorded
<1> QED BY <1>1, <1>2, <1>3, <1>4 DEF CancelInv, Correlates, DownEmpty

(* The record that is pruned was owed to no envelope that may still be
   registered, or is not owed any more. *)
LEMMA CancelForgotten ==
  ASSUME CancelInv, NEW c \in Corrs, Prune(c)
  PROVE  CancelInv'
<1>1. /\ cancelled' = cancelled \ {c}
      /\ owed' = owed \ {x \in {c} : \E m \in In({"unsent", "chained"}) : CorrOf[m] = x}
      /\ UNCHANGED <<daemon, correlated, aborted, phase>>
      /\ \A m \in In({"pending", "resolving", "deciding"}) : CorrOf[m] # c
  BY DEF Prune, loop
<1>2. In(Enlisted)' = In(Enlisted) /\ In(Awaiting)' = In(Awaiting)
  BY <1>1 DEF In
<1>3. OwedRecorded'
  <2> SUFFICES ASSUME NEW m \in In(Awaiting), CorrOf[m] \in owed' PROVE CorrOf[m] \in cancelled'
    BY <1>2 DEF OwedRecorded
  <2>1. CorrOf[m] \in cancelled
    BY <1>1 DEF CancelInv, OwedRecorded
  <2>2. CorrOf[m] # c
    BY <1>1 DEF In, Awaiting
  <2> QED BY <1>1, <2>1, <2>2
<1>4. CancelledAborted' /\ Correlates' /\ DownEmpty'
  BY <1>1, <1>2 DEF CancelInv, CancelledAborted, Correlates, DownEmpty
<1> QED BY <1>3, <1>4 DEF CancelInv

LEMMA CancelStep ==
  ASSUME CascadeAssumption, UniqueCorr, IInv, RegistryExact, CancelInv, [Next]_vars
  PROVE  CancelInv'
<1> USE DEF IInv
<1>1. CASE \E m \in Msgs : Enlists(m)
  BY <1>1, CancelEnlist
<1>2. CASE \E m \in Msgs : Ends(m)
  BY <1>2, CancelEnd
<1>3. ASSUME NEW m \in Msgs, Handles(m) PROVE CancelInv'
  <2>1. \A x \in Msgs : phase'[x] \in Awaiting => phase[x] \in Awaiting
    BY <1>3 DEF TypeOK, Handles, Publish, ExpireStale, Resolve, SkipDuplicate, EnterChain,
                Dispatch, TakeTurn, Awaiting
  <2> QED BY <1>3, <2>1, HandlesOutside, CancelQuiet DEF loop
<1>4. CASE \E m \in Msgs : Surfaces(m)
  <2>1. /\ UNCHANGED <<loop, aborted, corr>>
        /\ \A x \in Msgs : phase'[x] \in Enlisted => phase[x] \in Enlisted
        /\ \A x \in Msgs : phase'[x] \in Awaiting => phase[x] \in Awaiting
    BY <1>4 DEF Surfaces, TypeOK, Enlisted, Holding, Awaiting
  <2> QED BY <2>1, CancelQuiet DEF loop
<1>5. CASE \E next \in {"resolving", "expiring"} : Deliver(next)
  <2>1. /\ UNCHANGED <<loop, aborted, corr>>
        /\ \A x \in Msgs : phase'[x] \in Enlisted => phase[x] \in Enlisted
        /\ \A x \in Msgs : phase'[x] \in Awaiting => phase[x] \in Awaiting
    BY <1>5, DeliverOutside DEF Enlisted, Holding, Awaiting
  <2> QED BY <2>1, CancelQuiet DEF loop
<1>6. CASE \E c \in Corrs : Cancel(c)
  BY <1>6, CancelArrives
<1>7. CASE \E c \in Corrs : Prune(c)
  BY <1>7, CancelForgotten
<1>8. CASE Stop \/ AbortAll \/ Start
  <2>1. /\ In(Enlisted)' = In(Enlisted) /\ In(Awaiting)' = In(Awaiting)
        /\ aborted \subseteq aborted' /\ UNCHANGED <<cancelled, owed>>
    BY <1>8 DEF Stop, AbortAll, Start, In, corr
  <2>2. CancelledAborted' /\ OwedRecorded'
    BY <2>1 DEF CancelInv, CancelledAborted, OwedRecorded
  <2>3. Correlates' /\ DownEmpty'
    BY <1>8, <2>1 DEF Stop, AbortAll, Start, corr, CancelInv, Correlates, DownEmpty
  <2> QED BY <2>2, <2>3 DEF CancelInv
<1>9. CASE Exit
  <2>1. owed' = {} /\ In(Enlisted)' = {}
    BY <1>9, ExitEmpties DEF Exit
  <2> QED BY <2>1 DEF CancelInv, Correlates, DownEmpty, OwedRecorded, CancelledAborted
<1>10. CASE UNCHANGED vars
  BY <1>10, CancelQuiet DEF vars, loop
<1> QED BY <1>1, <1>2, <1>3, <1>4, <1>5, <1>6, <1>7, <1>8, <1>9, <1>10, StepKinds

(* A cancellation reaches its cascade before it is registered, while it waits
   for a slot and while it dispatches, unless its record was pruned first. *)
THEOREM CascadeCancelReaches == ASSUME CascadeAssumption PROVE Spec => []CancelReaches
<1>1. Init => CancelInv
  BY DEF Init, CancelInv, Correlates, DownEmpty, OwedRecorded, CancelledAborted, In, Enlisted,
         Holding
<1>2. IInv /\ PolicyInv /\ (UniqueCorr => CancelInv) /\ [Next]_vars => (UniqueCorr => CancelInv')
  BY CancelStep DEF PolicyInv
<1>3. PolicyInv /\ (UniqueCorr => CancelInv) => CancelReaches
  <2> SUFFICES ASSUME PolicyInv, CancelInv, UniqueCorr, NEW k \in Keys, NEW m \in inFlight[k],
                      CorrOf[m] \in owed
               PROVE  m \in aborted
    BY DEF CancelReaches
  <2>1. m \in In(Enlisted)
    BY DEF PolicyInv, RegistryExact
  <2> QED BY <2>1 DEF CancelInv, CancelledAborted
<1>4. UniqueCorr' <=> UniqueCorr
  BY DEF UniqueCorr
<1> QED BY <1>1, <1>2, <1>3, <1>4, CascadePolicyInv, PTL DEF Spec

=============================================================================
