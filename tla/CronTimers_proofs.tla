--------------------------- MODULE CronTimers_proofs ---------------------------
(***************************************************************************)
(* What one timer of cron-manager.ts keeps through its writes, restarts,   *)
(* crashes and edits, for every schedule, missed window, set of policies   *)
(* and bound: no slot told twice, none lost in silence, and a row that is  *)
(* what memory says.                                                       *)
(***************************************************************************)
EXTENDS CronTimers, FiniteSetTheorems, WellFoundedInduction, TLAPS

Writes == [row : Rows \cup {None}, after : {"done", "tell", "register", "pause"},
           slots : SUBSET Slots]

-----------------------------------------------------------------------------
(* The schedule.                                                           *)

LEMMA SlotsNat == ASSUME CronAssumption PROVE Slots \subseteq Times /\ Times \subseteq Nat
BY DEF CronAssumption, Slots, Times

(* expr.next() is a slot of the schedule after the instant it is asked about. *)
LEMMA NextSlotLater ==
  ASSUME CronAssumption, NEW t \in Times
  PROVE  /\ NextSlot(t) \in {k * Period : k \in 1..(Horizon \div Period + 1)}
         /\ NextSlot(t) \in Nat /\ t < NextSlot(t)
<1>1. t \in Nat /\ t <= Horizon /\ Period \in Nat /\ Period > 0 /\ Horizon \in Nat
  BY DEF CronAssumption, Times
<1>2. t \div Period \in Nat /\ Horizon \div Period \in Nat /\ t \div Period <= Horizon \div Period
  BY <1>1
<1>3. t \div Period + 1 \in 1..(Horizon \div Period + 1)
  BY <1>2
<1>4. (t \div Period + 1) * Period > t /\ (t \div Period + 1) * Period \in Nat
  BY <1>1
<1> QED BY <1>3, <1>4 DEF NextSlot

(* A timer's next execution is a slot once it is due. *)
LEMMA DueIsSlot ==
  ASSUME CronAssumption, NEW row \in Rows, NEW t \in Times, row.next <= t
  PROVE  row.next \in Slots
<1> DEFINE p == Period
           n == row.next
<1>1. PICK k \in 1..(Horizon \div Period + 1) : n = k * p
  BY DEF Rows
<1>2. /\ t \in Nat /\ t <= Horizon /\ p \in Nat /\ p > 0 /\ k \in Nat /\ k >= 1 /\ Horizon \in Nat
  BY <1>1 DEF CronAssumption, Times
<1> HIDE DEF p, n
<1>3. n \in Nat /\ n >= 1
  BY <1>1, <1>2
<1> DEFINE q == n \div p
           r == n % p
<1>4. q \in Nat /\ r \in Nat /\ r < p /\ n = q * p + r
  BY <1>2, <1>3
<1> HIDE DEF q, r
<1>5. r = 0
  <2>1. CASE q < k
    <3>1. (q + 1) * p <= k * p
      BY <1>2, <1>4, <2>1
    <3>2. (q + 1) * p = q * p + p /\ q * p \in Nat
      BY <1>2, <1>4
    <3> QED BY <1>1, <1>2, <1>3, <1>4, <3>1, <3>2
  <2>2. CASE q >= k
    <3>1. q * p >= k * p /\ q * p \in Nat
      BY <1>2, <1>4, <2>2
    <3> QED BY <1>1, <1>2, <1>3, <1>4, <3>1
  <2> QED BY <1>2, <1>4, <2>1, <2>2
<1>6. n \in 1..Horizon
  BY <1>2, <1>3 DEF n
<1> QED BY <1>5, <1>6 DEF r, n, p, Slots

(* and the first one. *)
LEMMA NextSlotFirst ==
  ASSUME CronAssumption, NEW t \in Times, NEW s \in Slots, s < NextSlot(t)
  PROVE  s <= t
<1> DEFINE p == Period
           a == s \div p
           b == t \div p
<1>1. s \in Nat /\ t \in Nat /\ p \in Nat /\ p > 0 /\ s % p = 0
  BY DEF CronAssumption, Times, Slots
<1>2. a \in Nat /\ b \in Nat /\ s = a * p + (s % p) /\ b * p <= t
  BY <1>1
<1>3. a * p < (b + 1) * p
  BY <1>1, <1>2 DEF NextSlot
<1> HIDE DEF a, b, p
<1>4. a < b + 1
  <2>1. CASE a >= b + 1
    <3>1. a * p >= (b + 1) * p
      BY <1>1, <1>2, <2>1
    <3> QED BY <1>1, <1>2, <1>3, <3>1
  <2> QED BY <1>2, <2>1
<1>5. a * p <= b * p
  BY <1>1, <1>2, <1>4
<1> QED BY <1>1, <1>2, <1>5

-----------------------------------------------------------------------------
(* The smallest and the largest of a set of instants.                      *)

LEMMA Least ==
  ASSUME NEW S \in SUBSET Nat, S # {}
  PROVE  \E n \in S : \A m \in S : n <= m
<1>1. IsWellFoundedOn(OpToRel(<, Nat), Nat)
  BY NatLessThanWellFounded
<1> DEFINE Less == OpToRel(<, Nat)
<1>2. \A x, y \in Nat : x < y => <<x, y>> \in Less
  BY DEF OpToRel
<1> HIDE DEF Less
<1>3. \E n \in S : \A m \in S : ~ (<<m, n>> \in Less)
  BY <1>1, WFMin DEF Less
<1>4. PICK n \in S : \A m \in S : ~ (<<m, n>> \in Less)
  BY <1>3
<1>5. \A m \in S : n <= m
  <2> SUFFICES ASSUME NEW m \in S PROVE n <= m
    OBVIOUS
  <2>1. n \in Nat /\ m \in Nat /\ ~ (m < n)
    BY <1>2, <1>4
  <2> QED BY <2>1
<1> QED BY <1>5

LEMMA MinIsLeast ==
  ASSUME NEW S \in SUBSET Nat, S # {}
  PROVE  Min(S) \in S /\ \A m \in S : Min(S) <= m
BY Least DEF Min

LEMMA MaxIsGreatest ==
  ASSUME NEW h \in Nat, NEW S \in SUBSET (0..h), S # {}
  PROVE  Max(S) \in S /\ \A m \in S : m <= Max(S)
<1> DEFINE T == {h - m : m \in S}
<1>1. T \in SUBSET Nat /\ T # {}
  <2>1. \A m \in S : m \in Nat /\ h - m \in Nat
    OBVIOUS
  <2>2. T \in SUBSET Nat
    BY <2>1
  <2> QED BY <2>2
<1>2. PICK d \in T : \A e \in T : d <= e
  BY <1>1, Least
<1>3. PICK n \in S : d = h - n
  BY <1>2
<1>4. \A m \in S : m <= n
  BY <1>2, <1>3
<1> QED BY <1>4 DEF Max

-----------------------------------------------------------------------------
(* The queue of writes and of signals: what is appended comes last, what is *)
(* taken is the first.                                                     *)

LEMMA Appended ==
  ASSUME NEW T, NEW q \in Seq(T), NEW e \in T
  PROVE  /\ Append(q, e) \in Seq(T) /\ Append(q, e) # <<>>
         /\ Len(Append(q, e)) = Len(q) + 1 /\ Len(q) \in Nat
         /\ DOMAIN Append(q, e) = DOMAIN q \cup {Len(q) + 1}
         /\ DOMAIN q = 1..Len(q)
         /\ \A i \in DOMAIN q : Append(q, e)[i] = q[i]
         /\ Append(q, e)[Len(q) + 1] = e
OBVIOUS

LEMMA Taken ==
  ASSUME NEW T, NEW q \in Seq(T), q # <<>>
  PROVE  /\ Head(q) \in T /\ Head(q) = q[1] /\ 1 \in DOMAIN q
         /\ Tail(q) \in Seq(T) /\ Len(Tail(q)) = Len(q) - 1 /\ Len(q) \in Nat
         /\ DOMAIN q = 1..Len(q) /\ DOMAIN Tail(q) = 1..(Len(q) - 1)
         /\ \A i \in DOMAIN Tail(q) : Tail(q)[i] = q[i + 1] /\ i + 1 \in DOMAIN q
         /\ \A j \in DOMAIN q : j = 1 \/ (j - 1 \in DOMAIN Tail(q) /\ Tail(q)[j - 1] = q[j])
OBVIOUS

LEMMA RowsNone == ASSUME CronAssumption PROVE None \notin Rows
BY DEF CronAssumption

LEMMA RowFields ==
  ASSUME CronAssumption, NEW row \in Rows
  PROVE  /\ row.next \in Nat /\ row.last \in Times \cup {None} /\ row.paused \in BOOLEAN
         /\ None \notin Nat /\ row # None
BY RowsNone DEF Rows, CronAssumption

(* The rows the code makes are rows of the schedule. *)
LEMMA RowMade ==
  ASSUME CronAssumption, NEW row \in Rows, NEW t \in Times
  PROVE  /\ [row EXCEPT !.next = NextSlot(t)] \in Rows
         /\ \A l \in Times : [row EXCEPT !.next = NextSlot(t), !.last = l] \in Rows
         /\ \A l \in Times : [[row EXCEPT !.next = NextSlot(t)] EXCEPT !.last = l] \in Rows
         /\ \A p \in BOOLEAN : [row EXCEPT !.paused = p] \in Rows
BY NextSlotLater DEF Rows

LEMMA FreshMade == ASSUME CronAssumption, now \in Times PROVE Fresh \in Rows
BY NextSlotLater DEF Fresh, Rows

(* What a Send leaves in the queue. *)
LEMMA Sent ==
  ASSUME wire \in Seq(Writes), NEW row \in Rows \cup {None},
         NEW after \in {"done", "tell", "register", "pause"}, NEW slots \in SUBSET Slots,
         Send(row, after, slots)
  PROVE  /\ wire' \in Seq(Writes) /\ wire' # <<>>
         /\ Len(wire') = Len(wire) + 1 /\ Len(wire) \in Nat
         /\ DOMAIN wire' = DOMAIN wire \cup {Len(wire) + 1} /\ DOMAIN wire = 1..Len(wire)
         /\ \A i \in DOMAIN wire : wire'[i] = wire[i]
         /\ wire'[Len(wire) + 1].row = row /\ wire'[Len(wire) + 1].after = after
         /\ wire'[Len(wire) + 1].slots = slots
<1> DEFINE e == [row |-> row, after |-> after, slots |-> slots]
<1>1. e \in Writes
  BY DEF Writes
<1>2. wire' = Append(wire, e)
  BY DEF Send
<1> HIDE DEF e
<1>3. wire' \in Seq(Writes) /\ wire' # <<>>
      /\ Len(wire') = Len(wire) + 1 /\ Len(wire) \in Nat
      /\ DOMAIN wire' = DOMAIN wire \cup {Len(wire) + 1} /\ DOMAIN wire = 1..Len(wire)
      /\ (\A i \in DOMAIN wire : wire'[i] = wire[i]) /\ wire'[Len(wire) + 1] = e
  BY <1>1, <1>2, Appended
<1> QED BY <1>3 DEF e

(* The missed slots are slots of the past. *)
LEMMA MissedPast ==
  ASSUME CronAssumption, TypeOK, NEW row \in Rows
  PROVE  /\ Missed(row) \subseteq Slots /\ TooOld(row) \subseteq Slots
         /\ Missed(row) \subseteq 0..now /\ now \in Nat
         /\ Missed(row) # {} =>
              /\ Min(Missed(row)) \in Missed(row) /\ Max(Missed(row)) \in Missed(row)
              /\ \A s \in Missed(row) : s <= Max(Missed(row))
<1>1. Missed(row) \subseteq Slots /\ TooOld(row) \subseteq Slots
  BY DEF Missed, TooOld
<1>2. Missed(row) \subseteq 0..now /\ now \in Nat
  BY <1>1, SlotsNat DEF Missed, TypeOK, Times
<1>3. Missed(row) \in SUBSET Nat
  BY <1>2
<1>4. ASSUME Missed(row) # {} PROVE Min(Missed(row)) \in Missed(row)
  BY <1>3, <1>4, MinIsLeast
<1>5. ASSUME Missed(row) # {}
      PROVE  /\ Max(Missed(row)) \in Missed(row)
             /\ \A s \in Missed(row) : s <= Max(Missed(row))
  BY <1>2, <1>5, MaxIsGreatest
<1> QED BY <1>1, <1>2, <1>4, <1>5

-----------------------------------------------------------------------------
(* Types.                                                                  *)

(* While a registration is being written there is no timer yet and nothing
   else under way; what a handler goes on with after its write is there. *)
RegisterAlone ==
  \A i \in DOMAIN wire : wire[i].after = "register" => Len(wire) = 1 /\ timer = None
RowsSent  == \A i \in DOMAIN wire : wire[i].after \in {"register", "pause"} => wire[i].row # None
SlotsTold == \A i \in DOMAIN wire : wire[i].after # "tell" => wire[i].slots = {}

(* Slots are left to catch up with only in start(), whose timer has moved past
   them already. *)
CatchUpOnly ==
  todo # {} => /\ daemon = "replaying" /\ policy = "catchup"
               /\ timer # None /\ timer.next = NextSlot(asOf) /\ timer.last = asOf

Shape == RegisterAlone /\ RowsSent /\ SlotsTold /\ CatchUpOnly

StartRow == IF store = None THEN timer ELSE store

(* The overdue case of start(). *)
Overdue == StartRow # None /\ ~StartRow.paused /\ StartRow.next <= now

(* What applyMissedPolicy may do to the row of a timer. *)
PastOf(row)  == [row EXCEPT !.next = NextSlot(now)]
FiredOf(row) == [PastOf(row) EXCEPT !.last = now]

LEMMA StartKinds ==
  ASSUME Start
  PROVE  /\ daemon = "booting" /\ daemon' = "replaying" /\ wire = <<>> /\ asOf' = now
         /\ UNCHANGED <<now, policy, store, told, birth, wanted, bounds, ready>>
         /\ IF Overdue THEN ApplyMissedPolicy(StartRow)
            ELSE timer' = StartRow /\ UNCHANGED <<wire, todo, excused, lasts>>
BY DEF Start, StartRow, Overdue, ApplyMissedPolicy, Fire

(* The timer it makes and the slots it sends off and leaves, by policy. *)
LEMMA ApplyKinds ==
  ASSUME CronAssumption, TypeOK, NEW row \in Rows, ApplyMissedPolicy(row)
  PROVE  \E slots \in SUBSET Missed(row), rest \in SUBSET Missed(row) :
           /\ \/ slots = {} /\ rest = {} /\ Send(timer', "done", {})
                 /\ timer' = PastOf(row) /\ UNCHANGED <<todo, lasts>>
                 /\ Missed(row) \subseteq excused'
              \/ /\ slots # {} /\ slots \cup rest = Missed(row) /\ slots \cap rest = {}
                 /\ Send(timer', "tell", slots)
                 /\ lasts' = lasts \cup ({timer'.last} \cap Slots)
                 /\ \/ timer' = FiredOf(row)
                    \/ timer' = [PastOf(row) EXCEPT !.last = Max(Missed(row))]
                 /\ \/ rest = {} /\ UNCHANGED todo
                    \/ policy = "catchup" /\ todo' = rest /\ timer' = FiredOf(row)
           /\ excused \cup TooOld(row) \subseteq excused'
           /\ excused' \subseteq excused \cup TooOld(row) \cup Missed(row)
           /\ timer' \in Rows /\ UNCHANGED ready
<1> DEFINE missed == Missed(row)
<1>0. now \in Times /\ missed \subseteq Slots /\ Slots \subseteq Times
      /\ (missed # {} => Max(missed) \in missed /\ Min(missed) \in missed)
  BY MissedPast, SlotsNat DEF TypeOK
<1>1. PastOf(row) \in Rows /\ FiredOf(row) \in Rows
  BY <1>0, RowMade DEF PastOf, FiredOf
<1>2. CASE /\ policy = "skip" \/ missed = {}
           /\ timer' = PastOf(row) /\ Send(PastOf(row), "done", {})
           /\ excused' = excused \cup TooOld(row) \cup missed
           /\ UNCHANGED <<ready, todo, lasts>>
  <2> WITNESS {} \in SUBSET Missed(row), {} \in SUBSET Missed(row)
  <2> QED BY <1>1, <1>2
<1>3. CASE /\ policy = "coalesce" /\ missed # {}
           /\ Fire(FiredOf(row), missed)
           /\ excused' = excused \cup TooOld(row) /\ UNCHANGED todo
  <2> WITNESS missed \in SUBSET Missed(row), {} \in SUBSET Missed(row)
  <2> QED BY <1>1, <1>3 DEF Fire
<1>4. CASE /\ policy = "catchup" /\ missed # {}
           /\ Fire(FiredOf(row), {Min(missed)})
           /\ todo' = missed \ {Min(missed)}
           /\ excused' = excused \cup TooOld(row)
  <2>1. {Min(missed)} \subseteq missed
    BY <1>0, <1>4
  <2> WITNESS {Min(missed)} \in SUBSET Missed(row), missed \ {Min(missed)} \in SUBSET Missed(row)
  <2>2. {Min(missed)} \cup (missed \ {Min(missed)}) = missed
    BY <2>1
  <2> QED BY <1>1, <1>4, <2>2 DEF Fire
<1>5. CASE /\ policy = "manual" /\ missed # {}
           /\ Fire([PastOf(row) EXCEPT !.last = Max(missed)], missed)
           /\ excused' = excused \cup TooOld(row) /\ UNCHANGED todo
  <2>1. [PastOf(row) EXCEPT !.last = Max(missed)] \in Rows
    BY <1>0, <1>5, RowMade DEF PastOf
  <2> WITNESS missed \in SUBSET Missed(row), {} \in SUBSET Missed(row)
  <2> QED BY <1>5, <2>1 DEF Fire
<1> QED BY <1>2, <1>3, <1>4, <1>5 DEF ApplyMissedPolicy, PastOf, FiredOf

(* A registration under way or due: the row it writes. *)
LEMMA RegisterKinds ==
  ASSUME CronAssumption, TypeOK, RegisterKnown \/ RegisterFresh
  PROVE  \E row \in Rows :
           /\ Send(row, "register", {}) /\ wire = <<>> /\ timer = None
           /\ daemon \in {"booting", "up"}
           /\ UNCHANGED <<now, policy, daemon, timer, store, ready, todo, asOf, told, excused,
                          lasts, wanted, bounds>>
           /\ \/ row = store /\ UNCHANGED birth
              \/ /\ birth' = now /\ row.next = NextSlot(now)
                 /\ row.last = None \/ (store # None /\ row.last = store.last)
<1>0. now \in Times /\ store \in Rows \cup {None}
  BY DEF TypeOK
<1>1. CASE RegisterKnown
  BY <1>0, <1>1 DEF RegisterKnown, Register, Carried
<1>2. CASE RegisterFresh
  <2> DEFINE row == IF store = None THEN Fresh ELSE [store EXCEPT !.next = NextSlot(now)]
  <2>1. row \in Rows
    BY <1>0, RowMade, FreshMade
  <2>2. row.next = NextSlot(now) /\ (row.last = None \/ (store # None /\ row.last = store.last))
    BY <1>0 DEF Fresh, Rows
  <2>3. Register(row) /\ birth' = now
    BY <1>2 DEF RegisterFresh
  <2> HIDE DEF row
  <2> QED BY <2>1, <2>2, <2>3 DEF Register
<1> QED BY <1>1, <1>2

LEMMA TypeStart ==
  ASSUME CronAssumption, TypeOK, Start
  PROVE  TypeOK'
<1>0. StartRow \in Rows \cup {None} /\ wire \in Seq(Writes) /\ now \in Times
  BY DEF TypeOK, StartRow, Writes
<1>1. CASE ~Overdue
  BY <1>0, <1>1, StartKinds DEF TypeOK, bounds
<1>2. CASE Overdue
  <2>1. StartRow \in Rows
    BY <1>0, <1>2 DEF Overdue
  <2>2. PICK slots \in SUBSET Missed(StartRow), rest \in SUBSET Missed(StartRow) :
             /\ timer' \in Rows
             /\ Send(timer', "done", slots) \/ Send(timer', "tell", slots)
             /\ todo' \in {todo, rest}
             /\ lasts' = lasts \/ lasts' = lasts \cup ({timer'.last} \cap Slots)
             /\ excused' \subseteq excused \cup TooOld(StartRow) \cup Missed(StartRow)
    BY <1>2, <2>1, StartKinds, ApplyKinds
  <2>3. Missed(StartRow) \subseteq Slots /\ TooOld(StartRow) \subseteq Slots
    BY <2>1, MissedPast
  <2>4. wire' \in Seq(Writes)
    BY <1>0, <2>2, <2>3, Sent
  <2>5. todo' \subseteq Slots /\ lasts' \subseteq Slots /\ excused' \subseteq Slots
    BY <2>2, <2>3 DEF TypeOK
  <2> QED BY <1>0, <2>2, <2>4, <2>5, StartKinds DEF TypeOK, Writes, bounds
<1> QED BY <1>1, <1>2

LEMMA TypeStep ==
  ASSUME CronAssumption, TypeOK, Shape, [Next]_vars
  PROVE  TypeOK'
<1> USE DEF ghosts, bounds, disk
<1>0. /\ wire \in Seq(Writes) /\ ready \in Seq(SUBSET Slots) /\ now \in Times
      /\ MaxFaults \in Nat /\ MaxStops \in Nat /\ MaxEdits \in Nat
      /\ {} \in SUBSET Slots /\ None \in Rows \cup {None}
  BY DEF TypeOK, Writes, CronAssumption
<1>1. CASE Written
  <2>1. /\ Head(wire) \in Writes /\ wire' \in Seq(Writes)
        /\ Head(wire).after = "pause" => Head(wire).row # None
    BY <1>0, <1>1, Taken DEF Written, Shape, RowsSent
  <2>2. ready' \in Seq(SUBSET Slots)
    BY <1>0, <1>1, <2>1, Appended DEF Written, Writes
  <2>3. wanted' \in BOOLEAN \cup {None}
    BY <1>1, <2>1 DEF Written, Writes, Rows, TypeOK
  <2>4. timer' \in Rows \cup {None} /\ store' \in Rows \cup {None}
    BY <1>1, <2>1 DEF Written, Writes, TypeOK
  <2> QED BY <1>1, <2>1, <2>2, <2>3, <2>4 DEF Written, Writes, TypeOK
<1>2. CASE WriteFails
  <2>1. Head(wire) \in Writes /\ wire' \in Seq(Writes)
    BY <1>0, <1>2, Taken DEF WriteFails
  <2>2. store' \in Rows \cup {None} /\ excused' \subseteq Slots /\ wanted' \in BOOLEAN \cup {None}
    BY <1>2, <2>1 DEF WriteFails, Writes, TypeOK
  <2>3. faults' \in 0..MaxFaults
    BY <1>0, <1>2 DEF WriteFails, TypeOK
  <2> QED BY <1>2, <2>1, <2>2, <2>3 DEF WriteFails, Writes, TypeOK
<1>3. CASE Tell
  <2>1. ready' \in Seq(SUBSET Slots)
    BY <1>0, <1>3, Taken DEF Tell
  <2>2. told' \in [Slots -> Nat]
    BY <1>3 DEF Tell, TypeOK
  <2> QED BY <1>3, <2>1, <2>2 DEF Tell, TypeOK
<1>4. CASE TellFails
  <2>1. ready' \in Seq(SUBSET Slots) /\ Head(ready) \in SUBSET Slots
    BY <1>0, <1>4, Taken DEF TellFails
  <2>2. excused' \subseteq Slots /\ faults' \in 0..MaxFaults
    BY <1>0, <1>4, <2>1 DEF TellFails, TypeOK
  <2> QED BY <1>4, <2>1, <2>2 DEF TellFails, TypeOK
<1>5. CASE RegisterKnown \/ RegisterFresh
  <2>1. wire' \in Seq(Writes) /\ birth' \in Times
    BY <1>0, <1>5, RegisterKinds, Sent DEF TypeOK
  <2> QED BY <1>5, <2>1, RegisterKinds DEF TypeOK, Writes
<1>6. CASE Start
  BY <1>6, TypeStart
<1>7. CASE CatchUp
  <2> DEFINE row == [timer EXCEPT !.next = NextSlot(asOf), !.last = asOf]
  <2>1. row \in Rows
    BY <1>7, RowMade DEF CatchUp, TypeOK, Shape, CatchUpOnly
  <2>2. {Min(todo)} \in SUBSET Slots /\ todo \subseteq Slots
    BY <1>7, SlotsNat, MinIsLeast DEF CatchUp, TypeOK
  <2>3. Send(row, "tell", {Min(todo)}) /\ timer' = row /\ UNCHANGED ready
        /\ lasts' = lasts \cup ({row.last} \cap Slots)
    BY <1>7 DEF CatchUp, Fire
  <2> HIDE DEF row
  <2>4. wire' \in Seq(Writes)
    BY <1>0, <2>1, <2>2, <2>3, Sent
  <2> QED BY <1>7, <2>1, <2>2, <2>3, <2>4 DEF CatchUp, TypeOK, Writes
<1>8. CASE Check
  <2> DEFINE row == [timer EXCEPT !.next = NextSlot(now), !.last = now]
             due == {timer.next}
  <2>1. row \in Rows
    BY <1>0, <1>8, RowMade DEF Check, TypeOK
  <2>2. Send(row, "tell", due) /\ timer' = row /\ UNCHANGED ready
        /\ lasts' = lasts \cup ({row.last} \cap Slots)
    BY <1>8 DEF Check, Fire
  <2>3. due \in SUBSET Slots
    BY <1>0, <1>8, DueIsSlot DEF Check, TypeOK
  <2> HIDE DEF row, due
  <2>4. wire' \in Seq(Writes)
    BY <1>0, <2>1, <2>2, <2>3, Sent
  <2> QED BY <1>8, <2>1, <2>2, <2>4 DEF Check, PassedOver, TypeOK, Writes
<1>9. ASSUME NEW p \in BOOLEAN, SetTimerPaused(p) PROVE TypeOK'
  <2> DEFINE row == [timer EXCEPT !.paused = p]
  <2>1. row \in Rows
    BY <1>0, <1>9, RowMade DEF SetTimerPaused, TypeOK
  <2>2. Send(row, "pause", {}) /\ timer' = row
    BY <1>9 DEF SetTimerPaused
  <2> HIDE DEF row
  <2>3. wire' \in Seq(Writes)
    BY <1>0, <2>1, <2>2, Sent
  <2> QED BY <1>9, <2>1, <2>2, <2>3 DEF SetTimerPaused, TypeOK, Writes
<1>10. CASE EditWorkspace \/ CloseWorkspaces
  <2>1. wire' \in Seq(Writes)
    BY <1>0, <1>10, Sent DEF EditWorkspace, CloseWorkspaces, Unregister
  <2>2. edits' \in 0..MaxEdits
    BY <1>0, <1>10 DEF EditWorkspace, CloseWorkspaces, TypeOK
  <2> QED BY <1>10, <2>1, <2>2 DEF EditWorkspace, CloseWorkspaces, Unregister, TypeOK, Writes
<1>11. CASE Shutdown
  <2>1. wire' \in Seq(Writes)
    BY <1>0, <1>11, Sent DEF Shutdown, TypeOK
  <2>2. stops' \in 0..MaxStops
    BY <1>0, <1>11 DEF Shutdown, TypeOK
  <2> QED BY <1>11, <2>1, <2>2 DEF Shutdown, TypeOK, Writes
<1>12. CASE Exit \/ Crash
  <2>1. Held \subseteq Slots
    <3>1. \A i \in DOMAIN ready : ready[i] \subseteq Slots
      BY <1>0
    <3>2. \A i \in DOMAIN wire : wire[i] \in Writes
      BY <1>0
    <3>3. \A i \in DOMAIN wire : wire[i].slots \subseteq Slots
      BY <3>2 DEF Writes
    <3>4. InReady \subseteq Slots /\ InWire \subseteq Slots
      BY <3>1, <3>3 DEF InReady, InWire
    <3> QED BY <3>4 DEF Held, TypeOK
  <2>2. faults' \in 0..MaxFaults
    BY <1>0, <1>12 DEF Exit, Crash, TypeOK
  <2>3. wire' \in Seq(Writes) /\ ready' \in Seq(SUBSET Slots)
    <3>1. wire' = <<>> /\ ready' = <<>>
      BY <1>12 DEF Exit, Crash, Ends
    <3>2. <<>> \in Seq(Writes) /\ <<>> \in Seq(SUBSET Slots)
      OBVIOUS
    <3> QED BY <3>1, <3>2
  <2> QED BY <1>12, <2>1, <2>2, <2>3 DEF Exit, Crash, Ends, TypeOK, Writes
<1>13. CASE Boot \/ Started \/ UNCHANGED vars
  BY <1>13 DEF Boot, Started, TypeOK, vars
<1>14. CASE Tick
  <2>1. now' \in Times
    BY <1>14 DEF Tick, TypeOK, Times, CronAssumption
  <2> QED BY <1>14, <2>1 DEF Tick, TypeOK
<1> QED BY <1>1, <1>2, <1>3, <1>4, <1>5, <1>6, <1>7, <1>8, <1>9, <1>10, <1>11, <1>12,
           <1>13, <1>14 DEF Next

-----------------------------------------------------------------------------
(* Shape.                                                                  *)

LEMMA ShapeSend ==
  ASSUME CronAssumption, TypeOK, Shape, NEW row \in Rows \cup {None},
         NEW after \in {"done", "tell", "pause"}, NEW slots \in SUBSET Slots,
         Send(row, after, slots), after = "pause" => row # None, after # "tell" => slots = {},
         timer # None \/ wire = <<>>
  PROVE  RegisterAlone' /\ RowsSent' /\ SlotsTold'
<1>0. after \in {"done", "tell", "register", "pause"} /\ wire \in Seq(Writes)
  BY DEF TypeOK, Writes
<1>a. DOMAIN wire' = DOMAIN wire \cup {Len(wire) + 1}
  BY <1>0, Sent
<1>b. \A i \in DOMAIN wire : wire'[i] = wire[i]
  BY <1>0, Sent
<1>c. /\ wire'[Len(wire) + 1].row = row /\ wire'[Len(wire) + 1].after = after
      /\ wire'[Len(wire) + 1].slots = slots
  BY <1>0, Sent
<1>2. \A i \in DOMAIN wire : wire[i].after # "register"
  BY DEF Shape, RegisterAlone
<1> QED BY <1>a, <1>b, <1>c, <1>2 DEF Shape, RegisterAlone, RowsSent, SlotsTold

LEMMA ShapeTake ==
  ASSUME TypeOK, Shape, wire # <<>>, wire' = Tail(wire),
         timer' = timer \/ (Head(wire).after = "register" /\ timer' = Head(wire).row)
  PROVE  RegisterAlone' /\ RowsSent' /\ SlotsTold'
<1>1. /\ DOMAIN wire' = 1..(Len(wire) - 1) /\ Len(wire) \in Nat /\ Head(wire) = wire[1]
      /\ 1 \in DOMAIN wire
      /\ \A i \in DOMAIN wire' : wire'[i] = wire[i + 1] /\ i + 1 \in DOMAIN wire
  BY Taken DEF TypeOK
<1>2. \A i \in DOMAIN wire' : wire'[i].after # "register"
  BY <1>1 DEF Shape, RegisterAlone
<1> QED BY <1>1, <1>2 DEF Shape, RegisterAlone, RowsSent, SlotsTold

LEMMA ShapeStep ==
  ASSUME CronAssumption, TypeOK, Shape, [Next]_vars
  PROVE  Shape'
<1> USE DEF ghosts, bounds, disk
<1>0. /\ {} \in SUBSET Slots /\ None \in Rows \cup {None} /\ now \in Times
      /\ timer \in Rows \cup {None} /\ None \notin Rows
  BY RowsNone DEF TypeOK
<1>1. CASE Written
  <2>1. RegisterAlone' /\ RowsSent' /\ SlotsTold'
    BY <1>1, ShapeTake DEF Written
  <2>2. CatchUpOnly'
    <3>1. Head(wire).after = "register" => timer = None
      BY <1>1, Taken DEF Written, TypeOK, Shape, RegisterAlone
    <3> QED BY <1>1, <3>1 DEF Written, Shape, CatchUpOnly
  <2> QED BY <2>1, <2>2 DEF Shape
<1>2. CASE WriteFails
  <2>1. RegisterAlone' /\ RowsSent' /\ SlotsTold'
    BY <1>2, ShapeTake DEF WriteFails
  <2> QED BY <1>2, <2>1 DEF WriteFails, Shape, CatchUpOnly
<1>3. CASE Tell \/ TellFails \/ Boot \/ Started \/ Tick \/ UNCHANGED vars
  BY <1>3 DEF Tell, TellFails, Boot, Started, Tick, vars, Shape, RegisterAlone, RowsSent,
              SlotsTold, CatchUpOnly
<1>4. CASE RegisterKnown \/ RegisterFresh
  <2>1. PICK row \in Rows :
             /\ Send(row, "register", {}) /\ wire = <<>> /\ timer = None
             /\ UNCHANGED <<policy, daemon, timer, todo, asOf>>
    BY <1>4, RegisterKinds
  <2>2. wire' = <<[row |-> row, after |-> "register", slots |-> {}]>>
    BY <2>1 DEF Send
  <2>3. row # None
    BY <1>0
  <2> QED BY <2>1, <2>2, <2>3 DEF Shape, RegisterAlone, RowsSent, SlotsTold, CatchUpOnly
<1>5. CASE Start
  <2>0. todo = {} /\ wire = <<>> /\ daemon' = "replaying" /\ asOf' = now /\ UNCHANGED policy
    BY <1>5, StartKinds DEF Shape, CatchUpOnly
  <2>1. CASE ~Overdue
    BY <1>5, <2>0, <2>1, StartKinds DEF Shape, RegisterAlone, RowsSent, SlotsTold, CatchUpOnly
  <2>2. CASE Overdue
    <3>1. StartRow \in Rows
      BY <2>2 DEF Overdue, StartRow, TypeOK
    <3>2. Missed(StartRow) \subseteq Slots
      BY <3>1, MissedPast
    <3>3. PICK slots \in SUBSET Slots, rest \in SUBSET Slots :
               /\ timer' \in Rows
               /\ \/ Send(timer', "done", {})
                  \/ Send(timer', "tell", slots)
               /\ \/ todo' = todo
                  \/ policy = "catchup" /\ todo' = rest /\ timer' = FiredOf(StartRow)
      BY <1>5, <2>2, <3>1, <3>2, StartKinds, ApplyKinds
    <3>4. RegisterAlone' /\ RowsSent' /\ SlotsTold'
      BY <1>0, <2>0, <3>3, ShapeSend
    <3>5. FiredOf(StartRow).next = NextSlot(now) /\ FiredOf(StartRow).last = now
      BY <3>1 DEF FiredOf, PastOf, Rows
    <3>6. CatchUpOnly'
      BY <1>0, <2>0, <3>3, <3>5, RowsNone DEF CatchUpOnly, NextSlot
    <3> QED BY <3>4, <3>6 DEF Shape
  <2> QED BY <2>1, <2>2
<1>6. CASE CatchUp
  <2> DEFINE row == [timer EXCEPT !.next = NextSlot(asOf), !.last = asOf]
  <2>1. row \in Rows /\ row.next = timer.next /\ row.last = timer.last
        /\ timer.next = NextSlot(asOf) /\ timer.last = asOf
    BY <1>6, RowMade DEF CatchUp, TypeOK, Shape, CatchUpOnly, Rows
  <2>2. {Min(todo)} \in SUBSET Slots
    BY <1>6, SlotsNat, MinIsLeast DEF CatchUp, TypeOK
  <2>3. Send(row, "tell", {Min(todo)}) /\ timer' = row /\ wire = <<>>
        /\ UNCHANGED <<policy, daemon, asOf>> /\ todo # {}
    BY <1>6 DEF CatchUp, Fire
  <2> HIDE DEF row
  <2>4. RegisterAlone' /\ RowsSent' /\ SlotsTold'
    BY <2>1, <2>2, <2>3, ShapeSend
  <2> QED BY <1>0, <2>1, <2>3, <2>4 DEF Shape, CatchUpOnly, NextSlot
<1>7. CASE Check
  <2> DEFINE row == [timer EXCEPT !.next = NextSlot(now), !.last = now]
             due == {timer.next}
  <2>1. row \in Rows
    BY <1>0, <1>7, RowMade DEF Check, TypeOK
  <2>2. Send(row, "tell", due) /\ timer' = row /\ timer # None
        /\ UNCHANGED todo /\ todo = {}
    BY <1>7 DEF Check, Fire, Shape, CatchUpOnly
  <2>3. due \in SUBSET Slots
    BY <1>0, <1>7, DueIsSlot DEF Check, TypeOK
  <2> HIDE DEF row, due
  <2>4. RegisterAlone' /\ RowsSent' /\ SlotsTold'
    BY <2>1, <2>2, <2>3, ShapeSend
  <2> QED BY <2>2, <2>4 DEF Shape, CatchUpOnly
<1>8. ASSUME NEW p \in BOOLEAN, SetTimerPaused(p) PROVE Shape'
  <2> DEFINE row == [timer EXCEPT !.paused = p]
  <2>1. row \in Rows
    BY <1>0, <1>8, RowMade DEF SetTimerPaused
  <2>2. Send(row, "pause", {}) /\ timer' = row /\ timer # None
        /\ UNCHANGED todo /\ todo = {}
    BY <1>8 DEF SetTimerPaused, Shape, CatchUpOnly
  <2> HIDE DEF row
  <2>3. RegisterAlone' /\ RowsSent' /\ SlotsTold'
    BY <1>0, <2>1, <2>2, ShapeSend
  <2> QED BY <2>2, <2>3 DEF Shape, CatchUpOnly
<1>9. CASE EditWorkspace \/ CloseWorkspaces
  <2>1. Unregister /\ todo = {} /\ todo' = {}
    BY <1>9 DEF EditWorkspace, CloseWorkspaces, Unregister, Shape, CatchUpOnly
  <2>2. CASE timer = None
    BY <2>1, <2>2 DEF Unregister, Shape, RegisterAlone, RowsSent, SlotsTold, CatchUpOnly
  <2>3. CASE timer # None
    <3>1. RegisterAlone' /\ RowsSent' /\ SlotsTold'
      BY <1>0, <2>1, <2>3, ShapeSend DEF Unregister
    <3> QED BY <2>1, <3>1 DEF Shape, CatchUpOnly
  <2> QED BY <2>2, <2>3
<1>10. CASE Shutdown
  <2>1. todo = {} /\ todo' = {} /\ UNCHANGED timer
    BY <1>10 DEF Shutdown, Shape, CatchUpOnly
  <2>2. CASE timer = None
    BY <1>10, <2>1, <2>2 DEF Shutdown, Shape, RegisterAlone, RowsSent, SlotsTold, CatchUpOnly
  <2>3. CASE timer # None
    <3>1. RegisterAlone' /\ RowsSent' /\ SlotsTold'
      BY <1>0, <1>10, <2>3, ShapeSend DEF Shutdown
    <3> QED BY <2>1, <3>1 DEF Shape, CatchUpOnly
  <2> QED BY <2>2, <2>3
<1>11. CASE Exit \/ Crash
  BY <1>11 DEF Exit, Crash, Ends, Shape, RegisterAlone, RowsSent, SlotsTold, CatchUpOnly
<1> QED BY <1>1, <1>2, <1>3, <1>4, <1>5, <1>6, <1>7, <1>8, <1>9, <1>10, <1>11 DEF Next

LEMMA TypeInit == ASSUME CronAssumption, Init PROVE TypeOK /\ Shape
<1>1. 0 \in Times /\ 0 \in 0..MaxFaults /\ 0 \in 0..MaxStops /\ 0 \in 0..MaxEdits
  BY DEF CronAssumption, Times
<1>2. <<>> \in Seq(Writes) /\ <<>> \in Seq(SUBSET Slots)
  OBVIOUS
<1>3. TypeOK
  BY <1>1, <1>2 DEF Init, TypeOK, Writes
<1> QED BY <1>3 DEF Init, Shape, RegisterAlone, RowsSent, SlotsTold, CatchUpOnly

(* Every variable keeps to its domain, and a timer's next execution is always
   a slot of its schedule. *)
THEOREM CronTypeOK == ASSUME CronAssumption PROVE Spec => []TypeOK
<1>1. Init => TypeOK /\ Shape
  BY TypeInit
<1>2. TypeOK /\ Shape /\ [Next]_vars => TypeOK' /\ Shape'
  BY TypeStep, ShapeStep
<1> QED BY <1>1, <1>2, PTL DEF Spec

-----------------------------------------------------------------------------
(* The steps of Next by what they do to the timer and its row.             *)

(* pause, resume and the last write of shutdown: the schedule stays. *)
Copies ==
  /\ timer # None /\ timer' \in Rows
  /\ timer'.next = timer.next /\ timer'.last = timer.last
  /\ Send(timer', "done", {}) \/ Send(timer', "pause", {})
  /\ daemon # "replaying" /\ daemon' # "replaying"
  /\ UNCHANGED <<now, store, ready, todo, asOf, told, excused, lasts, birth, faults>>

(* unregisterTimer of a registered timer. *)
Removes ==
  /\ timer # None /\ timer' = None /\ Send(None, "done", {})
  /\ daemon # "replaying" /\ daemon' # "replaying"
  /\ UNCHANGED <<now, store, ready, todo, asOf, told, excused, lasts, birth, faults>>

(* The check interval and catchup: a fire as of the instant `at`. *)
Fires(at, slots) ==
  /\ timer # None /\ timer' \in Rows
  /\ timer'.next = NextSlot(at) /\ timer'.last = at
  /\ Send(timer', "tell", slots)
  /\ lasts' = lasts \cup ({at} \cap Slots)
  /\ UNCHANGED <<now, policy, daemon, store, ready, asOf, told, birth, faults>>

CatchesUp(slots) ==
  /\ Fires(asOf, slots) /\ daemon = "replaying" /\ wire = <<>> /\ ready = <<>>
  /\ UNCHANGED excused
  /\ policy = "catchup" /\ timer.next = NextSlot(asOf) /\ timer.last = asOf
  /\ slots # {} /\ slots \subseteq todo /\ todo' = todo \ slots

Checks(slots) ==
  /\ Fires(now, slots) /\ daemon = "up" /\ timer.next <= now
  /\ slots = {timer.next} /\ excused' = excused \cup PassedOver /\ UNCHANGED todo

(* Time passes or the daemon goes on, nothing under way. *)
Still ==
  /\ now' \in {now, now + 1}
  /\ UNCHANGED <<policy, timer, store, wire, ready, todo, asOf, told, excused, lasts, birth,
                 faults>>
  /\ \/ UNCHANGED daemon
     \/ wire = <<>>
     \/ daemon # "replaying" /\ daemon' # "replaying"

LEMMA StepKinds ==
  ASSUME CronAssumption, TypeOK, Shape, [Next]_vars
  PROVE  \/ Written \/ WriteFails \/ Tell \/ TellFails \/ RegisterKnown \/ RegisterFresh
         \/ Start \/ Ends \/ Copies \/ Removes \/ Still
         \/ \E slots \in SUBSET Slots : CatchesUp(slots) \/ Checks(slots)
<1> USE DEF ghosts, bounds, disk
<1>0. now \in Times /\ asOf \in Times /\ timer \in Rows \cup {None}
  BY DEF TypeOK
<1>1. ASSUME CatchUp PROVE \E slots \in SUBSET Slots : CatchesUp(slots)
  <2> DEFINE row == [timer EXCEPT !.next = NextSlot(asOf), !.last = asOf]
  <2>1. /\ row \in Rows /\ row.next = NextSlot(asOf) /\ row.last = asOf /\ timer # None
        /\ timer.next = NextSlot(asOf) /\ timer.last = asOf /\ policy = "catchup"
    BY <1>0, <1>1, RowMade DEF CatchUp, Shape, CatchUpOnly, Rows
  <2>2. {Min(todo)} \subseteq todo /\ {Min(todo)} \in SUBSET Slots
    BY <1>1, SlotsNat, MinIsLeast DEF CatchUp, TypeOK
  <2>3. /\ Send(row, "tell", {Min(todo)}) /\ timer' = row /\ UNCHANGED ready
        /\ lasts' = lasts \cup ({row.last} \cap Slots)
    BY <1>1 DEF CatchUp, Fire
  <2> HIDE DEF row
  <2>4. CatchesUp({Min(todo)})
    BY <1>1, <2>1, <2>2, <2>3 DEF CatchUp, CatchesUp, Fires
  <2> QED BY <2>2, <2>4
<1>2. ASSUME Check PROVE \E slots \in SUBSET Slots : Checks(slots)
  <2> DEFINE row == [timer EXCEPT !.next = NextSlot(now), !.last = now]
             due == {timer.next}
  <2>1. row \in Rows /\ row.next = NextSlot(now) /\ row.last = now /\ timer # None
    BY <1>0, <1>2, RowMade DEF Check, Rows
  <2>2. /\ Send(row, "tell", due) /\ timer' = row /\ UNCHANGED ready
        /\ lasts' = lasts \cup ({row.last} \cap Slots)
    BY <1>2 DEF Check, Fire
  <2>3. Checks(due)
    <3> HIDE DEF row
    <3> QED BY <1>2, <2>1, <2>2 DEF Check, Checks, Fires
  <2>4. due \in SUBSET Slots
    BY <1>0, <1>2, DueIsSlot DEF Check
  <2> QED BY <2>3, <2>4
<1>3. ASSUME NEW p \in BOOLEAN, SetTimerPaused(p) PROVE Copies
  <2> DEFINE row == [timer EXCEPT !.paused = p]
  <2>1. row \in Rows /\ row.next = timer.next /\ row.last = timer.last
    BY <1>0, <1>3, RowMade DEF SetTimerPaused, Rows
  <2>2. Send(row, "pause", {}) /\ timer' = row
    BY <1>3 DEF SetTimerPaused
  <2> HIDE DEF row
  <2> QED BY <1>3, <2>1, <2>2 DEF SetTimerPaused, Copies
<1>4. ASSUME Shutdown PROVE Copies \/ Still
  BY <1>0, <1>4 DEF Shutdown, Copies, Still
<1>5. ASSUME EditWorkspace \/ CloseWorkspaces PROVE Removes \/ Still
  BY <1>5 DEF EditWorkspace, CloseWorkspaces, Unregister, Removes, Still
<1>6. ASSUME Boot \/ Started \/ Tick \/ UNCHANGED vars PROVE Still
  BY <1>6 DEF Boot, Started, Tick, vars, Still
<1> QED BY <1>1, <1>2, <1>3, <1>4, <1>5, <1>6 DEF Next, Exit, Crash

-----------------------------------------------------------------------------
(* No row is ahead of the clock.                                           *)

(* A timer was last executed before its next slot and not in the future. *)
Ordered(row, t) == row = None \/ row.last = None \/ (row.last < row.next /\ row.last <= t)

Past ==
  /\ birth <= now /\ asOf <= now
  /\ Ordered(store, now) /\ Ordered(timer, now)
  /\ \A i \in DOMAIN wire : Ordered(wire[i].row, now)

LEMMA WireRows ==
  ASSUME TypeOK
  PROVE  /\ \A i \in DOMAIN wire : wire[i] \in Writes /\ wire[i].row \in Rows \cup {None}
         /\ wire \in Seq(Writes)
<1>1. wire \in Seq(Writes)
  BY DEF TypeOK, Writes
<1>2. \A i \in DOMAIN wire : wire[i] \in Writes
  BY <1>1
<1> QED BY <1>1, <1>2 DEF Writes

LEMMA PastSend ==
  ASSUME CronAssumption, TypeOK, Past, NEW row \in Rows \cup {None},
         NEW after \in {"done", "tell", "register", "pause"}, NEW slots \in SUBSET Slots,
         Send(row, after, slots), Ordered(row, now), Ordered(timer', now),
         birth' \in {birth, now}, asOf' \in {asOf, now}, UNCHANGED <<now, store>>
  PROVE  Past'
<1>0. wire \in Seq(Writes)
  BY DEF TypeOK, Writes
<1>a. DOMAIN wire' = DOMAIN wire \cup {Len(wire) + 1}
  BY <1>0, Sent
<1>b. \A i \in DOMAIN wire : wire'[i] = wire[i]
  BY <1>0, Sent
<1>c. /\ wire'[Len(wire) + 1].row = row /\ wire'[Len(wire) + 1].after = after
      /\ wire'[Len(wire) + 1].slots = slots
  BY <1>0, Sent
<1>2. \A i \in DOMAIN wire' : Ordered(wire'[i].row, now)
  BY <1>a, <1>b, <1>c DEF Past
<1>3. now \in Nat
  BY SlotsNat DEF TypeOK
<1> QED BY <1>2, <1>3 DEF Past

LEMMA PastTake ==
  ASSUME TypeOK, Past, wire # <<>>, wire' = Tail(wire), UNCHANGED <<now, birth, asOf>>,
         timer' \in {timer, Head(wire).row}, store' \in {store, Head(wire).row}
  PROVE  Past'
<1>1. /\ Head(wire) = wire[1] /\ 1 \in DOMAIN wire
      /\ \A i \in DOMAIN wire' : wire'[i] = wire[i + 1] /\ i + 1 \in DOMAIN wire
  BY Taken DEF TypeOK
<1> QED BY <1>1 DEF Past

LEMMA PastStep ==
  ASSUME CronAssumption, TypeOK, Shape, Past, [Next]_vars
  PROVE  Past'
<1>0. /\ {} \in SUBSET Slots /\ None \in Rows \cup {None} /\ now \in Times /\ now \in Nat
      /\ timer \in Rows \cup {None} /\ None \notin Rows
  BY RowsNone, SlotsNat DEF TypeOK
<1>1. CASE Written
  BY <1>1, PastTake DEF Written
<1>2. CASE WriteFails
  BY <1>2, PastTake DEF WriteFails
<1>3. CASE Tell \/ TellFails
  BY <1>3 DEF Tell, TellFails, Past
<1>4. CASE RegisterKnown \/ RegisterFresh
  <2>1. PICK row \in Rows :
             /\ Send(row, "register", {}) /\ UNCHANGED <<now, timer, store, asOf>>
             /\ \/ row = store /\ UNCHANGED birth
                \/ /\ birth' = now /\ row.next = NextSlot(now)
                   /\ row.last = None \/ (store # None /\ row.last = store.last)
    BY <1>4, RegisterKinds
  <2>2. Ordered(row, now)
    <3>1. CASE row = store
      BY <3>1 DEF Past
    <3>2. CASE row.next = NextSlot(now) /\ store # None /\ row.last = store.last /\ row.last # None
      <4>1. store.last <= now /\ now < NextSlot(now) /\ NextSlot(now) \in Nat
        BY <1>0, <3>2, NextSlotLater DEF Past, Ordered
      <4>2. row.last \in Nat
        BY <3>2, RowFields, SlotsNat
      <4> QED BY <1>0, <3>2, <4>1, <4>2 DEF Ordered
    <3>3. CASE row.last = None
      BY <3>3 DEF Ordered
    <3> QED BY <2>1, <3>1, <3>2, <3>3
  <2>3. row \in Rows \cup {None} /\ "register" \in {"done", "tell", "register", "pause"}
    OBVIOUS
  <2> QED BY <1>0, <2>1, <2>2, <2>3, PastSend DEF Past
<1>5. CASE Start
  <2>0. UNCHANGED <<now, store, birth>> /\ asOf' = now
    BY <1>5, StartKinds
  <2>1. CASE ~Overdue
    BY <1>0, <1>5, <2>0, <2>1, StartKinds DEF Past, StartRow
  <2>2. CASE Overdue
    <3>1. StartRow \in Rows /\ Ordered(StartRow, now) /\ StartRow.next <= now
      BY <2>2 DEF Overdue, StartRow, TypeOK, Past
    <3>2. PICK slots \in SUBSET Missed(StartRow) :
               /\ timer' \in Rows
               /\ Send(timer', "done", {}) \/ Send(timer', "tell", slots)
               /\ \/ timer' = PastOf(StartRow)
                  \/ timer' = FiredOf(StartRow)
                  \/ /\ timer' = [PastOf(StartRow) EXCEPT !.last = Max(Missed(StartRow))]
                     /\ Missed(StartRow) # {}
      BY <1>5, <2>2, <3>1, StartKinds, ApplyKinds
    <3>3. now < NextSlot(now) /\ NextSlot(now) \in Nat
      BY <1>0, NextSlotLater
    <3>4. Missed(StartRow) # {} => Max(Missed(StartRow)) \in 0..now
      BY <3>1, MissedPast
    <3>5. timer'.next = NextSlot(now) /\ timer'.last \in {StartRow.last} \cup (0..now)
      <4>1. CASE timer' = PastOf(StartRow)
        BY <3>1, <4>1 DEF PastOf, Rows
      <4>2. CASE timer' = FiredOf(StartRow)
        BY <1>0, <3>1, <4>2 DEF PastOf, FiredOf, Rows
      <4>3. CASE /\ timer' = [PastOf(StartRow) EXCEPT !.last = Max(Missed(StartRow))]
                 /\ Missed(StartRow) # {}
        <5>1. timer'.next = NextSlot(now) /\ timer'.last = Max(Missed(StartRow))
          BY <3>1, <4>3 DEF PastOf, Rows
        <5> QED BY <3>4, <4>3, <5>1
      <4> QED BY <3>2, <4>1, <4>2, <4>3
    <3>6. Ordered(timer', now)
      <4>1. CASE timer'.last = StartRow.last
        <5>1. StartRow.last = None \/ (StartRow.last \in Nat /\ StartRow.last <= now)
          BY <3>1, RowFields, SlotsNat DEF Ordered
        <5> QED BY <1>0, <3>3, <3>5, <4>1, <5>1 DEF Ordered
      <4>2. CASE timer'.last \in 0..now
        BY <1>0, <3>3, <3>5, <4>2 DEF Ordered
      <4> QED BY <3>5, <4>1, <4>2
    <3>7. slots \in SUBSET Slots
      BY <3>1, MissedPast
    <3> QED BY <1>0, <2>0, <3>2, <3>6, <3>7, PastSend
  <2> QED BY <2>1, <2>2
<1>6. ASSUME NEW slots \in SUBSET Slots, CatchesUp(slots) \/ Checks(slots) PROVE Past'
  <2>1. PICK at \in {asOf, now} : Fires(at, slots)
    BY <1>6 DEF CatchesUp, Checks
  <2>2. at \in Times /\ at \in Nat /\ at <= now
    BY <1>0, <2>1, SlotsNat DEF TypeOK, Past
  <2>3. Ordered(timer', now)
    BY <2>1, <2>2, NextSlotLater DEF Fires, Ordered
  <2> QED BY <2>1, <2>3, PastSend DEF Fires
<1>7. CASE Copies
  <2>1. Ordered(timer', now)
    BY <1>7 DEF Copies, Past, Ordered
  <2> QED BY <1>0, <1>7, <2>1, PastSend DEF Copies
<1>8. CASE Removes
  <2>1. Ordered(None, now) /\ timer' = None
    BY <1>8 DEF Removes, Ordered
  <2> QED BY <1>0, <1>8, <2>1, PastSend DEF Removes
<1>9. CASE Still
  <2>1. ASSUME NEW row \in Rows \cup {None}, Ordered(row, now) PROVE Ordered(row, now')
    <3>1. row = None \/ row.last = None \/ row.last \in Nat
      BY RowFields, SlotsNat
    <3>2. now' \in {now, now + 1}
      BY <1>9 DEF Still
    <3>3. \A l \in Nat : l <= now => l <= now'
      BY <1>0, <3>2
    <3> QED BY <2>1, <3>1, <3>3 DEF Ordered
  <2>2. \A i \in DOMAIN wire : wire[i].row \in Rows \cup {None}
    BY WireRows
  <2>3. birth \in Nat /\ asOf \in Nat /\ birth <= now' /\ asOf <= now'
    BY <1>0, <1>9, SlotsNat DEF TypeOK, Past, Still
  <2>4. Ordered(store, now') /\ Ordered(timer, now')
    BY <2>1 DEF TypeOK, Past
  <2>5. \A i \in DOMAIN wire : Ordered(wire[i].row, now')
    BY <2>1, <2>2 DEF Past
  <2> QED BY <1>9, <2>3, <2>4, <2>5 DEF Still, Past
<1>10. CASE Ends
  BY <1>10 DEF Ends, Past, Ordered
<1> QED BY <1>1, <1>2, <1>3, <1>4, <1>5, <1>6, <1>7, <1>8, <1>9, <1>10, StepKinds

LEMMA CronSound == ASSUME CronAssumption PROVE Spec => [](TypeOK /\ Shape /\ Past)
<1>1. Init => TypeOK /\ Shape /\ Past
  <2>1. Init => Past
    BY DEF Init, Past, Ordered
  <2> QED BY <2>1, TypeInit
<1>2. TypeOK /\ Shape /\ Past /\ [Next]_vars => TypeOK' /\ Shape' /\ Past'
  BY TypeStep, ShapeStep, PastStep
<1> QED BY <1>1, <1>2, PTL DEF Spec

-----------------------------------------------------------------------------
(* The row and the memory.                                                 *)

(* Without a fault the last write under way carries what memory says, unless
   it is a registration, and with nothing under way the row does. *)
Synced ==
  faults = 0 =>
    IF wire = <<>> THEN timer # None => store = timer
    ELSE wire[Len(wire)].row = timer \/ wire[Len(wire)].after = "register"

LEMMA SyncSend ==
  ASSUME TypeOK, NEW row \in Rows \cup {None},
         NEW after \in {"done", "tell", "register", "pause"}, NEW slots \in SUBSET Slots,
         Send(row, after, slots), timer' = row \/ after = "register"
  PROVE  Synced'
<1>1. wire \in Seq(Writes)
  BY WireRows
<1>2. wire' # <<>> /\ Len(wire') = Len(wire) + 1
  BY <1>1, Sent
<1>3. wire'[Len(wire) + 1].row = row /\ wire'[Len(wire) + 1].after = after
  BY <1>1, Sent
<1>4. wire'[Len(wire')].row = timer' \/ wire'[Len(wire')].after = "register"
  BY <1>2, <1>3, Zenon
<1> QED BY <1>2, <1>4, Zenon DEF Synced

LEMMA SyncStep ==
  ASSUME CronAssumption, TypeOK, Shape, Synced, [Next]_vars
  PROVE  Synced'
<1>0. /\ {} \in SUBSET Slots /\ None \in Rows \cup {None} /\ wire \in Seq(Writes)
      /\ faults \in Nat
  BY WireRows DEF TypeOK, CronAssumption
<1>1. CASE Written
  <2>1. /\ Head(wire) = wire[1] /\ Len(wire) \in Nat /\ Len(wire') = Len(wire) - 1
        /\ DOMAIN wire' = 1..(Len(wire) - 1) /\ 1 \in DOMAIN wire
        /\ DOMAIN wire = 1..Len(wire) /\ wire' \in Seq(Writes)
        /\ \A i \in DOMAIN wire' : wire'[i] = wire[i + 1]
    BY <1>0, <1>1, Taken DEF Written
  <2>2. /\ store' = Head(wire).row /\ UNCHANGED faults /\ wire # <<>>
        /\ timer' = IF Head(wire).after = "register" THEN Head(wire).row ELSE timer
    BY <1>1 DEF Written, bounds
  <2>3. CASE Len(wire) = 1
    <3>1. wire' = <<>>
      BY <2>1, <2>3
    <3> QED BY <2>1, <2>2, <2>3, <3>1 DEF Synced
  <2>4. CASE Len(wire) # 1
    <3>1. wire' # <<>> /\ wire'[Len(wire')] = wire[Len(wire)]
      BY <2>1, <2>4
    <3>2. timer' = timer
      BY <2>1, <2>2, <2>4 DEF Shape, RegisterAlone
    <3> QED BY <2>2, <3>1, <3>2 DEF Synced
  <2> QED BY <2>3, <2>4
<1>2. CASE WriteFails \/ TellFails
  BY <1>0, <1>2 DEF WriteFails, TellFails, Synced
<1>3. CASE Tell \/ Still
  BY <1>3 DEF Tell, Still, Synced, bounds
<1>4. CASE RegisterKnown \/ RegisterFresh
  <2>1. PICK row \in Rows : Send(row, "register", {})
    BY <1>4, RegisterKinds
  <2> QED BY <1>0, <2>1, SyncSend
<1>5. CASE Start
  <2>1. CASE ~Overdue
    BY <1>5, <2>1, StartKinds DEF Synced, StartRow, bounds
  <2>2. CASE Overdue
    <3>1. StartRow \in Rows
      BY <2>2 DEF Overdue, StartRow, TypeOK
    <3>2. PICK slots \in SUBSET Missed(StartRow) :
               timer' \in Rows /\ (Send(timer', "done", {}) \/ Send(timer', "tell", slots))
      BY <1>5, <2>2, <3>1, StartKinds, ApplyKinds
    <3>3. slots \in SUBSET Slots
      BY <3>1, MissedPast
    <3> QED BY <1>0, <3>2, <3>3, SyncSend
  <2> QED BY <2>1, <2>2
<1>6. ASSUME NEW slots \in SUBSET Slots, CatchesUp(slots) \/ Checks(slots) PROVE Synced'
  BY <1>6, SyncSend DEF CatchesUp, Checks, Fires
<1>7. CASE Copies
  BY <1>0, <1>7, SyncSend DEF Copies
<1>8. CASE Removes
  BY <1>0, <1>8, SyncSend DEF Removes
<1>9. CASE Ends
  BY <1>9 DEF Ends, Synced
<1> QED BY <1>1, <1>2, <1>3, <1>4, <1>5, <1>6, <1>7, <1>8, <1>9, StepKinds

(* At rest, as long as no write failed and no process crashed, the row is what
   memory says: the writes of several handlers never overtake each other. *)
THEOREM CronStoreAgrees == ASSUME CronAssumption PROVE Spec => []StoreAgrees
<1>1. Init => Synced
  BY DEF Init, Synced
<1>2. TypeOK /\ Shape /\ Past /\ Synced /\ [Next]_vars => Synced'
  BY SyncStep
<1>3. Synced => StoreAgrees
  BY DEF Synced, StoreAgrees, Quiet
<1> QED BY <1>1, <1>2, <1>3, CronSound, PTL DEF Spec

-----------------------------------------------------------------------------
(* The slots under way.                                                    *)

LEMMA WireSent ==
  ASSUME TypeOK, NEW row \in Rows \cup {None},
         NEW after \in {"done", "tell", "register", "pause"}, NEW slots \in SUBSET Slots,
         Send(row, after, slots)
  PROVE  /\ InWire' = InWire \cup slots
         /\ DOMAIN wire' = DOMAIN wire \cup {Len(wire) + 1}
         /\ DOMAIN wire = 1..Len(wire) /\ Len(wire) \in Nat
         /\ \A i \in DOMAIN wire : wire'[i] = wire[i]
         /\ wire'[Len(wire) + 1].row = row /\ wire'[Len(wire) + 1].slots = slots
<1>1. wire \in Seq(Writes)
  BY WireRows
<1>2. /\ DOMAIN wire' = DOMAIN wire \cup {Len(wire) + 1}
      /\ DOMAIN wire = 1..Len(wire) /\ Len(wire) \in Nat
  BY <1>1, Sent
<1>3. \A i \in DOMAIN wire : wire'[i] = wire[i]
  BY <1>1, Sent
<1>4. wire'[Len(wire) + 1].row = row /\ wire'[Len(wire) + 1].slots = slots
  BY <1>1, Sent
<1>5. InWire' = InWire \cup slots
  BY <1>2, <1>3, <1>4 DEF InWire
<1> QED BY <1>2, <1>3, <1>4, <1>5

LEMMA WireTaken ==
  ASSUME TypeOK, wire # <<>>, wire' = Tail(wire)
  PROVE  /\ InWire = InWire' \cup Head(wire).slots
         /\ Head(wire) = wire[1] /\ 1 \in DOMAIN wire
         /\ DOMAIN wire = 1..Len(wire) /\ Len(wire) \in Nat /\ DOMAIN wire' = 1..(Len(wire) - 1)
         /\ \A i \in DOMAIN wire' : wire'[i] = wire[i + 1] /\ i + 1 \in DOMAIN wire
<1>1. wire \in Seq(Writes)
  BY WireRows
<1>2. /\ Head(wire) = wire[1] /\ 1 \in DOMAIN wire
      /\ DOMAIN wire = 1..Len(wire) /\ Len(wire) \in Nat /\ DOMAIN wire' = 1..(Len(wire) - 1)
      /\ \A i \in DOMAIN wire' : wire'[i] = wire[i + 1] /\ i + 1 \in DOMAIN wire
  BY <1>1, Taken
<1>3. \A j \in DOMAIN wire : j = 1 \/ (j - 1 \in DOMAIN wire' /\ wire'[j - 1] = wire[j])
  BY <1>1, Taken
<1>4. InWire = InWire' \cup Head(wire).slots
  <2>1. ASSUME NEW x \in InWire PROVE x \in InWire' \cup Head(wire).slots
    <3>1. PICK j \in DOMAIN wire : x \in wire[j].slots
      BY DEF InWire
    <3>2. CASE j = 1
      BY <1>2, <3>1, <3>2
    <3>3. CASE j # 1
      <4>1. j - 1 \in DOMAIN wire' /\ x \in wire'[j - 1].slots
        BY <1>3, <3>1, <3>3
      <4> QED BY <4>1 DEF InWire
    <3> QED BY <3>2, <3>3
  <2>2. InWire' \subseteq InWire
    BY <1>2 DEF InWire
  <2>3. Head(wire).slots \subseteq InWire
    BY <1>2 DEF InWire
  <2> QED BY <2>1, <2>2, <2>3
<1> QED BY <1>2, <1>4

LEMMA ReadyAdded ==
  ASSUME TypeOK, NEW slots \in SUBSET Slots, ready' = Append(ready, slots)
  PROVE  /\ InReady' = InReady \cup slots
         /\ DOMAIN ready' = DOMAIN ready \cup {Len(ready) + 1}
         /\ DOMAIN ready = 1..Len(ready) /\ Len(ready) \in Nat
         /\ \A i \in DOMAIN ready : ready'[i] = ready[i]
         /\ ready'[Len(ready) + 1] = slots
<1>1. /\ DOMAIN ready' = DOMAIN ready \cup {Len(ready) + 1}
      /\ DOMAIN ready = 1..Len(ready) /\ Len(ready) \in Nat
      /\ \A i \in DOMAIN ready : ready'[i] = ready[i]
      /\ ready'[Len(ready) + 1] = slots
  BY Appended DEF TypeOK
<1>2. InReady' = InReady \cup slots
  BY <1>1 DEF InReady
<1> QED BY <1>1, <1>2

LEMMA ReadyTaken ==
  ASSUME TypeOK, ready # <<>>, ready' = Tail(ready)
  PROVE  /\ InReady = InReady' \cup Head(ready) /\ Head(ready) \in SUBSET Slots
         /\ Head(ready) = ready[1] /\ 1 \in DOMAIN ready
         /\ DOMAIN ready = 1..Len(ready) /\ Len(ready) \in Nat
         /\ DOMAIN ready' = 1..(Len(ready) - 1)
         /\ \A i \in DOMAIN ready' : ready'[i] = ready[i + 1] /\ i + 1 \in DOMAIN ready
<1>1. /\ Head(ready) = ready[1] /\ 1 \in DOMAIN ready /\ Head(ready) \in SUBSET Slots
      /\ DOMAIN ready = 1..Len(ready) /\ Len(ready) \in Nat
      /\ DOMAIN ready' = 1..(Len(ready) - 1)
      /\ \A i \in DOMAIN ready' : ready'[i] = ready[i + 1] /\ i + 1 \in DOMAIN ready
      /\ \A j \in DOMAIN ready : j = 1 \/ (j - 1 \in DOMAIN ready' /\ ready'[j - 1] = ready[j])
  BY Taken DEF TypeOK
<1>2. InReady = InReady' \cup Head(ready)
  BY <1>1 DEF InReady
<1> QED BY <1>1, <1>2

-----------------------------------------------------------------------------
(* No slot is told twice.                                                  *)

(* Fired once already: told, or on its way to it. *)
Taking(s) == told[s] > 0 \/ s \in InReady \cup InWire
Used(s)   == Taking(s) \/ s \in todo

(* A timer started from this row does not fire s again; L are the slots that
   were a lastExecution. *)
Covers(row, s, L) ==
  row = None \/ (s < row.next /\ (row.last = None \/ s < row.last \/ s \in L))

LEMMA DueUncovered ==
  ASSUME CronAssumption, NEW row \in Rows, NEW s \in Nat, NEW L, s \notin L, s >= After(row)
  PROVE  ~Covers(row, s, L)
<1>1. row.next \in Nat /\ row # None /\ (row.last = None \/ row.last \in Nat)
  BY RowFields, SlotsNat
<1> QED BY <1>1 DEF After, Covers

(* Each copy of a slot is in one place at a time. *)
InOnePlace(s) ==
  /\ told[s] <= 1
  /\ told[s] > 0 => s \notin InReady
  /\ told[s] > 0 \/ s \in InReady => s \notin InWire
  /\ Taking(s) => s \notin todo
  /\ \A i, j \in DOMAIN ready : s \in ready[i] /\ s \in ready[j] => i = j
  /\ \A i, j \in DOMAIN wire : s \in wire[i].slots /\ s \in wire[j].slots => i = j

(* A used slot is in the past of the timer; of the row once its own write is
   through; and of every write from its own on. *)
Covered(s) ==
  /\ Used(s) => s <= now /\ Covers(timer, s, lasts)
  /\ told[s] > 0 \/ s \in InReady => Covers(store, s, lasts)
  /\ \A j \in DOMAIN wire :
       told[s] > 0 \/ s \in InReady \cup todo \/ (\E i \in 1..j : s \in wire[i].slots)
       => Covers(wire[j].row, s, lasts)

Once == \A s \in Slots : s \notin lasts => InOnePlace(s) /\ Covered(s)

(* A handler sends off a row and the slots it fires, which nobody fired
   before, and may set others aside for later. *)
LEMMA OnceSend ==
  ASSUME TypeOK, Once, NEW row \in Rows \cup {None},
         NEW after \in {"done", "tell", "register", "pause"}, NEW slots \in SUBSET Slots,
         Send(row, after, slots), UNCHANGED <<now, store, ready, told>>,
         wire = <<>> \/ todo' \subseteq todo, lasts \subseteq lasts',
         NEW s \in Slots, s \notin lasts',
         s \in slots \cup todo' => s <= now /\ ~Taking(s), s \notin slots \cap todo',
         Used(s) \/ s \in slots \cup todo' => Covers(row, s, lasts') /\ Covers(timer', s, lasts')
  PROVE  InOnePlace(s)' /\ Covered(s)'
<1>1. InOnePlace(s) /\ Covered(s)
  BY DEF Once
<1>0. InReady' = InReady
  BY DEF InReady
<1>a. /\ InWire' = InWire \cup slots
      /\ DOMAIN wire = 1..Len(wire) /\ Len(wire) \in Nat
  BY WireSent
<1>b. DOMAIN wire' = DOMAIN wire \cup {Len(wire) + 1}
  BY WireSent
<1>c. \A i \in DOMAIN wire : wire'[i] = wire[i]
  BY WireSent
<1>d. wire'[Len(wire) + 1].row = row /\ wire'[Len(wire) + 1].slots = slots
  BY WireSent
<1>2. /\ InWire' = InWire \cup slots /\ InReady' = InReady
      /\ DOMAIN wire' = DOMAIN wire \cup {Len(wire) + 1}
      /\ DOMAIN wire = 1..Len(wire) /\ Len(wire) \in Nat
      /\ \A i \in DOMAIN wire : wire'[i] = wire[i]
      /\ wire'[Len(wire) + 1].row = row /\ wire'[Len(wire) + 1].slots = slots
  BY <1>0, <1>a, <1>b, <1>c, <1>d
<1>3. \A i \in DOMAIN wire : s \in wire[i].slots => Taking(s)
  BY DEF InWire, Taking
<1>4. InOnePlace(s)'
  <2>1. \A i, j \in DOMAIN wire' : s \in wire'[i].slots /\ s \in wire'[j].slots => i = j
    BY <1>1, <1>2, <1>3 DEF InOnePlace
  <2>2. /\ told[s] > 0 \/ s \in InReady => s \notin InWire'
        /\ Taking(s)' => s \notin todo'
    BY <1>1, <1>2 DEF InOnePlace, Taking
  <2> QED BY <1>1, <1>2, <2>1, <2>2 DEF InOnePlace
<1>5. Used(s)' => s <= now /\ Covers(timer', s, lasts')
  BY <1>1, <1>2 DEF Used, Taking, Covered
<1>6. \A r : Covers(r, s, lasts) => Covers(r, s, lasts')
  BY DEF Covers
<1>7. ASSUME NEW j \in DOMAIN wire',
             told[s] > 0 \/ s \in InReady \cup todo' \/ (\E i \in 1..j : s \in wire'[i].slots)
      PROVE  Covers(wire'[j].row, s, lasts')
  <2>1. CASE j = Len(wire) + 1
    <3>1. Used(s) \/ s \in slots \cup todo'
      BY <1>2, <1>7 DEF Used, Taking, InWire
    <3> QED BY <1>2, <2>1, <3>1
  <2>2. CASE j \in DOMAIN wire
    <3>1. wire # <<>> /\ todo' \subseteq todo
      BY <2>2
    <3>2. \A i \in 1..j : i \in DOMAIN wire /\ wire'[i] = wire[i]
      BY <1>2, <2>2
    <3>3. Covers(wire[j].row, s, lasts)
      BY <1>1, <1>7, <2>2, <3>1, <3>2 DEF Covered
    <3> QED BY <1>2, <1>6, <2>2, <3>3
  <2> QED BY <1>2, <2>1, <2>2
<1>8. Covered(s)'
  BY <1>1, <1>2, <1>5, <1>6, <1>7 DEF Covered
<1> QED BY <1>4, <1>8

(* The first write is through: its row is the stored one, its slots are told
   next. *)
LEMMA OnceWritten ==
  ASSUME TypeOK, Shape, Once, Written, NEW s \in Slots, s \notin lasts
  PROVE  InOnePlace(s)' /\ Covered(s)'
<1> DEFINE mine == Head(wire).slots
<1>1. InOnePlace(s) /\ Covered(s)
  BY DEF Once
<1>2. /\ wire # <<>> /\ wire' = Tail(wire) /\ store' = Head(wire).row
      /\ UNCHANGED <<now, told, todo, lasts>>
      /\ timer' = IF Head(wire).after = "register" THEN Head(wire).row ELSE timer
      /\ ready' = IF Head(wire).after = "tell" THEN Append(ready, mine) ELSE ready
  BY DEF Written
<1>3. /\ InWire = InWire' \cup mine
      /\ Head(wire) = wire[1] /\ 1 \in DOMAIN wire
      /\ DOMAIN wire = 1..Len(wire) /\ Len(wire) \in Nat /\ DOMAIN wire' = 1..(Len(wire) - 1)
      /\ \A i \in DOMAIN wire' : wire'[i] = wire[i + 1] /\ i + 1 \in DOMAIN wire
  BY <1>2, WireTaken
<1>4. mine \in SUBSET Slots /\ (Head(wire).after # "tell" => mine = {})
  BY <1>3, WireRows DEF Writes, Shape, SlotsTold
<1>5. InReady' = InReady \cup mine
  <2>1. CASE Head(wire).after = "tell"
    BY <1>2, <1>4, <2>1, ReadyAdded
  <2>2. CASE Head(wire).after # "tell"
    BY <1>2, <1>4, <2>2 DEF InReady
  <2> QED BY <2>1, <2>2
<1>6. s \in mine => s \notin InWire'
  <2> SUFFICES ASSUME s \in mine, NEW i \in DOMAIN wire', s \in wire'[i].slots PROVE FALSE
    BY DEF InWire
  <2> QED BY <1>1, <1>3 DEF InOnePlace
<1>7. \A i \in DOMAIN ready : s \in ready[i] => s \in InReady
  BY DEF InReady
<1>8. InOnePlace(s)'
  <2>1. \A i, j \in DOMAIN wire' : s \in wire'[i].slots /\ s \in wire'[j].slots => i = j
    <3> SUFFICES ASSUME NEW i \in DOMAIN wire', NEW j \in DOMAIN wire',
                        s \in wire'[i].slots, s \in wire'[j].slots
                 PROVE  i = j
      OBVIOUS
    <3>1. i + 1 = j + 1
      BY <1>1, <1>3 DEF InOnePlace
    <3> QED BY <1>3, <3>1
  <2>2. \A i, j \in DOMAIN ready' : s \in ready'[i] /\ s \in ready'[j] => i = j
    <3>1. CASE Head(wire).after = "tell"
      <4>1. /\ DOMAIN ready' = DOMAIN ready \cup {Len(ready) + 1}
            /\ \A i \in DOMAIN ready : ready'[i] = ready[i]
            /\ ready'[Len(ready) + 1] = mine
        BY <1>2, <1>4, <3>1, ReadyAdded
      <4>2. s \in mine => s \notin InReady
        BY <1>1, <1>3 DEF InOnePlace
      <4> QED BY <1>1, <1>7, <4>1, <4>2 DEF InOnePlace
    <3>2. CASE Head(wire).after # "tell"
      BY <1>1, <1>2, <3>2 DEF InOnePlace
    <3> QED BY <3>1, <3>2
  <2>3. /\ told[s] > 0 => s \notin InReady'
        /\ told[s] > 0 \/ s \in InReady' => s \notin InWire'
        /\ Taking(s)' => s \notin todo
    BY <1>1, <1>2, <1>3, <1>5, <1>6 DEF InOnePlace, Taking
  <2> QED BY <1>1, <1>2, <2>1, <2>2, <2>3 DEF InOnePlace
<1>9. Covered(s)'
  <2>1. Used(s)' <=> Used(s)
    BY <1>2, <1>3, <1>5 DEF Used, Taking
  <2>2. Used(s) => told[s] > 0 \/ s \in InReady \cup todo \/ s \in InWire
    BY DEF Used, Taking
  <2>3. Used(s) => Covers(timer', s, lasts)
    <3>1. CASE Head(wire).after = "register"
      <4>1. InWire = {}
        <5>1. DOMAIN wire = {1} /\ mine = {}
          BY <1>3, <1>4, <3>1 DEF Shape, RegisterAlone
        <5> QED BY <1>3, <5>1 DEF InWire
      <4> QED BY <1>1, <1>2, <1>3, <2>2, <3>1, <4>1 DEF Covered
    <3>2. CASE Head(wire).after # "register"
      BY <1>1, <1>2, <3>2 DEF Covered
    <3> QED BY <3>1, <3>2
  <2>4. told[s] > 0 \/ s \in InReady \cup mine => Covers(Head(wire).row, s, lasts)
    <3>1. \E i \in 1..1 : s \in mine => s \in wire[i].slots
      BY <1>3
    <3> QED BY <1>1, <1>3, <3>1 DEF Covered
  <2>5. ASSUME NEW j \in DOMAIN wire',
               told[s] > 0 \/ s \in InReady' \cup todo \/ (\E i \in 1..j : s \in wire'[i].slots)
        PROVE  Covers(wire'[j].row, s, lasts)
    <3>1. j + 1 \in DOMAIN wire /\ wire'[j] = wire[j + 1] /\ 1 \in 1..(j + 1)
      BY <1>3
    <3>2. ASSUME NEW i \in 1..j, s \in wire'[i].slots
          PROVE  i + 1 \in 1..(j + 1) /\ s \in wire[i + 1].slots
      BY <1>3, <3>2
    <3>3. s \in mine => s \in wire[1].slots
      BY <1>3
    <3>4. told[s] > 0 \/ s \in InReady \cup todo \/ (\E i \in 1..(j + 1) : s \in wire[i].slots)
      BY <1>5, <2>5, <3>1, <3>2, <3>3
    <3> QED BY <1>1, <3>1, <3>4 DEF Covered
  <2> QED BY <1>1, <1>2, <1>5, <2>1, <2>3, <2>4, <2>5 DEF Covered
<1> QED BY <1>8, <1>9

(* It is rejected: its slots are not told, wherever the row is now. *)
LEMMA OnceWriteFails ==
  ASSUME TypeOK, Shape, Once, WriteFails, NEW s \in Slots, s \notin lasts
  PROVE  InOnePlace(s)' /\ Covered(s)'
<1>1. InOnePlace(s) /\ Covered(s)
  BY DEF Once
<1>2. /\ wire # <<>> /\ wire' = Tail(wire) /\ store' \in {store, Head(wire).row}
      /\ UNCHANGED <<now, told, ready, timer, lasts>> /\ todo' = {}
  BY DEF WriteFails
<1>3. /\ InWire' \subseteq InWire /\ InReady' = InReady
      /\ Head(wire) = wire[1] /\ 1 \in DOMAIN wire
      /\ DOMAIN wire = 1..Len(wire) /\ Len(wire) \in Nat /\ DOMAIN wire' = 1..(Len(wire) - 1)
      /\ \A i \in DOMAIN wire' : wire'[i] = wire[i + 1] /\ i + 1 \in DOMAIN wire
  BY <1>2, WireTaken DEF InReady
<1>4. InOnePlace(s)'
  <2>1. \A i, j \in DOMAIN wire' : s \in wire'[i].slots /\ s \in wire'[j].slots => i = j
    <3> SUFFICES ASSUME NEW i \in DOMAIN wire', NEW j \in DOMAIN wire',
                        s \in wire'[i].slots, s \in wire'[j].slots
                 PROVE  i = j
      OBVIOUS
    <3>1. i + 1 = j + 1
      BY <1>1, <1>3 DEF InOnePlace
    <3> QED BY <1>3, <3>1
  <2> QED BY <1>1, <1>2, <1>3, <2>1 DEF InOnePlace, Taking
<1>5. Covered(s)'
  <2>1. Used(s)' => Used(s)
    BY <1>2, <1>3 DEF Used, Taking
  <2>2. told[s] > 0 \/ s \in InReady => Covers(store', s, lasts)
    BY <1>1, <1>2, <1>3 DEF Covered
  <2>3. ASSUME NEW j \in DOMAIN wire',
               told[s] > 0 \/ s \in InReady \/ (\E i \in 1..j : s \in wire'[i].slots)
        PROVE  Covers(wire'[j].row, s, lasts)
    <3>1. j + 1 \in DOMAIN wire /\ wire'[j] = wire[j + 1]
      BY <1>3
    <3>2. ASSUME NEW i \in 1..j, s \in wire'[i].slots
          PROVE  i + 1 \in 1..(j + 1) /\ s \in wire[i + 1].slots
      BY <1>3, <3>2
    <3>3. told[s] > 0 \/ s \in InReady \/ (\E i \in 1..(j + 1) : s \in wire[i].slots)
      BY <2>3, <3>2
    <3> QED BY <1>1, <3>1, <3>3 DEF Covered
  <2> QED BY <1>1, <1>2, <1>3, <2>1, <2>2, <2>3 DEF Covered
<1> QED BY <1>4, <1>5

(* A slot that is ready is told, or given up. *)
LEMMA OnceTell ==
  ASSUME TypeOK, Once, Tell \/ TellFails, NEW s \in Slots, s \notin lasts
  PROVE  InOnePlace(s)' /\ Covered(s)'
<1>1. InOnePlace(s) /\ Covered(s)
  BY DEF Once
<1>2. /\ ready # <<>> /\ ready' = Tail(ready)
      /\ UNCHANGED <<now, wire, store, timer, todo, lasts>>
      /\ \/ told'[s] = told[s]
         \/ s \in Head(ready) /\ told'[s] = told[s] + 1
  BY DEF Tell, TellFails, TypeOK
<1>3. /\ InReady = InReady' \cup Head(ready) /\ InWire' = InWire
      /\ Head(ready) = ready[1] /\ 1 \in DOMAIN ready
      /\ DOMAIN ready = 1..Len(ready) /\ Len(ready) \in Nat
      /\ DOMAIN ready' = 1..(Len(ready) - 1)
      /\ \A i \in DOMAIN ready' : ready'[i] = ready[i + 1] /\ i + 1 \in DOMAIN ready
  BY <1>2, ReadyTaken DEF InWire
<1>4. told[s] \in Nat /\ (told[s] > 0 => told'[s] > 0)
      /\ (told'[s] > 0 => told[s] > 0 \/ s \in Head(ready))
  BY <1>2 DEF TypeOK
<1>5. s \in Head(ready) => s \notin InReady'
  <2> SUFFICES ASSUME s \in Head(ready), NEW i \in DOMAIN ready', s \in ready'[i] PROVE FALSE
    BY DEF InReady
  <2> QED BY <1>1, <1>3 DEF InOnePlace
<1>6. InOnePlace(s)'
  <2>1. \A i, j \in DOMAIN ready' : s \in ready'[i] /\ s \in ready'[j] => i = j
    <3> SUFFICES ASSUME NEW i \in DOMAIN ready', NEW j \in DOMAIN ready',
                        s \in ready'[i], s \in ready'[j]
                 PROVE  i = j
      OBVIOUS
    <3>1. i + 1 = j + 1
      BY <1>1, <1>3 DEF InOnePlace
    <3> QED BY <1>3, <3>1
  <2>2. told'[s] <= 1
    <3>1. s \in Head(ready) => told[s] = 0
      BY <1>1, <1>3, <1>4 DEF InOnePlace
    <3> QED BY <1>1, <1>2, <1>4, <3>1 DEF InOnePlace
  <2>3. /\ told'[s] > 0 => s \notin InReady'
        /\ told'[s] > 0 \/ s \in InReady' => s \notin InWire
        /\ Taking(s)' => s \notin todo
    BY <1>1, <1>3, <1>4, <1>5 DEF InOnePlace, Taking
  <2> QED BY <1>1, <1>2, <1>3, <2>1, <2>2, <2>3 DEF InOnePlace
<1>7. Covered(s)'
  <2>1. Used(s)' => Used(s)
    BY <1>2, <1>3, <1>4 DEF Used, Taking
  <2>2. told'[s] > 0 \/ s \in InReady' => told[s] > 0 \/ s \in InReady
    BY <1>3, <1>4
  <2> QED BY <1>1, <1>2, <1>3, <2>1, <2>2 DEF Covered
<1> QED BY <1>6, <1>7

(* A registration takes the stored row over, or one whose next slot is still
   to come. *)
LEMMA OnceRegister ==
  ASSUME CronAssumption, TypeOK, Shape, Once, RegisterKnown \/ RegisterFresh,
         NEW s \in Slots, s \notin lasts
  PROVE  InOnePlace(s)' /\ Covered(s)'
<1>1. PICK row \in Rows :
           /\ Send(row, "register", {}) /\ wire = <<>> /\ timer = None
           /\ UNCHANGED <<now, timer, store, ready, todo, told, lasts>>
           /\ \/ row = store
              \/ /\ row.next = NextSlot(now)
                 /\ row.last = None \/ (store # None /\ row.last = store.last)
  BY RegisterKinds
<1>2. InOnePlace(s) /\ Covered(s)
  BY DEF Once
<1>3. InWire = {} /\ todo = {}
  BY <1>1 DEF InWire, Shape, CatchUpOnly
<1>4. ASSUME Used(s) PROVE Covers(row, s, lasts)
  <2>1. s <= now /\ Covers(store, s, lasts)
    BY <1>2, <1>3, <1>4 DEF Used, Taking, Covered
  <2>2. /\ s \in Nat /\ now \in Nat
        /\ now < NextSlot(now) /\ NextSlot(now) \in Nat
    BY SlotsNat, NextSlotLater DEF TypeOK
  <2>3. s < NextSlot(now)
    BY <2>1, <2>2
  <2> QED BY <1>1, <2>1, <2>3 DEF Covers
<1>5. Covers(None, s, lasts)
  BY DEF Covers
<1>6. {} \in SUBSET Slots /\ "register" \in {"done", "tell", "register", "pause"}
      /\ row \in Rows \cup {None}
  OBVIOUS
<1> QED BY <1>1, <1>3, <1>4, <1>5, <1>6, OnceSend

(* What start() makes up for nobody fired before. *)
LEMMA OnceStart ==
  ASSUME CronAssumption, TypeOK, Shape, Once, Start, NEW s \in Slots, s \notin lasts'
  PROVE  InOnePlace(s)' /\ Covered(s)'
<1>0. /\ wire = <<>> /\ UNCHANGED <<now, store, told, ready>> /\ todo = {} /\ InWire = {}
      /\ lasts \subseteq lasts' /\ s \in Nat /\ now \in Times /\ now \in Nat
  <2>1. wire = <<>> /\ UNCHANGED <<now, store, told, ready>> /\ todo = {}
    BY StartKinds DEF Shape, CatchUpOnly
  <2>2. lasts \subseteq lasts'
    BY DEF Start, ApplyMissedPolicy, Fire
  <2> QED BY <2>1, <2>2, SlotsNat DEF InWire, TypeOK
<1>1. InOnePlace(s) /\ Covered(s)
  BY <1>0 DEF Once
<1>2. Used(s) => s <= now /\ Covers(StartRow, s, lasts)
  BY <1>0, <1>1 DEF Used, Taking, Covered, StartRow
<1>3. CASE ~Overdue
  <2>1. timer' = StartRow /\ UNCHANGED <<wire, todo, lasts>>
    BY <1>3, StartKinds
  <2>2. InReady' = InReady /\ InWire' = InWire
    BY <1>0, <2>1 DEF InReady, InWire
  <2> QED BY <1>0, <1>1, <1>2, <2>1, <2>2 DEF InOnePlace, Covered, Used, Taking
<1>4. CASE Overdue
  <2> DEFINE row    == StartRow
             missed == Missed(row)
  <2>1. row \in Rows /\ row.next \in Nat /\ row.last \in Times \cup {None} /\ row.next <= now
    BY <1>4, RowFields DEF Overdue, StartRow, TypeOK
  <2>2. PICK slots \in SUBSET missed, rest \in SUBSET missed :
             /\ \/ /\ slots = {} /\ rest = {} /\ Send(timer', "done", {})
                   /\ timer' = PastOf(row) /\ UNCHANGED todo
                \/ /\ missed # {} /\ slots \cap rest = {}
                   /\ Send(timer', "tell", slots)
                   /\ lasts' = lasts \cup ({timer'.last} \cap Slots)
                   /\ \/ timer' = FiredOf(row)
                      \/ timer' = [PastOf(row) EXCEPT !.last = Max(missed)]
                   /\ todo' \in {todo, rest}
             /\ timer' \in Rows
    <3>1. ApplyMissedPolicy(row)
      BY <1>4, StartKinds
    <3>2. PICK slots \in SUBSET missed, rest \in SUBSET missed :
               /\ \/ slots = {} /\ rest = {} /\ Send(timer', "done", {})
                     /\ timer' = PastOf(row) /\ UNCHANGED todo
                  \/ /\ slots # {} /\ slots \cap rest = {}
                     /\ Send(timer', "tell", slots)
                     /\ lasts' = lasts \cup ({timer'.last} \cap Slots)
                     /\ \/ timer' = FiredOf(row)
                        \/ timer' = [PastOf(row) EXCEPT !.last = Max(missed)]
                     /\ todo' \in {todo, rest}
               /\ timer' \in Rows
      BY <2>1, <3>1, ApplyKinds
    <3>3. slots # {} => missed # {}
      OBVIOUS
    <3> QED BY <3>2, <3>3
  <2>3. missed \subseteq Slots /\ now < NextSlot(now) /\ NextSlot(now) \in Nat
    BY <1>0, <2>1, MissedPast, NextSlotLater
  <2>4. ASSUME s \in missed PROVE s <= now /\ ~Used(s)
    <3>1. s <= now /\ s >= After(row)
      BY <2>4 DEF Missed
    <3>2. ~Covers(row, s, lasts)
      BY <1>0, <2>1, <3>1, DueUncovered
    <3> QED BY <1>2, <3>1, <3>2
  <2>5. s \in slots \cup todo' => s \in missed
    BY <1>0, <2>2
  <2>6. ASSUME Used(s) \/ s \in slots \cup todo' PROVE Covers(timer', s, lasts')
    <3>1. s < NextSlot(now) /\ s <= now
      BY <1>0, <1>2, <2>3, <2>4, <2>5, <2>6
    <3>2. CASE timer' = PastOf(row) /\ slots = {} /\ rest = {} /\ UNCHANGED todo
      <4>1. Covers(row, s, lasts)
        BY <1>0, <1>2, <2>6, <3>2
      <4>2. timer'.next = NextSlot(now) /\ timer'.last = row.last
        BY <2>1, <3>2 DEF PastOf, Rows
      <4> QED BY <1>0, <2>1, <3>1, <4>1, <4>2, RowsNone DEF Covers
    <3>3. CASE timer' = FiredOf(row) /\ lasts' = lasts \cup ({timer'.last} \cap Slots)
      <4>1. timer'.next = NextSlot(now) /\ timer'.last = now
        BY <2>1, <3>3 DEF FiredOf, PastOf, Rows
      <4>2. s # now
        BY <3>3, <4>1
      <4> QED BY <1>0, <3>1, <4>1, <4>2 DEF Covers
    <3>4. CASE /\ timer' = [PastOf(row) EXCEPT !.last = Max(missed)] /\ missed # {}
               /\ lasts' = lasts \cup ({timer'.last} \cap Slots)
      <4>1. timer'.next = NextSlot(now) /\ timer'.last = Max(missed)
        BY <2>1, <3>4 DEF PastOf, Rows
      <4>2. /\ Max(missed) \in missed /\ Max(missed) \in Nat
            /\ \A x \in missed : x <= Max(missed)
        BY <2>1, <2>3, <3>4, MissedPast, SlotsNat
      <4>3. Max(missed) >= After(row)
        BY <4>2 DEF Missed
      <4>4. s # Max(missed)
        BY <3>4, <4>1
      <4>5. s < Max(missed)
        <5>1. CASE s \in missed
          BY <1>0, <4>2, <4>4, <5>1
        <5>2. CASE s \notin missed
          <6>1. Covers(row, s, lasts)
            BY <1>2, <2>5, <2>6, <5>2
          <6>2. s < After(row) /\ After(row) \in Nat
            BY <1>0, <2>1, <6>1, RowsNone, SlotsNat DEF After, Covers
          <6> QED BY <1>0, <4>2, <4>3, <6>2
        <5> QED BY <5>1, <5>2
      <4> QED BY <3>1, <4>1, <4>5 DEF Covers
    <3> QED BY <2>2, <3>2, <3>3, <3>4
  <2>7. /\ slots \in SUBSET Slots /\ {} \in SUBSET Slots /\ timer' \in Rows \cup {None}
        /\ {"done", "tell"} \subseteq {"done", "tell", "register", "pause"}
    BY <2>2, <2>3
  <2>8. PICK after \in {"done", "tell"} : Send(timer', after, slots)
    BY <2>2
  <2>9. s \in slots \cup todo' => s <= now /\ ~Taking(s)
    BY <2>4, <2>5 DEF Used
  <2>10. s \notin slots \cap todo'
    BY <1>0, <2>2
  <2>11. after \in {"done", "tell", "register", "pause"}
    BY <2>8
  <2> HIDE DEF row, missed
  <2> QED BY <1>0, <2>6, <2>7, <2>8, <2>9, <2>10, <2>11, OnceSend
<1> QED BY <1>3, <1>4

(* The check interval fires from the timer's next slot on, which no used slot
   has reached; catchup fires what start() set aside. *)
LEMMA OnceFires ==
  ASSUME CronAssumption, TypeOK, Shape, Once, NEW slots \in SUBSET Slots,
         CatchesUp(slots) \/ Checks(slots), NEW s \in Slots, s \notin lasts'
  PROVE  InOnePlace(s)' /\ Covered(s)'
<1>1. PICK at \in {asOf, now} : Fires(at, slots)
  BY DEF CatchesUp, Checks
<1>2. /\ Send(timer', "tell", slots) /\ timer' \in Rows
      /\ timer'.next = NextSlot(at) /\ timer'.last = at
      /\ lasts' = lasts \cup ({at} \cap Slots)
      /\ UNCHANGED <<now, store, ready, told>>
  BY <1>1 DEF Fires
<1>3. InOnePlace(s) /\ Covered(s) /\ s \in Nat /\ now \in Nat
  BY <1>2, SlotsNat DEF Once, TypeOK
<1>4. todo' \subseteq todo
  BY DEF CatchesUp, Checks
<1>5. CASE CatchesUp(slots)
  <2>1. /\ slots \subseteq todo /\ todo' = todo \ slots
        /\ timer.next = NextSlot(asOf) /\ timer.last = asOf
        /\ Fires(asOf, slots) /\ timer # None
    BY <1>5 DEF CatchesUp, Fires
  <2>2. timer'.next = timer.next /\ timer'.last = timer.last
    BY <2>1 DEF Fires
  <2>3. s \in slots \cup todo' => s \in todo
    BY <2>1
  <2>4. s \in todo => Used(s) /\ s <= now /\ ~Taking(s)
    BY <1>3 DEF InOnePlace, Covered, Used
  <2>5. Used(s) => Covers(timer', s, lasts')
    BY <1>2, <1>3, <2>1, <2>2 DEF Covered, Covers
  <2>6. s \notin slots \cap todo'
    BY <2>1
  <2> QED BY <1>2, <1>4, <2>3, <2>4, <2>5, <2>6, OnceSend
<1>6. CASE Checks(slots)
  <2>1. /\ Fires(now, slots) /\ daemon = "up" /\ timer # None
        /\ slots = {timer.next} /\ timer.next <= now /\ todo = {} /\ todo' = {}
    BY <1>6 DEF Checks, Fires, Shape, CatchUpOnly
  <2>2. /\ timer'.next = NextSlot(now) /\ timer'.last = now
        /\ lasts' = lasts \cup ({now} \cap Slots)
    BY <2>1 DEF Fires
  <2>3. s \in slots => s <= now /\ ~Used(s)
    <3>1. timer.next \in Nat
      BY <2>1, RowFields DEF TypeOK
    <3>2. s \in slots => s <= now /\ timer.next <= s
      BY <2>1, <3>1
    <3> QED BY <1>3, <2>1, <3>1, <3>2 DEF Covered, Covers
  <2>4. ASSUME Used(s) \/ s \in slots PROVE Covers(timer', s, lasts')
    <3>1. s <= now /\ s # now
      BY <1>3, <2>2, <2>3, <2>4 DEF Covered
    <3>2. now < NextSlot(now) /\ NextSlot(now) \in Nat
      BY NextSlotLater DEF TypeOK
    <3> QED BY <1>3, <2>2, <3>1, <3>2 DEF Covers
  <2>5. s \in slots \cup todo' => s <= now /\ ~Taking(s)
    BY <2>1, <2>3 DEF Used
  <2> QED BY <1>2, <1>4, <2>1, <2>4, <2>5, OnceSend
<1> QED BY <1>5, <1>6

LEMMA OnceStep ==
  ASSUME CronAssumption, TypeOK, Shape, Past, Once, [Next]_vars
  PROVE  Once'
<1> SUFFICES ASSUME NEW s \in Slots, s \notin lasts' PROVE InOnePlace(s)' /\ Covered(s)'
  BY DEF Once
<1>0. s \in Nat /\ now \in Nat /\ {} \in SUBSET Slots /\ None \in Rows \cup {None}
  BY SlotsNat DEF TypeOK
<1>1. CASE Written
  BY <1>1, OnceWritten DEF Written
<1>2. CASE WriteFails
  BY <1>2, OnceWriteFails DEF WriteFails
<1>3. CASE Tell \/ TellFails
  BY <1>3, OnceTell DEF Tell, TellFails
<1>4. CASE RegisterKnown \/ RegisterFresh
  <2>1. UNCHANGED lasts
    BY <1>4, RegisterKinds
  <2> QED BY <1>4, <2>1, OnceRegister
<1>5. CASE Start
  BY <1>5, OnceStart
<1>6. ASSUME NEW slots \in SUBSET Slots, CatchesUp(slots) \/ Checks(slots)
      PROVE  InOnePlace(s)' /\ Covered(s)'
  BY <1>6, OnceFires
<1>7. CASE Copies \/ Removes
  <2>1. UNCHANGED <<now, store, ready, todo, told, lasts>>
    BY <1>7 DEF Copies, Removes
  <2>2. InOnePlace(s) /\ Covered(s)
    BY <2>1 DEF Once
  <2>3. PICK after \in {"done", "pause"} :
             /\ Send(timer', after, {}) /\ timer' \in Rows \cup {None}
             /\ timer' = None \/ (timer # None /\ timer'.next = timer.next
                                  /\ timer'.last = timer.last)
    BY <1>7 DEF Copies, Removes
  <2>4. Used(s) => Covers(timer', s, lasts)
    BY <2>2, <2>3 DEF Covered, Covers
  <2>5. s \in todo => s <= now /\ ~Taking(s) /\ Used(s)
    BY <2>2 DEF InOnePlace, Covered, Used
  <2>6. after \in {"done", "tell", "register", "pause"}
    BY <2>3
  <2> QED BY <1>0, <2>1, <2>3, <2>4, <2>5, <2>6, OnceSend
<1>8. CASE Still
  <2>1. UNCHANGED <<timer, store, wire, ready, todo, told, lasts>> /\ now' \in {now, now + 1}
    BY <1>8 DEF Still
  <2>2. InReady' = InReady /\ InWire' = InWire
    BY <2>1 DEF InReady, InWire
  <2>3. InOnePlace(s) /\ Covered(s) /\ (s <= now => s <= now')
    BY <1>0, <2>1 DEF Once
  <2> QED BY <2>1, <2>2, <2>3 DEF InOnePlace, Covered, Used, Taking
<1>9. CASE Ends
  <2>1. /\ timer' = None /\ wire' = <<>> /\ ready' = <<>> /\ todo' = {}
        /\ UNCHANGED <<now, store, told, lasts>>
    BY <1>9 DEF Ends
  <2>2. InReady' = {} /\ InWire' = {}
    BY <2>1 DEF InReady, InWire
  <2>3. InOnePlace(s) /\ Covered(s)
    BY <2>1 DEF Once
  <2> QED BY <2>1, <2>2, <2>3 DEF InOnePlace, Covered, Covers, Used, Taking
<1> QED BY <1>1, <1>2, <1>3, <1>4, <1>5, <1>6, <1>7, <1>8, <1>9, StepKinds

(* Through crashes, rejected writes, restarts, pauses and edits a slot is told
   twice only when it was itself a lastExecution. *)
THEOREM CronToldOnce == ASSUME CronAssumption PROVE Spec => []ToldOnce
<1>1. Init => Once
  BY DEF Init, Once, InOnePlace, Covered, Covers, Used, Taking, InReady, InWire
<1>2. TypeOK /\ Shape /\ Past /\ Once /\ [Next]_vars => Once'
  BY OnceStep
<1>3. TypeOK /\ Once => ToldOnce
  <2> SUFFICES ASSUME TypeOK, Once, NEW s \in Slots, told[s] > 1 PROVE s \in lasts
    BY DEF ToldOnce
  <2>1. told[s] \in Nat
    BY DEF TypeOK
  <2> QED BY <2>1 DEF Once, InOnePlace
<1> QED BY <1>1, <1>2, <1>3, CronSound, PTL DEF Spec

-----------------------------------------------------------------------------
(* No slot is lost in silence.                                             *)

Done(s) == told[s] > 0 \/ s \in excused
Safe(s) == Done(s) \/ s \in Held

(* The schedule, counted since b, has gone past s in this row. *)
Passed(row, s, b) == row # None /\ b < s /\ s < row.next

(* What a row has passed is told, given up or about to be told; in a row that
   is still being written its slot may be under way in it or before it. *)
Tracked(s) ==
  /\ Passed(store, s, birth) => Safe(s)
  /\ \A j \in DOMAIN wire :
       Passed(wire[j].row, s, birth) => Safe(s) \/ \E i \in 1..j : s \in wire[i].slots
  /\ Passed(timer, s, birth) => Safe(s) \/ s \in InWire

NoneLost == \A s \in Slots : Tracked(s)

LEMMA PassedLess ==
  ASSUME NEW row, NEW s \in Nat, NEW b \in Nat, NEW c \in Nat, b <= c, Passed(row, s, c)
  PROVE  Passed(row, s, b)
BY DEF Passed

LEMMA TrackSend ==
  ASSUME CronAssumption, TypeOK, TypeOK', NoneLost, NEW row \in Rows \cup {None},
         NEW after \in {"done", "tell", "register", "pause"}, NEW slots \in SUBSET Slots,
         Send(row, after, slots), UNCHANGED store, birth <= birth', NEW s \in Slots,
         Safe(s) => Safe(s)',
         Passed(row, s, birth') => Safe(s)' \/ s \in InWire \cup slots,
         Passed(timer', s, birth') => Safe(s)' \/ s \in InWire \cup slots
  PROVE  Tracked(s)'
<1>1. Tracked(s) /\ s \in Nat /\ birth \in Nat /\ birth' \in Nat
  BY SlotsNat DEF NoneLost, TypeOK
<1>a. /\ InWire' = InWire \cup slots
      /\ DOMAIN wire = 1..Len(wire) /\ Len(wire) \in Nat
  BY WireSent
<1>b. DOMAIN wire' = DOMAIN wire \cup {Len(wire) + 1}
  BY WireSent
<1>c. \A i \in DOMAIN wire : wire'[i] = wire[i]
  BY WireSent
<1>d. wire'[Len(wire) + 1].row = row /\ wire'[Len(wire) + 1].slots = slots
  BY WireSent
<1>2. Passed(store', s, birth') => Safe(s)'
  BY <1>1, PassedLess DEF Tracked
<1>3. ASSUME NEW j \in DOMAIN wire', Passed(wire'[j].row, s, birth')
      PROVE  Safe(s)' \/ \E i \in 1..j : s \in wire'[i].slots
  <2>1. CASE j = Len(wire) + 1
    <3>1. Safe(s)' \/ s \in InWire \cup slots
      BY <1>3, <1>d, <2>1
    <3>2. ASSUME s \in InWire PROVE \E i \in 1..j : s \in wire'[i].slots
      <4>1. PICK i \in DOMAIN wire : s \in wire[i].slots
        BY <3>2 DEF InWire
      <4>2. i \in 1..j /\ s \in wire'[i].slots
        BY <1>a, <1>c, <2>1, <4>1
      <4> QED BY <4>2
    <3>3. ASSUME s \in slots PROVE \E i \in 1..j : s \in wire'[i].slots
      <4>1. j \in 1..j /\ s \in wire'[j].slots
        BY <1>a, <1>d, <2>1, <3>3
      <4> QED BY <4>1
    <3> QED BY <3>1, <3>2, <3>3
  <2>2. CASE j \in DOMAIN wire
    <3>1. Passed(wire[j].row, s, birth)
      BY <1>1, <1>3, <1>c, <2>2, PassedLess
    <3>2. \A i \in 1..j : i \in DOMAIN wire /\ wire'[i] = wire[i]
      BY <1>a, <1>c, <2>2
    <3> QED BY <1>1, <2>2, <3>1, <3>2 DEF Tracked
  <2> QED BY <1>a, <1>b, <2>1, <2>2
<1> QED BY <1>2, <1>3, <1>a DEF Tracked

(* The first write is through: its row counts and its slots are ready. *)
LEMMA TrackWritten ==
  ASSUME TypeOK, Shape, NoneLost, Written, NEW s \in Slots
  PROVE  Tracked(s)'
<1> DEFINE mine == Head(wire).slots
<1>1. Tracked(s)
  BY DEF NoneLost
<1>2. /\ wire # <<>> /\ wire' = Tail(wire) /\ store' = Head(wire).row
      /\ UNCHANGED <<policy, daemon, told, excused, todo, birth>>
      /\ timer' = IF Head(wire).after = "register" THEN Head(wire).row ELSE timer
      /\ ready' = IF Head(wire).after = "tell" THEN Append(ready, mine) ELSE ready
  BY DEF Written
<1>3. /\ InWire = InWire' \cup mine
      /\ Head(wire) = wire[1] /\ 1 \in DOMAIN wire
      /\ DOMAIN wire = 1..Len(wire) /\ Len(wire) \in Nat /\ DOMAIN wire' = 1..(Len(wire) - 1)
      /\ \A i \in DOMAIN wire' : wire'[i] = wire[i + 1] /\ i + 1 \in DOMAIN wire
  BY <1>2, WireTaken
<1>4. mine \in SUBSET Slots /\ (Head(wire).after # "tell" => mine = {})
  BY <1>3, WireRows DEF Writes, Shape, SlotsTold
<1>5. InReady' = InReady \cup mine
  <2>1. CASE Head(wire).after = "tell"
    BY <1>2, <1>4, <2>1, ReadyAdded
  <2>2. CASE Head(wire).after # "tell"
    BY <1>2, <1>4, <2>2 DEF InReady
  <2> QED BY <2>1, <2>2
<1>6. (Safe(s) => Safe(s)') /\ (s \in mine => Safe(s)')
  BY <1>2, <1>3, <1>5 DEF Safe, Done, Held
<1>7. Passed(Head(wire).row, s, birth) => Safe(s)'
  <2>1. Passed(wire[1].row, s, birth) => Safe(s) \/ \E i \in 1..1 : s \in wire[i].slots
    BY <1>1, <1>3 DEF Tracked
  <2> QED BY <1>3, <1>6, <2>1
<1>8. Passed(timer', s, birth) => Safe(s)' \/ s \in InWire'
  BY <1>1, <1>2, <1>3, <1>6, <1>7 DEF Tracked
<1>9. ASSUME NEW j \in DOMAIN wire', Passed(wire'[j].row, s, birth)
      PROVE  Safe(s)' \/ \E i \in 1..j : s \in wire'[i].slots
  <2>1. j + 1 \in DOMAIN wire /\ wire'[j] = wire[j + 1]
    BY <1>3
  <2>2. CASE Safe(s)
    BY <1>6, <2>2
  <2>3. CASE \E i \in 1..(j + 1) : s \in wire[i].slots
    <3>1. PICK i \in 1..(j + 1) : s \in wire[i].slots
      BY <2>3
    <3>2. CASE i = 1
      BY <1>3, <1>6, <3>1, <3>2
    <3>3. CASE i # 1
      <4>1. i - 1 \in 1..j /\ i - 1 \in DOMAIN wire' /\ wire'[i - 1] = wire[i]
        BY <1>3, <3>1, <3>3
      <4> QED BY <3>1, <4>1
    <3> QED BY <3>2, <3>3
  <2> QED BY <1>1, <1>9, <2>1, <2>2, <2>3 DEF Tracked
<1> QED BY <1>2, <1>7, <1>8, <1>9 DEF Tracked

(* It is rejected: the slots that waited for it are given up. *)
LEMMA TrackWriteFails ==
  ASSUME TypeOK, NoneLost, WriteFails, NEW s \in Slots
  PROVE  Tracked(s)'
<1> DEFINE mine == Head(wire).slots
<1>1. Tracked(s)
  BY DEF NoneLost
<1>2. /\ wire # <<>> /\ wire' = Tail(wire) /\ store' \in {store, Head(wire).row}
      /\ UNCHANGED <<policy, daemon, timer, ready, told, birth>>
      /\ excused' = excused \cup mine \cup todo
  BY DEF WriteFails
<1>3. /\ InWire = InWire' \cup mine
      /\ Head(wire) = wire[1] /\ 1 \in DOMAIN wire
      /\ DOMAIN wire = 1..Len(wire) /\ Len(wire) \in Nat /\ DOMAIN wire' = 1..(Len(wire) - 1)
      /\ \A i \in DOMAIN wire' : wire'[i] = wire[i + 1] /\ i + 1 \in DOMAIN wire
  BY <1>2, WireTaken
<1>4. InReady' = InReady
  BY <1>2 DEF InReady
<1>5. (Safe(s) => Safe(s)') /\ (s \in mine => Safe(s)')
  BY <1>2, <1>3, <1>4 DEF Safe, Done, Held
<1>6. Passed(Head(wire).row, s, birth) => Safe(s)'
  <2>1. Passed(wire[1].row, s, birth) => Safe(s) \/ \E i \in 1..1 : s \in wire[i].slots
    BY <1>1, <1>3 DEF Tracked
  <2> QED BY <1>3, <1>5, <2>1
<1>7. Passed(timer, s, birth) => Safe(s)' \/ s \in InWire'
  BY <1>1, <1>3, <1>5 DEF Tracked
<1>8. ASSUME NEW j \in DOMAIN wire', Passed(wire'[j].row, s, birth)
      PROVE  Safe(s)' \/ \E i \in 1..j : s \in wire'[i].slots
  <2>1. j + 1 \in DOMAIN wire /\ wire'[j] = wire[j + 1]
    BY <1>3
  <2>2. CASE Safe(s)
    BY <1>5, <2>2
  <2>3. CASE \E i \in 1..(j + 1) : s \in wire[i].slots
    <3>1. PICK i \in 1..(j + 1) : s \in wire[i].slots
      BY <2>3
    <3>2. CASE i = 1
      BY <1>3, <1>5, <3>1, <3>2
    <3>3. CASE i # 1
      <4>1. i - 1 \in 1..j /\ i - 1 \in DOMAIN wire' /\ wire'[i - 1] = wire[i]
        BY <1>3, <3>1, <3>3
      <4> QED BY <3>1, <4>1
    <3> QED BY <3>2, <3>3
  <2> QED BY <1>1, <1>8, <2>1, <2>2, <2>3 DEF Tracked
<1> QED BY <1>1, <1>2, <1>5, <1>6, <1>7, <1>8 DEF Tracked

LEMMA TrackQuiet ==
  ASSUME NoneLost, UNCHANGED <<store, wire, timer, birth>>, NEW s \in Slots,
         Safe(s) => Safe(s)'
  PROVE  Tracked(s)'
<1>1. InWire' = InWire /\ Tracked(s)
  BY DEF InWire, NoneLost
<1> QED BY <1>1 DEF Tracked

LEMMA TrackTell ==
  ASSUME TypeOK, NoneLost, Tell \/ TellFails, NEW s \in Slots
  PROVE  Tracked(s)'
<1>1. /\ ready # <<>> /\ ready' = Tail(ready)
      /\ UNCHANGED <<policy, daemon, store, wire, timer, todo, birth>>
  BY DEF Tell, TellFails
<1>2. InReady = InReady' \cup Head(ready) /\ InWire' = InWire
  BY <1>1, ReadyTaken DEF InWire
<1>3. told[s] \in Nat
  BY DEF TypeOK
<1>4. s \in Head(ready) => told'[s] > 0 \/ s \in excused'
  BY <1>3 DEF Tell, TellFails
<1>5. Done(s) => Done(s)'
  BY <1>3 DEF Tell, TellFails, Done
<1>6. Safe(s) => Safe(s)'
  BY <1>1, <1>2, <1>4, <1>5 DEF Safe, Done, Held
<1> QED BY <1>1, <1>6, TrackQuiet

LEMMA TrackRegister ==
  ASSUME CronAssumption, TypeOK, TypeOK', Past, NoneLost, RegisterKnown \/ RegisterFresh,
         NEW s \in Slots
  PROVE  Tracked(s)'
<1>1. PICK row \in Rows :
           /\ Send(row, "register", {}) /\ wire = <<>> /\ timer = None
           /\ daemon \in {"booting", "up"}
           /\ UNCHANGED <<policy, daemon, timer, store, ready, todo, told, excused>>
           /\ \/ row = store /\ UNCHANGED birth
              \/ birth' = now /\ row.next = NextSlot(now)
  BY RegisterKinds
<1>2. Tracked(s) /\ s \in Nat /\ birth \in Nat /\ now \in Times /\ now \in Nat /\ birth <= now
  BY SlotsNat DEF NoneLost, TypeOK, Past
<1>3. Safe(s) => Safe(s)'
  <2>1. InReady' = InReady
    BY <1>1 DEF InReady
  <2> QED BY <1>1, <2>1 DEF Safe, Done, Held
<1>4. Passed(row, s, birth') => Safe(s)'
  <2>1. CASE row = store /\ UNCHANGED birth
    BY <1>2, <1>3, <2>1 DEF Tracked
  <2>2. CASE birth' = now /\ row.next = NextSlot(now)
    BY <1>2, <2>2, NextSlotFirst DEF Passed
  <2> QED BY <1>1, <2>1, <2>2
<1>5. ~Passed(timer', s, birth')
  BY <1>1 DEF Passed
<1>6. {} \in SUBSET Slots /\ "register" \in {"done", "tell", "register", "pause"}
      /\ row \in Rows \cup {None} /\ birth <= birth'
  BY <1>1, <1>2
<1> QED BY <1>1, <1>3, <1>4, <1>5, <1>6, TrackSend

(* computeMissedSlots looks no later than the next slot of the row. *)
LEMMA AfterLast ==
  ASSUME CronAssumption, NEW row \in Rows, NEW t \in Nat, Ordered(row, t),
         NEW s \in Nat, s >= row.next, row.next <= t
  PROVE  s >= After(row) /\ (After(row) < t \/ row.last = None)
<1>1. row.next \in Nat /\ row # None /\ (row.last = None \/ row.last \in Nat)
  BY RowFields, SlotsNat
<1> QED BY <1>1 DEF After, Ordered

(* Whatever an overdue timer has missed is fired, set aside for catchup, or
   given up by the policy or the window. *)
LEMMA TrackStart ==
  ASSUME CronAssumption, TypeOK, TypeOK', Shape, Past, NoneLost, Start, NEW s \in Slots
  PROVE  Tracked(s)'
<1>0. /\ wire = <<>> /\ UNCHANGED <<store, told, ready, birth>> /\ todo = {} /\ InWire = {}
      /\ daemon = "booting" /\ daemon' = "replaying" /\ UNCHANGED policy
      /\ s \in Nat /\ now \in Times /\ now \in Nat
  BY StartKinds, SlotsNat DEF Shape, CatchUpOnly, InWire, TypeOK
<1>1. Passed(StartRow, s, birth) => Safe(s)
  BY <1>0 DEF NoneLost, Tracked, StartRow
<1>2. ASSUME excused \subseteq excused', Safe(s) PROVE Safe(s)'
  <2>1. InReady' = InReady
    BY <1>0 DEF InReady
  <2> QED BY <1>0, <1>2, <2>1 DEF Safe, Done, Held
<1>3. CASE ~Overdue
  <2>1. timer' = StartRow /\ UNCHANGED <<wire, excused>>
    BY <1>3, StartKinds
  <2>2. Tracked(s) /\ InWire' = InWire
    BY <2>1 DEF NoneLost, InWire
  <2> QED BY <1>0, <1>1, <1>2, <2>1, <2>2 DEF Tracked
<1>4. CASE Overdue
  <2> DEFINE row    == StartRow
             missed == Missed(row)
  <2>1. /\ row \in Rows /\ row.next \in Nat /\ row.last \in Times \cup {None} /\ row.next <= now
        /\ Ordered(row, now)
    BY <1>4, RowFields DEF Overdue, StartRow, TypeOK, Past
  <2>2. PICK slots \in SUBSET missed, rest \in SUBSET missed :
             /\ \/ /\ Send(timer', "done", slots) /\ timer' = PastOf(row)
                   /\ missed \subseteq excused'
                \/ /\ slots \cup rest = missed /\ Send(timer', "tell", slots)
                   /\ \/ timer' = FiredOf(row)
                      \/ timer' = [PastOf(row) EXCEPT !.last = Max(missed)]
                   /\ rest = {} \/ todo' = rest
             /\ excused \cup TooOld(row) \subseteq excused' /\ timer' \in Rows
    <3>1. ApplyMissedPolicy(row)
      BY <1>4, StartKinds
    <3> QED BY <2>1, <3>1, ApplyKinds
  <2>3. timer'.next = NextSlot(now)
    BY <2>1, <2>2 DEF PastOf, FiredOf, Rows
  <2>4. ASSUME Passed(timer', s, birth) PROVE Safe(s)' \/ s \in slots
    <3>1. birth < s /\ s <= now
      BY <1>0, <2>3, <2>4, NextSlotFirst DEF Passed
    <3>2. CASE s < row.next
      <4>1. Passed(row, s, birth)
        BY <2>1, <3>1, <3>2, RowsNone DEF Passed
      <4> QED BY <1>1, <1>2, <2>2, <4>1
    <3>3. CASE s >= row.next
      <4>1. s >= After(row) /\ (After(row) < now \/ row.last = None)
        BY <1>0, <2>1, <3>3, AfterLast
      <4>2. s \in TooOld(row) \/ s \in missed
        BY <1>0, <3>1, <4>1 DEF TooOld, Missed, CronAssumption
      <4>3. CASE s \in TooOld(row)
        BY <2>2, <4>3 DEF Safe, Done
      <4>4. CASE s \in missed
        BY <2>2, <4>4 DEF Safe, Done, Held
      <4> QED BY <4>2, <4>3, <4>4
    <3> QED BY <1>0, <2>1, <3>2, <3>3
  <2>5. slots \in SUBSET Slots /\ timer' \in Rows \cup {None}
    BY <2>1, <2>2, MissedPast
  <2>6. PICK after \in {"done", "tell"} : Send(timer', after, slots)
    BY <2>2
  <2>7. after \in {"done", "tell", "register", "pause"} /\ birth <= birth'
    BY <1>0, <2>6, SlotsNat DEF TypeOK
  <2> HIDE DEF row, missed
  <2> QED BY <1>0, <1>2, <2>2, <2>4, <2>5, <2>6, <2>7, TrackSend
<1> QED BY <1>3, <1>4

(* The check interval fires the timer's next slot and gives up those between it
   and now; catchup takes from what was set aside. *)
LEMMA TrackFires ==
  ASSUME CronAssumption, TypeOK, TypeOK', NoneLost, NEW slots \in SUBSET Slots,
         CatchesUp(slots) \/ Checks(slots), NEW s \in Slots
  PROVE  Tracked(s)'
<1>1. PICK at \in {asOf, now} : Fires(at, slots)
  BY DEF CatchesUp, Checks
<1>2. /\ Send(timer', "tell", slots) /\ timer' \in Rows \cup {None} /\ timer # None
      /\ timer'.next = NextSlot(at)
      /\ UNCHANGED <<policy, daemon, store, ready, told, birth>>
  BY <1>1 DEF Fires
<1>3. /\ Tracked(s) /\ s \in Nat /\ now \in Times /\ now \in Nat /\ birth <= birth'
      /\ "tell" \in {"done", "tell", "register", "pause"}
  <2>1. s \in Nat /\ now \in Times /\ now \in Nat /\ birth \in Nat
    BY SlotsNat DEF TypeOK
  <2> QED BY <1>2, <2>1 DEF NoneLost
<1>4. InReady' = InReady /\ InWire' = InWire \cup slots
  BY <1>2, <1>3, WireSent DEF InReady
<1>5. CASE CatchesUp(slots)
  <2>1. /\ todo' = todo \ slots /\ daemon = "replaying" /\ policy = "catchup"
        /\ timer.next = NextSlot(asOf) /\ Fires(asOf, slots) /\ UNCHANGED excused
    BY <1>5 DEF CatchesUp
  <2>2. Safe(s) => Safe(s)'
    BY <1>2, <1>4, <2>1 DEF Safe, Done, Held
  <2>3. Passed(timer', s, birth) => Passed(timer, s, birth)
    BY <1>2, <2>1 DEF Passed, Fires
  <2> QED BY <1>2, <1>3, <2>2, <2>3, TrackSend DEF Tracked
<1>6. CASE Checks(slots)
  <2>1. /\ UNCHANGED todo /\ daemon = "up" /\ timer'.next = NextSlot(now)
        /\ slots = {timer.next} /\ excused' = excused \cup PassedOver
    BY <1>6 DEF Checks, Fires
  <2>2. Safe(s) => Safe(s)'
    BY <1>2, <1>4, <2>1 DEF Safe, Done, Held
  <2>3. timer.next \in Nat
    BY <1>2, RowFields DEF TypeOK
  <2>4. ASSUME Passed(timer', s, birth) PROVE Safe(s)' \/ s \in InWire \cup slots
    <3>1. birth < s /\ s <= now
      BY <1>3, <2>1, <2>4, NextSlotFirst DEF Passed
    <3>2. CASE s < timer.next
      <4>1. Passed(timer, s, birth)
        BY <1>2, <3>1, <3>2 DEF Passed
      <4> QED BY <1>3, <2>2, <4>1 DEF Tracked
    <3>3. CASE s = timer.next
      BY <2>1, <3>3
    <3>4. CASE timer.next < s
      BY <2>1, <3>1, <3>4 DEF PassedOver, Safe, Done
    <3> QED BY <1>3, <2>3, <3>2, <3>3, <3>4
  <2> QED BY <1>2, <1>3, <2>2, <2>4, TrackSend
<1> QED BY <1>5, <1>6

LEMMA TrackStep ==
  ASSUME CronAssumption, TypeOK, Shape, Past, NoneLost, [Next]_vars
  PROVE  NoneLost'
<1> SUFFICES ASSUME NEW s \in Slots PROVE Tracked(s)'
  BY DEF NoneLost
<1>0. TypeOK' /\ {} \in SUBSET Slots /\ None \in Rows \cup {None}
  BY TypeStep
<1>1. CASE Written
  BY <1>1, TrackWritten
<1>2. CASE WriteFails
  BY <1>2, TrackWriteFails
<1>3. CASE Tell \/ TellFails
  BY <1>3, TrackTell
<1>4. CASE RegisterKnown \/ RegisterFresh
  BY <1>0, <1>4, TrackRegister
<1>5. CASE Start
  BY <1>0, <1>5, TrackStart
<1>6. ASSUME NEW slots \in SUBSET Slots, CatchesUp(slots) \/ Checks(slots) PROVE Tracked(s)'
  BY <1>0, <1>6, TrackFires
<1>7. CASE Copies \/ Removes
  <2>1. /\ daemon # "replaying" /\ daemon' # "replaying"
        /\ UNCHANGED <<store, ready, todo, told, excused, birth>>
    BY <1>7 DEF Copies, Removes
  <2>2. Tracked(s) /\ InReady' = InReady /\ birth <= birth'
    BY <2>1, SlotsNat DEF NoneLost, InReady, TypeOK
  <2>3. PICK after \in {"done", "pause"} :
             /\ Send(timer', after, {}) /\ timer' \in Rows \cup {None}
             /\ timer' = None \/ (timer # None /\ timer'.next = timer.next)
    BY <1>7 DEF Copies, Removes
  <2>4. Safe(s) => Safe(s)'
    BY <2>1, <2>2 DEF Safe, Done, Held
  <2>5. Passed(timer', s, birth) => Passed(timer, s, birth)
    BY <2>3 DEF Passed
  <2>6. after \in {"done", "tell", "register", "pause"}
    BY <2>3
  <2> QED BY <1>0, <2>1, <2>2, <2>3, <2>4, <2>5, <2>6, TrackSend DEF Tracked
<1>8. CASE Still
  <2>1. /\ UNCHANGED <<policy, store, wire, timer, ready, todo, told, excused, birth>>
        /\ \/ UNCHANGED daemon
           \/ wire = <<>>
           \/ daemon # "replaying" /\ daemon' # "replaying"
    BY <1>8 DEF Still
  <2>2. InReady' = InReady /\ InWire' = InWire /\ (wire = <<>> => InWire = {})
    BY <2>1 DEF InReady, InWire
  <2>3. Safe(s) => Safe(s)'
    BY <2>1, <2>2 DEF Safe, Done, Held
  <2> QED BY <2>1, <2>3, TrackQuiet
<1>9. CASE Ends
  <2>1. /\ timer' = None /\ wire' = <<>> /\ UNCHANGED <<store, told, birth>>
        /\ excused' = excused \cup Held
    BY <1>9 DEF Ends
  <2>2. Safe(s) => Safe(s)'
    BY <2>1 DEF Safe, Done
  <2> QED BY <2>1, <2>2 DEF NoneLost, Tracked, Passed
<1> QED BY <1>1, <1>2, <1>3, <1>4, <1>5, <1>6, <1>7, <1>8, <1>9, StepKinds

(* When the manager runs and nothing is under way, each slot its schedule has
   passed was told or given up: by the policy, the window, a late check, or a
   fault that hit its own fire or the catchup it was to come in. *)
THEOREM CronAccounted == ASSUME CronAssumption PROVE Spec => []Accounted
<1>1. Init => NoneLost
  BY DEF Init, NoneLost, Tracked, Passed
<1>2. TypeOK /\ Shape /\ Past /\ NoneLost /\ [Next]_vars => NoneLost'
  BY TrackStep
<1>3. Shape /\ NoneLost => Accounted
  <2> SUFFICES ASSUME Shape, NoneLost, Quiet, NEW s \in Slots, birth < s, s < timer.next
               PROVE  told[s] > 0 \/ s \in excused
    BY DEF Accounted
  <2>1. todo = {} /\ InReady = {} /\ InWire = {} /\ daemon = "up" /\ timer # None
    BY DEF Quiet, Shape, CatchUpOnly, InReady, InWire
  <2>2. Safe(s) /\ Held = {}
    BY <2>1 DEF NoneLost, Tracked, Passed, Held
  <2> QED BY <2>2 DEF Safe, Done
<1> QED BY <1>1, <1>2, <1>3, CronSound, PTL DEF Spec

=============================================================================
