------------------------------ MODULE CronTimers ------------------------------
(***************************************************************************)
(* One timer of the CronManager (packages/cron/src/cron-manager.ts): its   *)
(* registration, the interval check, pausing, and the onMissed policy that *)
(* start() applies to the slots the daemon was down for. Timers share no   *)
(* state; each has its own row of the key-value store.                     *)
(*                                                                         *)
(* Writes go to the store over one connection, in order, and every handler *)
(* awaits its own: `wire` holds the writes under way with what follows     *)
(* each. A slot is told when its signal is published or, under the policy  *)
(* manual, when it is reported as pending.                                 *)
(***************************************************************************)
EXTENDS Integers, Sequences, FiniteSetsExt

CONSTANTS
  Period,      \* the schedule fires at the multiples of Period
  Window,      \* missedWindowMs
  Policies,    \* the onMissed policies this timer may have
  Horizon,     \* bound: the last instant
  MaxWire,     \* bound: writes under way
  MaxFaults,   \* bound: crashes, failed writes and failed publishes
  MaxStops,    \* bound: graceful shutdowns
  MaxEdits,    \* bound: edits of workspace.yml
  None

Times == 0..Horizon
Rows  == [next : {k * Period : k \in 1..(Horizon \div Period + 1)},
          last : Times \cup {None}, paused : BOOLEAN]

ASSUME CronAssumption ==
  /\ Period \in Nat \ {0}
  /\ Window \in Nat \ {0}
  /\ {Horizon, MaxWire, MaxFaults, MaxStops, MaxEdits} \subseteq Nat
  /\ Policies \subseteq {"skip", "coalesce", "catchup", "manual"} /\ Policies # {}
  /\ None \notin Nat \cup Rows

VARIABLES
  now,
  policy,
  daemon,    \* "down", "booting", "replaying", "up", "stopping", "closing"
  timer,     \* the entry of `timers`, or None
  store,     \* its row, or None
  wire,      \* writes under way: the row (None deletes), what follows, its slots
  ready,     \* slots whose row is written and whose signal is not yet out
  todo,      \* slots catchup has still to fire
  asOf,      \* the `now` of start()
  told,      \* how often each slot was fired or reported
  excused,   \* slots given up: by the policy, the window, a late check or a fault
  lasts,     \* the slots that were a lastExecution
  birth,     \* since when the schedule of `timer` counts
  wanted,    \* the last pause or resume that was acknowledged
  faults, stops, edits

disk   == <<store, wire, ready>>
ghosts == <<told, excused, lasts, birth, wanted>>
bounds == <<faults, stops, edits>>
vars   == <<now, policy, daemon, timer, disk, todo, asOf, ghosts, bounds>>

Slots == {s \in 1..Horizon : s % Period = 0}

NextMinute(t) == t + 1   \* mutant of NextSlot: the schedule is not looked at

(* expr.next(): the first slot after t. *)
NextSlot(t) == (t \div Period + 1) * Period

Init ==
  /\ now = 0 /\ policy \in Policies /\ daemon = "down"
  /\ timer = None /\ store = None /\ wire = <<>> /\ ready = <<>>
  /\ todo = {} /\ asOf = 0
  /\ told = [s \in Slots |-> 0] /\ excused = {} /\ lasts = {} /\ birth = 0
  /\ wanted = FALSE
  /\ faults = 0 /\ stops = 0 /\ edits = 0

-----------------------------------------------------------------------------
(* Writing and telling.                                                    *)

Send(row, after, slots) == wire' = Append(wire, [row |-> row, after |-> after, slots |-> slots])

FireUnpersisted(row, slots) ==   \* mutant of Fire: the signal does not wait for the row
  /\ timer' = row
  /\ lasts' = lasts \cup ({row.last} \cap Slots)
  /\ Send(row, "done", {})
  /\ ready' = Append(ready, slots)

(* fireOnce, and the report of manual: the row is written first. *)
Fire(row, slots) ==
  /\ timer' = row
  /\ lasts' = lasts \cup ({row.last} \cap Slots)
  /\ Send(row, "tell", slots)
  /\ UNCHANGED ready

(* The write is acknowledged and its handler goes on. *)
Written ==
  LET w == Head(wire) IN
  /\ daemon # "down" /\ wire # <<>>
  /\ wire' = Tail(wire)
  /\ store' = w.row
  /\ ready' = IF w.after = "tell" THEN Append(ready, w.slots) ELSE ready
  /\ timer' = IF w.after = "register" THEN w.row ELSE timer
  /\ wanted' = IF w.after = "pause" THEN w.row.paused ELSE wanted
  /\ UNCHANGED <<now, policy, daemon, todo, asOf, told, excused, lasts, birth, bounds>>

(* It rejects, whether the row was written or not: what it was for is not
   done, and applyMissedPolicy is left with its remaining slots. *)
WriteFails ==
  LET w == Head(wire) IN
  /\ daemon # "down" /\ wire # <<>> /\ faults < MaxFaults
  /\ faults' = faults + 1
  /\ wire' = Tail(wire)
  /\ store' \in {store, w.row}
  /\ excused' = excused \cup w.slots \cup todo
  /\ todo' = {}
  /\ wanted' = IF w.after = "pause" THEN None ELSE wanted
  /\ UNCHANGED <<now, policy, daemon, timer, ready, asOf, told, lasts, birth, stops, edits>>

(* The signal or the report is published. *)
Tell ==
  /\ daemon # "down" /\ ready # <<>>
  /\ ready' = Tail(ready)
  /\ told' = [s \in Slots |-> IF s \in Head(ready) THEN told[s] + 1 ELSE told[s]]
  /\ UNCHANGED <<now, policy, daemon, timer, store, wire, todo, asOf, excused, lasts, birth,
                 wanted, bounds>>

(* The callback or the notifier throws: logged, and the slot is gone. *)
TellFails ==
  /\ daemon # "down" /\ ready # <<>> /\ faults < MaxFaults
  /\ faults' = faults + 1
  /\ ready' = Tail(ready)
  /\ excused' = excused \cup Head(ready)
  /\ UNCHANGED <<now, policy, daemon, timer, store, wire, todo, asOf, told, lasts, birth,
                 wanted, stops, edits>>

-----------------------------------------------------------------------------
(* Starting: registration, then the missed slots.                          *)

Boot ==
  /\ daemon = "down" /\ daemon' = "booting"
  /\ UNCHANGED <<now, policy, timer, disk, todo, asOf, ghosts, bounds>>

Recomputed(row) == [row EXCEPT !.next = NextSlot(now)]   \* mutant of Carried

(* The row of the previous run, with its slot still due. *)
Carried(row) == row

Fresh == [next |-> NextSlot(now), last |-> None, paused |-> FALSE]

(* registerTimer: for a signal without a timer in memory, at boot and after an
   edit. Its read is answered after the writes before it. *)
Register(row) ==
  /\ daemon \in {"booting", "up"}
  /\ timer = None /\ wire = <<>>
  /\ Send(row, "register", {})
  /\ UNCHANGED <<now, policy, daemon, timer, store, ready, todo, asOf, told, excused, lasts,
                 wanted, bounds>>

RegisterKnown == store # None /\ Register(Carried(store)) /\ UNCHANGED birth

(* Nothing is stored, or the schedule was edited: it counts from now on. *)
RegisterFresh ==
  /\ Register(IF store = None THEN Fresh ELSE [store EXCEPT !.next = NextSlot(now)])
  /\ birth' = now

(* computeMissedSlots looks from lastExecution on, that slot included, but not
   further back than the window. *)
After(row)  == IF row.last = None THEN row.next ELSE row.last
Missed(row) == {s \in Slots : /\ s >= After(row) /\ s >= now - Window /\ s <= now
                              /\ After(row) < now \/ row.last = None}
TooOld(row) == {s \in Slots : s >= After(row) /\ s < now - Window}

(* What lies in the past and is to be told: applyMissedPolicy. *)
ApplyMissedPolicy(row) ==
  LET missed == Missed(row)
      past   == [row EXCEPT !.next = NextSlot(now)]
      fired  == [past EXCEPT !.last = now]
  IN
  \/ /\ policy = "skip" \/ missed = {}
     /\ timer' = past /\ Send(past, "done", {})
     /\ excused' = excused \cup TooOld(row) \cup missed
     /\ UNCHANGED <<ready, todo, lasts>>
  \/ /\ policy = "coalesce" /\ missed # {}
     /\ Fire(fired, missed)
     /\ excused' = excused \cup TooOld(row) /\ UNCHANGED todo
  \/ /\ policy = "catchup" /\ missed # {}
     /\ Fire(fired, {Min(missed)})
     /\ todo' = missed \ {Min(missed)}
     /\ excused' = excused \cup TooOld(row)
  \/ /\ policy = "manual" /\ missed # {}
     /\ Fire([past EXCEPT !.last = Max(missed)], missed)
     /\ excused' = excused \cup TooOld(row) /\ UNCHANGED todo

(* start(): load the rows, then apply the policy to an overdue timer. *)
Start ==
  LET row == IF store = None THEN timer ELSE store IN
  /\ daemon = "booting" /\ wire = <<>>
  /\ daemon' = "replaying" /\ asOf' = now
  /\ IF row # None /\ ~row.paused /\ row.next <= now
     THEN ApplyMissedPolicy(row)
     ELSE timer' = row /\ UNCHANGED <<wire, ready, todo, excused, lasts>>
  /\ UNCHANGED <<now, policy, store, told, birth, wanted, bounds>>

(* catchup awaits each slot before the next; all are fired as of start(). *)
CatchUp ==
  /\ daemon = "replaying" /\ todo # {} /\ wire = <<>> /\ ready = <<>>
  /\ todo' = todo \ {Min(todo)}
  /\ Fire([timer EXCEPT !.next = NextSlot(asOf), !.last = asOf], {Min(todo)})
  /\ UNCHANGED <<now, policy, daemon, store, asOf, told, excused, birth, wanted, bounds>>

(* startTimerCheckInterval *)
Started ==
  /\ daemon = "replaying" /\ todo = {} /\ wire = <<>> /\ ready = <<>>
  /\ daemon' = "up"
  /\ UNCHANGED <<now, policy, timer, disk, todo, asOf, ghosts, bounds>>

-----------------------------------------------------------------------------
(* Running.                                                                *)

(* After a pause, a sleep of the machine or a slow loop several slots have come due. *)
PassedOver == {s \in Slots : timer.next < s /\ s <= now}

(* checkTimers and executeTimer, "coalesce to one": the signal is that of the slot
   the timer was set for; those after it go untold, whatever the policy. *)
Check ==
  /\ daemon = "up" /\ timer # None /\ Len(wire) < MaxWire
  /\ ~timer.paused /\ timer.next <= now
  /\ Fire([timer EXCEPT !.next = NextSlot(now), !.last = now], {timer.next})
  /\ excused' = excused \cup PassedOver
  /\ UNCHANGED <<now, policy, daemon, store, todo, asOf, told, birth, wanted, bounds>>

SetInMemory(p) ==   \* mutant of SetTimerPaused: the row is not written
  /\ daemon = "up" /\ timer # None /\ timer.paused # p
  /\ timer' = [timer EXCEPT !.paused = p]
  /\ UNCHANGED <<now, policy, daemon, disk, todo, asOf, ghosts, bounds>>

SetTimerPaused(p) ==
  /\ daemon = "up" /\ timer # None /\ timer.paused # p /\ Len(wire) < MaxWire
  /\ timer' = [timer EXCEPT !.paused = p]
  /\ Send([timer EXCEPT !.paused = p], "pause", {})
  /\ UNCHANGED <<now, policy, daemon, store, ready, todo, asOf, ghosts, bounds>>

(* unregisterTimer; the registrar's registerTimer follows as Register. *)
Unregister ==
  /\ timer' = None
  /\ IF timer = None THEN UNCHANGED wire ELSE Send(None, "done", {})
  /\ UNCHANGED <<now, policy, store, ready, todo, asOf, ghosts>>

EditWorkspace ==
  /\ daemon = "up" /\ timer # None /\ Len(wire) < MaxWire /\ edits < MaxEdits
  /\ edits' = edits + 1
  /\ Unregister
  /\ UNCHANGED <<daemon, faults, stops>>

-----------------------------------------------------------------------------
(* Stopping.                                                               *)

(* CronManager.shutdown: no further check, the row is written once more. *)
Shutdown ==
  /\ daemon = "up" /\ stops < MaxStops
  /\ daemon' = "stopping" /\ stops' = stops + 1
  /\ IF timer = None THEN UNCHANGED wire ELSE Send(timer, "done", {})
  /\ UNCHANGED <<now, policy, timer, store, ready, todo, asOf, ghosts, faults, edits>>

(* WorkspaceManager.close, in the daemon's last phase, unregisters every
   workspace with its registrars. *)
CloseWorkspaces ==
  /\ daemon = "stopping" /\ daemon' = "closing"
  /\ Unregister
  /\ UNCHANGED bounds

(* What the process was about to tell and no row knows of any more: signals
   whose row is written, and the slots of a catchup, whose first fire has moved
   the row past all of them. *)
InReady == UNION {ready[i] : i \in DOMAIN ready}
InWire  == UNION {wire[i].slots : i \in DOMAIN wire}
Held    == todo \cup InReady
             \cup (IF daemon = "replaying" /\ policy = "catchup" THEN InWire ELSE {})

Ends ==
  /\ daemon' = "down"
  /\ timer' = None /\ wire' = <<>> /\ ready' = <<>> /\ todo' = {}
  /\ excused' = excused \cup Held
  /\ UNCHANGED <<now, policy, store, asOf, told, lasts, birth, wanted>>

Exit == daemon = "closing" /\ Ends /\ UNCHANGED bounds

Crash ==
  /\ daemon # "down" /\ faults < MaxFaults
  /\ faults' = faults + 1
  /\ Ends /\ UNCHANGED <<stops, edits>>

Tick ==
  /\ now < Horizon /\ now' = now + 1
  /\ UNCHANGED <<policy, daemon, timer, disk, todo, asOf, ghosts, bounds>>

Next ==
  \/ Written \/ WriteFails \/ Tell \/ TellFails
  \/ Boot \/ RegisterKnown \/ RegisterFresh \/ Start \/ CatchUp \/ Started
  \/ Check \/ EditWorkspace \/ \E p \in BOOLEAN : SetTimerPaused(p)
  \/ Shutdown \/ CloseWorkspaces \/ Exit \/ Crash \/ Tick

Spec == Init /\ [][Next]_vars

-----------------------------------------------------------------------------

(* Every variable keeps to its domain; a timer's next execution is a slot of
   its schedule (cron-manager.ts). *)
TypeOK ==
  /\ now \in Times /\ asOf \in Times /\ birth \in Times
  /\ policy \in Policies
  /\ daemon \in {"down", "booting", "replaying", "up", "stopping", "closing"}
  /\ timer \in Rows \cup {None} /\ store \in Rows \cup {None}
  /\ wire \in Seq([row : Rows \cup {None}, after : {"done", "tell", "register", "pause"},
                   slots : SUBSET Slots])
  /\ ready \in Seq(SUBSET Slots)
  /\ todo \subseteq Slots /\ excused \subseteq Slots /\ lasts \subseteq Slots
  /\ told \in [Slots -> Nat]
  /\ wanted \in BOOLEAN \cup {None}
  /\ faults \in 0..MaxFaults /\ stops \in 0..MaxStops /\ edits \in 0..MaxEdits

Quiet == daemon = "up" /\ wire = <<>> /\ ready = <<>> /\ timer # None

(* Through crashes, lost writes and restarts a slot is fired or reported twice
   only when it was itself the lastExecution: computeMissedSlots takes that
   instant in, so that manual reports its last slot again and a fire that fell
   on its very slot is made up for. *)
ToldOnce == \A s \in Slots : told[s] > 1 => s \in lasts

(* A slot is lost in known ways only: when the manager runs and nothing is under
   way, every slot the schedule has passed was told, or given up by the policy or
   the window; by a check that came late and fired the first of several due slots,
   as the doc of checkTimers says; by a crash or failure that hit the slot's own
   fire, or an earlier fire of the catchup whose remainder it was. *)
Accounted ==
  Quiet => \A s \in Slots : birth < s /\ s < timer.next => told[s] > 0 \/ s \in excused

(* Once its writes are through, the row is what memory says, so that a crash
   at rest loses nothing: no two handlers' writes overtake each other. *)
StoreAgrees == Quiet /\ faults = 0 => store = timer

(* The doc of registerTimer: "Persisted runtime state (`nextExecution`,
   `lastExecution`, `paused`) is preserved on re-registration". A timer the
   operator paused is paused until it is resumed. *)
PauseSurvives == Quiet /\ faults = 0 => timer.paused = wanted
=============================================================================
