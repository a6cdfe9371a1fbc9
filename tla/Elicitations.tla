---------------------------- MODULE Elicitations ----------------------------
(***************************************************************************)
(* One elicitation: its row in the key-value bucket and its reserve marker *)
(* (packages/core/src/elicitations/jetstream-adapter.ts), the answer and   *)
(* decline handlers (apps/atlasd/routes/elicitations/index.ts), the expiry *)
(* sweeper, the clean-up of a deleted workspace, and the blocked tool that *)
(* waits for the outcome                                                   *)
(* (packages/mcp-server/src/tools/elicitations/wait.ts).                   *)
(*                                                                         *)
(* Elicitations share no state. Every call to the store is one step; any   *)
(* other actor may step between two of them.                               *)
(***************************************************************************)
EXTENDS Integers, FiniteSets

CONSTANTS
  Reqs,       \* requests to answer or decline
  Sweeper,
  None,
  Kinds,      \* which kinds the elicitation may be of
  Deadline,   \* expiresAt
  Grace,      \* TERMINAL_ANSWER_GRACE_MS
  Horizon,    \* bound: the last instant
  MaxFaults,  \* bound: updates whose reply is lost
  MaxCrashes  \* bound: crashes of the daemon

ASSUME ElicitationAssumption ==
  /\ {Deadline, Grace, Horizon, MaxFaults, MaxCrashes} \subseteq Nat
  /\ Deadline <= Horizon
  /\ Sweeper \notin Reqs
  /\ None \notin Reqs \cup {Sweeper, "answered", "declined", "expired"}
  /\ Kinds \subseteq {"question", "env-write", "workspace-setup"}

VARIABLES
  now,
  kind,
  row,       \* the row: its status, revision, who settled it and when
  reserve,   \* the reserve marker: who created it, or None
  pc,        \* where each request and the sweeper are
  op,        \* what each request asks for
  seen,      \* the revision each has read
  applied,   \* what of its answer each request has written to disk
  deleter,   \* deletePendingByWorkspace: "idle", "found", "done"
  waiter,    \* "off", "subscribed", "waiting", "told", "dead"
  inbox,     \* the terminal envelope the subscription holds, or None
  told,      \* what the waiting tool was told, or None
  faults, crashes

work == <<pc, op, seen, applied>>
wait == <<waiter, inbox, told>>
bounds == <<faults, crashes>>
vars == <<now, kind, row, reserve, work, deleter, wait, bounds>>

Actors == Reqs \cup {Sweeper}
Verdicts == {"answered", "declined", "expired"}
Setup == kind = "workspace-setup"

Init ==
  /\ now = 0
  /\ kind \in Kinds
  /\ row = [status |-> "absent", rev |-> 0, by |-> None, at |-> 0]
  /\ reserve = None
  /\ pc = [a \in Actors |-> "idle"]
  /\ op = [a \in Actors |-> IF a = Sweeper THEN "expire" ELSE "none"]
  /\ seen = [a \in Actors |-> 0]
  /\ applied = [r \in Reqs |-> "no"]
  /\ deleter = "idle"
  /\ waiter = "off" /\ inbox = None /\ told = None
  /\ faults = 0 /\ crashes = 0

-----------------------------------------------------------------------------
Due == now >= Deadline

(* get(): a pending row past its deadline is shown as expired. *)
View ==
  IF row.status = "pending" /\ ~Setup /\ Due THEN "expired" ELSE row.status

Missing == row.status \in {"absent", "deleted"}

(* writeEnvelope; the pending envelope has no reader here. *)
Create ==
  /\ row.status = "absent"
  /\ row' = [row EXCEPT !.status = "pending", !.rev = 1]
  /\ UNCHANGED <<now, kind, reserve, work, deleter, wait, bounds>>

Goto(a, l) == pc' = [pc EXCEPT ![a] = l]

(* The writes of a confirmed answer come before it. *)
Commits(r) == op[r] = "answer" /\ kind # "question"

(* The handler's first read: 404, the pre-check, and where it goes next. *)
Receive(r, o) ==
  /\ pc[r] = "idle"
  /\ o = "deny" => kind = "env-write"
  /\ op' = [op EXCEPT ![r] = o]
  /\ Goto(r, IF Missing THEN "refused"
             ELSE IF o # "answer" \/ kind = "question" THEN "read"
             ELSE IF View # "pending" THEN "refused"
             ELSE IF Setup THEN "reserve" ELSE "commit")
  /\ UNCHANGED <<now, kind, row, reserve, seen, applied, deleter, wait, bounds>>

(* reserveForCommit reads the row again ... *)
ReserveCheck(r) ==
  /\ pc[r] = "reserve"
  /\ Goto(r, IF View = "pending" THEN "create" ELSE "refused")
  /\ UNCHANGED <<now, kind, row, reserve, op, seen, applied, deleter, wait, bounds>>

ReservePut(r) ==   \* mutant of ReserveCreate: put() where the code has create()
  /\ pc[r] = "create"
  /\ reserve' = r
  /\ Goto(r, "commit")
  /\ UNCHANGED <<now, kind, row, op, seen, applied, deleter, wait, bounds>>

(* ... and creates the marker, which nothing ever removes. *)
ReserveCreate(r) ==
  /\ pc[r] = "create"
  /\ IF reserve = None
     THEN reserve' = r /\ Goto(r, "commit")
     ELSE UNCHANGED reserve /\ Goto(r, "refused")
  /\ UNCHANGED <<now, kind, row, op, seen, applied, deleter, wait, bounds>>

(* The answer is written to disk: all of it; or nothing, when validation   *)
(* or the first write fails; or a part, when a later write fails.          *)
Commit(r) ==
  /\ pc[r] = "commit"
  /\ \E a \in {"no", "part", "all"} :
       /\ applied' = [applied EXCEPT ![r] = a]
       /\ Goto(r, IF a = "all" THEN "read" ELSE "refused")
  /\ UNCHANGED <<now, kind, row, reserve, op, seen, deleter, wait, bounds>>

(* transitionPending reads the row: it must be pending and, unless it is a *)
(* workspace-setup, not past its grace.                                    *)
ReadPending(r) ==
  /\ pc[r] = "read"
  /\ IF row.status = "pending" /\ (Setup \/ now <= Deadline + Grace)
     THEN seen' = [seen EXCEPT ![r] = row.rev] /\ Goto(r, "update")
     ELSE UNCHANGED seen /\ Goto(r, "refused")
  /\ UNCHANGED <<now, kind, row, reserve, op, applied, deleter, wait, bounds>>

Verdict(a) ==
  CASE op[a] \in {"answer", "deny"} -> "answered"
    [] op[a] = "decline" -> "declined"
    [] OTHER -> "expired"

AlwaysFits(a) == TRUE   \* mutant of Fits: put() where the code has update()

(* kv.update takes the write of who has read the latest revision. *)
Fits(a) == row.rev = seen[a]

Settle(a) ==
  row' = [status |-> Verdict(a), rev |-> row.rev + 1, by |-> a, at |-> now]

Fail(a) == Goto(a, IF a = Sweeper THEN "idle" ELSE "refused")

Update(a) ==
  /\ pc[a] = "update"
  /\ IF Fits(a) THEN Settle(a) /\ Goto(a, "publish")
     ELSE UNCHANGED row /\ Fail(a)
  /\ UNCHANGED <<now, kind, reserve, op, seen, applied, deleter, wait, bounds>>

(* The update is stored but its reply is lost: the caller reports failure  *)
(* and publishes nothing.                                                  *)
UpdateReplyLost(a) ==
  /\ pc[a] = "update" /\ Fits(a)
  /\ faults < MaxFaults
  /\ faults' = faults + 1
  /\ Settle(a)
  /\ Fail(a)
  /\ UNCHANGED <<now, kind, reserve, op, seen, applied, deleter, wait, crashes>>

Published(a) == Goto(a, IF a = Sweeper THEN "idle" ELSE "ok")

PublishOld(a) ==   \* mutant of Publish: the envelope as it was read goes out
  /\ pc[a] = "publish"
  /\ Published(a)
  /\ inbox' = IF waiter \in {"subscribed", "waiting"} THEN "pending" ELSE inbox
  /\ UNCHANGED <<now, kind, row, reserve, op, seen, applied, deleter, waiter, told, bounds>>

(* The terminal envelope goes out, best effort: the subscriber may miss it.*)
Publish(a) ==
  /\ pc[a] = "publish"
  /\ Published(a)
  /\ \/ waiter \in {"subscribed", "waiting"} /\ inbox' = Verdict(a)
     \/ UNCHANGED inbox
  /\ UNCHANGED <<now, kind, row, reserve, op, seen, applied, deleter, waiter, told, bounds>>
-----------------------------------------------------------------------------
SweepDerived ==   \* mutant of SweepRead: it reads what get() shows
  /\ pc[Sweeper] = "idle"
  /\ View = "pending" /\ ~Setup /\ Due
  /\ seen' = [seen EXCEPT ![Sweeper] = row.rev]
  /\ Goto(Sweeper, "update")
  /\ UNCHANGED <<now, kind, row, reserve, op, applied, deleter, wait, bounds>>

(* expirePending comes to this row and finds it due. *)
SweepRead ==
  /\ pc[Sweeper] = "idle"
  /\ row.status = "pending" /\ ~Setup /\ Due
  /\ seen' = [seen EXCEPT ![Sweeper] = row.rev]
  /\ Goto(Sweeper, "update")
  /\ UNCHANGED <<now, kind, row, reserve, op, applied, deleter, wait, bounds>>

(* deletePendingByWorkspace finds the row pending ... *)
DeleteFinds ==
  /\ deleter = "idle" /\ row.status = "pending"
  /\ deleter' = "found"
  /\ UNCHANGED <<now, kind, row, reserve, work, wait, bounds>>

(* ... and deletes it, whatever it has become, or fails to. *)
Delete ==
  /\ deleter = "found"
  /\ deleter' = "done"
  /\ row' \in {row, [row EXCEPT !.status = "deleted", !.rev = @ + 1]}
  /\ UNCHANGED <<now, kind, reserve, work, wait, bounds>>
-----------------------------------------------------------------------------
(* The tool that created the question waits: it subscribes, ... *)
WaitSubscribe ==
  /\ waiter = "off" /\ kind = "question" /\ row.status # "absent"
  /\ waiter' = "subscribed"
  /\ UNCHANGED <<now, kind, row, reserve, work, deleter, inbox, told, bounds>>

Tell(s) == waiter' = "told" /\ told' = s /\ UNCHANGED inbox

(* ... reads the row once the subscription stands and again on every poll, *)
WaitRead ==
  /\ \/ waiter = "subscribed"
     \/ waiter = "waiting" /\ ~Due
  /\ IF View \in Verdicts THEN Tell(View)
     ELSE waiter' = "waiting" /\ UNCHANGED <<inbox, told>>
  /\ UNCHANGED <<now, kind, row, reserve, work, deleter, bounds>>

(* takes the envelope when one comes in time, *)
WaitMessage ==
  /\ waiter = "waiting" /\ ~Due /\ inbox # None
  /\ Tell(inbox)
  /\ UNCHANGED <<now, kind, row, reserve, work, deleter, bounds>>

GiveUp ==   \* mutant of WaitOver: no last look at the row
  /\ waiter = "waiting" /\ Due
  /\ Tell("expired")
  /\ UNCHANGED <<now, kind, row, reserve, work, deleter, bounds>>

OnlyVerdict ==   \* mutant of WaitOver: polls on until the row has a verdict
  /\ waiter = "waiting" /\ Due
  /\ View \in Verdicts
  /\ Tell(View)
  /\ UNCHANGED <<now, kind, row, reserve, work, deleter, bounds>>

(* and looks once more at the deadline. Its expirePending finds nothing to *)
(* do for this row: it comes only when the row is gone.                    *)
WaitOver ==
  /\ waiter = "waiting" /\ Due
  /\ Tell(IF View \in Verdicts THEN View ELSE "expired")
  /\ UNCHANGED <<now, kind, row, reserve, work, deleter, bounds>>
-----------------------------------------------------------------------------
Tick ==
  /\ now < Horizon
  /\ now' = now + 1
  /\ UNCHANGED <<kind, row, reserve, work, deleter, wait, bounds>>

InFlight == {"reserve", "create", "commit", "read", "update", "publish"}

(* The daemon dies: what it had under way is gone, rows and marker stay.   *)
Crash ==
  /\ crashes < MaxCrashes
  /\ crashes' = crashes + 1
  /\ pc' = [a \in Actors |-> IF pc[a] \notin InFlight THEN pc[a]
                             ELSE IF a = Sweeper THEN "idle" ELSE "refused"]
  /\ deleter' = IF deleter = "found" THEN "done" ELSE deleter
  /\ waiter' = IF waiter \in {"subscribed", "waiting"} THEN "dead" ELSE waiter
  /\ UNCHANGED <<now, kind, row, reserve, op, seen, applied, inbox, told, faults>>

Next ==
  \/ Create \/ Tick \/ Crash
  \/ \E r \in Reqs :
       \/ \E o \in {"answer", "deny", "decline"} : Receive(r, o)
       \/ ReserveCheck(r) \/ ReserveCreate(r) \/ Commit(r) \/ ReadPending(r)
  \/ \E a \in Actors : Update(a) \/ UpdateReplyLost(a) \/ Publish(a)
  \/ SweepRead \/ DeleteFinds \/ Delete
  \/ WaitSubscribe \/ WaitRead \/ WaitMessage \/ WaitOver

Spec == Init /\ [][Next]_vars

(* Time passes; the sweeper's interval keeps firing; a waiting tool's      *)
(* polls and its deadline are timers.                                      *)
Fairness ==
  /\ WF_vars(Tick)
  /\ WF_vars(SweepRead)
  /\ WF_vars(Update(Sweeper) \/ Publish(Sweeper))
  /\ WF_vars(WaitRead) /\ WF_vars(WaitOver)

FairSpec == Spec /\ Fairness
-----------------------------------------------------------------------------
(* Type correctness. *)
TypeOK ==
  /\ now \in 0..Horizon
  /\ kind \in Kinds
  /\ row \in [status : {"absent", "pending", "deleted"} \cup Verdicts, rev : Nat,
              by : Actors \cup {None}, at : 0..Horizon]
  /\ reserve \in Reqs \cup {None}
  /\ pc \in [Actors -> {"idle", "refused", "ok"} \cup InFlight]
  /\ op \in [Actors -> {"none", "answer", "deny", "decline", "expire"}]
  /\ seen \in [Actors -> Nat]
  /\ applied \in [Reqs -> {"no", "part", "all"}]
  /\ deleter \in {"idle", "found", "done"}
  /\ waiter \in {"off", "subscribed", "waiting", "told", "dead"}
  /\ inbox \in Verdicts \cup {None} /\ told \in Verdicts \cup {None}
  /\ faults \in 0..MaxFaults /\ crashes \in 0..MaxCrashes

(* The rows, the handlers and the sweeper keep the contract: one verdict,  *)
(* by one party, success reported to that party only, and a verdict taken  *)
(* away by none but a deletion that had read the row pending, whatever     *)
(* races, crashes and lost replies there are.                              *)
Outcome ==
  CASE row.status = "absent"  -> "none"
    [] row.status = "pending" -> "open"
    [] row.status = "deleted" -> "removed"
    [] OTHER -> row.status
Acked == {r \in Reqs : pc[r] = "ok"}
Contract == INSTANCE ElicitationContract WITH
  Parties <- Actors, NoOne <- None, outcome <- Outcome, winner <- row.by, acked <- Acked,
  doomed <- deleter = "found"
ImplementsContract == Contract!Spec

(* "Answered" means applied: the request that answered has written all of  *)
(* its values before; and of the requests for one workspace-setup, retried *)
(* or concurrent, at most one ever touches the disk.                       *)
AnsweredApplied ==
  /\ \A r \in Reqs : row.by = r /\ Commits(r) => applied[r] = "all"
  /\ Setup => \A q, r \in Reqs : applied[q] # "no" /\ applied[r] # "no" => q = r

(* However envelope, poll, sweeper and deadline fall: the waiting tool is  *)
(* never told a verdict that was not stored, and an answer that was stored *)
(* before the deadline is never told as expired, with one exception. When  *)
(* the deletion of the workspace, which does not look at the revision of   *)
(* what it deletes, removes the answered row before the tool has seen it,  *)
(* the tool is told that it expired.                                       *)
ToldInTime ==
  /\ told \in {"answered", "declined"} => row.by \in Reqs /\ row.status \in {told, "deleted"}
  /\ told = "expired" /\ row.by \in Reqs => row.at >= Deadline \/ row.status = "deleted"

(* The doc of deletePendingByWorkspace: "Pending only -                    *)
(* answered/declined/expired entries are preserved as audit history". No   *)
(* row that somebody settled is deleted.                                   *)
AuditKept == row.status = "deleted" => row.by = None

(* A waiting tool is released, also when its row was deleted. *)
WaiterReturns == waiter \in {"subscribed", "waiting"} ~> waiter \in {"told", "dead"}

(* No question stays pending for ever: the sweeper expires what nobody     *)
(* settles, also after a crash in the middle of a sweep.                   *)
PendingCloses == (row.status = "pending" /\ ~Setup) ~> row.status # "pending"
=============================================================================
