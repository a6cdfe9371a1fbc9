------------------------ MODULE Elicitations_proofs ------------------------
(***************************************************************************)
(* Theorems about Elicitations, for every set of requests, every deadline, *)
(* grace, horizon and number of faults and crashes. The invariant is       *)
(* proved action by action, one conjunct at a time; the refinement of      *)
(* ElicitationContract follows from it.                                    *)
(***************************************************************************)
EXTENDS Elicitations, TLAPS

(* What the row can be: its revision tells whether it is still pending. *)
RowOK ==
  /\ row.status = "absent" <=> row.rev = 0
  /\ row.status = "pending" <=> row.rev = 1
  /\ row.status \in {"absent", "pending"} => row.by = None
  /\ row.status \in Verdicts => row.by \in Actors /\ row.status = Verdict(row.by)
  /\ row.at <= now

(* What each party knows: who is about to write has read the row pending,  *)
(* and who has written has settled it.                                     *)
ReadOK ==
  /\ op[Sweeper] = "expire"
  /\ pc[Sweeper] \in {"idle", "update", "publish"}
  /\ \A r \in Reqs : op[r] # "expire" /\ (pc[r] # "idle" => op[r] # "none")
  /\ \A a \in Actors : pc[a] = "update" => seen[a] = 1
  /\ \A a \in Actors : pc[a] \in {"publish", "ok"} => row.by = a
  /\ deleter = "found" => row.status # "absent"
  /\ row.status = "deleted" => deleter = "done"

(* What is on disk: a request that goes on to answer has written all, and  *)
(* for a workspace-setup only the holder of the marker writes.             *)
DiskOK ==
  /\ \A r \in Reqs : pc[r] \in {"idle", "reserve", "create", "commit"} => applied[r] = "no"
  /\ \A r \in Reqs :
       (pc[r] \in {"read", "update", "publish", "ok"} \/ row.by = r) /\ Commits(r)
         => applied[r] = "all"
  /\ \A r \in Reqs : row.by = r => pc[r] # "idle"
  /\ Setup => \A r \in Reqs : pc[r] = "commit" \/ applied[r] # "no" => reserve = r

(* What the waiting tool holds. *)
WaitOK ==
  /\ waiter # "off" => row.status # "absent" /\ ~Setup
  /\ waiter = "off" => inbox = None /\ told = None
  /\ inbox # None => row.status \in {inbox, "deleted"}
  /\ inbox \in {"answered", "declined"} \/ told \in {"answered", "declined"} => row.by \in Reqs
  /\ told \in {"answered", "declined"} => row.status \in {told, "deleted"}
  /\ told = "expired" => \/ row.status \in {"expired", "deleted"}
                         \/ Due /\ row.status = "pending"
                         \/ row.status \in Verdicts /\ row.at >= Deadline

IInv == TypeOK /\ RowOK /\ ReadOK /\ DiskOK /\ WaitOK

USE ElicitationAssumption

(* The initial states satisfy the invariant. *)
LEMMA InvInit == Init => IInv
<1> SUFFICES ASSUME Init PROVE IInv
  OBVIOUS
<1>1. TypeOK
  BY DEF Init, TypeOK, Verdicts, Actors, InFlight
<1>2. RowOK
  BY DEF Init, RowOK, Verdicts
<1>3. ReadOK
  BY DEF Init, ReadOK, Actors
<1>4. DiskOK
  BY DEF Init, DiskOK, Commits, Actors
<1>5. WaitOK
  BY DEF Init, WaitOK, Verdicts
<1> QED BY <1>1, <1>2, <1>3, <1>4, <1>5 DEF IInv

(* Create keeps the invariant. *)
LEMMA CreateKeeps ==
  ASSUME IInv, Create
  PROVE  IInv'
<1> USE DEF IInv, Create, work, wait, bounds
<1>1. TypeOK'
  BY DEF TypeOK, ReadOK, InFlight, Verdicts, Actors, Verdict
<1>2. RowOK'
  BY DEF TypeOK, RowOK, ReadOK, Verdicts, Actors, Verdict
<1>3. ReadOK'
  BY DEF TypeOK, RowOK, ReadOK, Verdicts, Actors, InFlight
<1>4. DiskOK'
  BY DEF TypeOK, RowOK, ReadOK, DiskOK, Commits, Setup, Actors, InFlight, Verdicts
<1>5. WaitOK'
  BY DEF TypeOK, RowOK, ReadOK, WaitOK, Setup, Verdicts, Verdict, Due, Actors
<1> QED BY <1>1, <1>2, <1>3, <1>4, <1>5

(* Tick keeps the invariant. *)
LEMMA TickKeeps ==
  ASSUME IInv, Tick
  PROVE  IInv'
<1> USE DEF IInv, Tick, work, wait, bounds
<1>1. TypeOK'
  BY DEF TypeOK, ReadOK, InFlight, Verdicts, Actors, Verdict
<1>2. RowOK'
  BY DEF TypeOK, RowOK, ReadOK, Verdicts, Actors, Verdict
<1>3. ReadOK'
  BY DEF TypeOK, RowOK, ReadOK, Verdicts, Actors, InFlight
<1>4. DiskOK'
  BY DEF TypeOK, RowOK, ReadOK, DiskOK, Commits, Setup, Actors, InFlight, Verdicts
<1>5. WaitOK'
  BY DEF TypeOK, RowOK, ReadOK, WaitOK, Setup, Verdicts, Verdict, Due, Actors
<1> QED BY <1>1, <1>2, <1>3, <1>4, <1>5

(* Crash keeps the invariant. *)
LEMMA CrashKeeps ==
  ASSUME IInv, Crash
  PROVE  IInv'
<1> USE DEF IInv, Crash, work, wait, bounds
<1>1. TypeOK'
  BY DEF TypeOK, ReadOK, InFlight, Verdicts, Actors, Verdict
<1>2. RowOK'
  BY DEF TypeOK, RowOK, ReadOK, Verdicts, Actors, Verdict, InFlight
<1>3. ReadOK'
  BY DEF TypeOK, RowOK, ReadOK, Verdicts, Actors, InFlight
<1>4. DiskOK'
  BY DEF TypeOK, RowOK, ReadOK, DiskOK, Commits, Setup, Actors, InFlight, Verdicts
<1>5. WaitOK'
  BY DEF TypeOK, RowOK, ReadOK, WaitOK, Setup, Verdicts, Verdict, Due, Actors, InFlight
<1> QED BY <1>1, <1>2, <1>3, <1>4, <1>5

(* Receive keeps the invariant. *)
LEMMA ReceiveKeeps ==
  ASSUME IInv, NEW r \in Reqs, NEW o \in {"answer", "deny", "decline"}, Receive(r, o)
  PROVE  IInv'
<1> USE DEF IInv, Receive, work, wait, bounds
<1>1. TypeOK'
  BY DEF TypeOK, ReadOK, InFlight, Verdicts, Actors, Verdict, Goto, Missing, View, Due
<1>2. RowOK'
  BY DEF TypeOK, RowOK, ReadOK, DiskOK, Verdicts, Actors, Verdict, Goto, Missing, View, Due
<1>3. ReadOK'
  BY DEF TypeOK, RowOK, ReadOK, Verdicts, Actors, InFlight, Goto, Missing, View, Due
<1>4. DiskOK'
  BY DEF TypeOK, RowOK, ReadOK, DiskOK, Commits, Setup, Actors, InFlight, Verdicts, Goto, Missing, View, Due
<1>5. WaitOK'
  BY DEF TypeOK, RowOK, ReadOK, WaitOK, Setup, Verdicts, Verdict, Due, Actors, Goto, Missing, View
<1> QED BY <1>1, <1>2, <1>3, <1>4, <1>5

(* ReserveCheck keeps the invariant. *)
LEMMA ReserveCheckKeeps ==
  ASSUME IInv, NEW r \in Reqs, ReserveCheck(r)
  PROVE  IInv'
<1> USE DEF IInv, ReserveCheck, work, wait, bounds
<1>1. TypeOK'
  BY DEF TypeOK, ReadOK, InFlight, Verdicts, Actors, Verdict, Goto, View, Due
<1>2. RowOK'
  BY DEF TypeOK, RowOK, ReadOK, Verdicts, Actors, Verdict, Goto, View, Due
<1>3. ReadOK'
  BY DEF TypeOK, RowOK, ReadOK, Verdicts, Actors, InFlight, Goto, View, Due
<1>4. DiskOK'
  BY DEF TypeOK, RowOK, ReadOK, DiskOK, Commits, Setup, Actors, InFlight, Verdicts, Goto, View, Due
<1>5. WaitOK'
  BY DEF TypeOK, RowOK, ReadOK, WaitOK, Setup, Verdicts, Verdict, Due, Actors, Goto, View
<1> QED BY <1>1, <1>2, <1>3, <1>4, <1>5

(* ReserveCreate keeps the invariant. *)
LEMMA ReserveCreateKeeps ==
  ASSUME IInv, NEW r \in Reqs, ReserveCreate(r)
  PROVE  IInv'
<1> USE DEF IInv, ReserveCreate, work, wait, bounds
<1>1. TypeOK'
  BY DEF TypeOK, ReadOK, InFlight, Verdicts, Actors, Verdict, Goto
<1>2. RowOK'
  BY DEF TypeOK, RowOK, ReadOK, Verdicts, Actors, Verdict, Goto
<1>3. ReadOK'
  BY DEF TypeOK, RowOK, ReadOK, Verdicts, Actors, InFlight, Goto
<1>4. DiskOK'
  BY DEF TypeOK, RowOK, ReadOK, DiskOK, Commits, Setup, Actors, InFlight, Verdicts, Goto
<1>5. WaitOK'
  BY DEF TypeOK, RowOK, ReadOK, WaitOK, Setup, Verdicts, Verdict, Due, Actors, Goto
<1> QED BY <1>1, <1>2, <1>3, <1>4, <1>5

(* Commit keeps the invariant. *)
LEMMA CommitKeeps ==
  ASSUME IInv, NEW r \in Reqs, Commit(r)
  PROVE  IInv'
<1> USE DEF IInv, Commit, work, wait, bounds
<1>1. TypeOK'
  BY DEF TypeOK, ReadOK, InFlight, Verdicts, Actors, Verdict, Goto
<1>2. RowOK'
  BY DEF TypeOK, RowOK, ReadOK, Verdicts, Actors, Verdict, Goto
<1>3. ReadOK'
  BY DEF TypeOK, RowOK, ReadOK, Verdicts, Actors, InFlight, Goto
<1>4. DiskOK'
  BY DEF TypeOK, RowOK, ReadOK, DiskOK, Commits, Setup, Actors, InFlight, Verdicts, Goto
<1>5. WaitOK'
  BY DEF TypeOK, RowOK, ReadOK, WaitOK, Setup, Verdicts, Verdict, Due, Actors, Goto
<1> QED BY <1>1, <1>2, <1>3, <1>4, <1>5

(* ReadPending keeps the invariant. *)
LEMMA ReadPendingKeeps ==
  ASSUME IInv, NEW r \in Reqs, ReadPending(r)
  PROVE  IInv'
<1> USE DEF IInv, ReadPending, work, wait, bounds
<1>1. TypeOK'
  BY DEF TypeOK, ReadOK, InFlight, Verdicts, Actors, Verdict, Goto
<1>2. RowOK'
  BY DEF TypeOK, RowOK, ReadOK, Verdicts, Actors, Verdict, Goto
<1>3. ReadOK'
  BY DEF TypeOK, RowOK, ReadOK, Verdicts, Actors, InFlight, Goto
<1>4. DiskOK'
  BY DEF TypeOK, RowOK, ReadOK, DiskOK, Commits, Setup, Actors, InFlight, Verdicts, Goto
<1>5. WaitOK'
  BY DEF TypeOK, RowOK, ReadOK, WaitOK, Setup, Verdicts, Verdict, Due, Actors, Goto
<1> QED BY <1>1, <1>2, <1>3, <1>4, <1>5

(* Update keeps the invariant. *)
LEMMA UpdateKeeps ==
  ASSUME IInv, NEW a \in Actors, Update(a)
  PROVE  IInv'
<1> USE DEF IInv, Update, work, wait, bounds
<1>1. TypeOK'
  BY DEF TypeOK, ReadOK, InFlight, Verdicts, Actors, Verdict, Goto, Fits, Settle, Fail
<1>2. RowOK'
  BY DEF TypeOK, RowOK, ReadOK, Verdicts, Actors, Verdict, Goto, Fits, Settle, Fail
<1>3. ReadOK'
  <2>1. Fits(a) => row.by = None /\ row.status = "pending"
    BY DEF Fits, TypeOK, RowOK, ReadOK
  <2>2. row.status = "absent" => row'.status = "absent"
    BY <2>1 DEF Settle, Verdict
  <2>3. \A b \in Actors : pc'[b] = "update" => seen'[b] = 1
    BY DEF TypeOK, ReadOK, Goto, Fail
  <2>4. \A b \in Actors : pc'[b] \in {"publish", "ok"} => row'.by = b
    BY <2>1 DEF TypeOK, ReadOK, Goto, Settle, Fail, Actors
  <2> QED
    BY <2>1, <2>2, <2>3, <2>4 DEF TypeOK, ReadOK, Actors, Goto, Settle, Fail, Verdict
<1>4. DiskOK'
  BY DEF TypeOK, RowOK, ReadOK, DiskOK, Commits, Setup, Actors, InFlight, Verdicts, Goto, Fits, Settle, Fail
<1>5. WaitOK'
  BY DEF TypeOK, RowOK, ReadOK, WaitOK, Setup, Verdicts, Verdict, Due, Actors, Goto, Fits, Settle, Fail
<1> QED BY <1>1, <1>2, <1>3, <1>4, <1>5

(* UpdateReplyLost keeps the invariant. *)
LEMMA UpdateReplyLostKeeps ==
  ASSUME IInv, NEW a \in Actors, UpdateReplyLost(a)
  PROVE  IInv'
<1> USE DEF IInv, UpdateReplyLost, work, wait, bounds
<1>1. TypeOK'
  BY DEF TypeOK, ReadOK, InFlight, Verdicts, Actors, Verdict, Goto, Fits, Settle, Fail
<1>2. RowOK'
  BY DEF TypeOK, RowOK, ReadOK, Verdicts, Actors, Verdict, Goto, Fits, Settle, Fail
<1>3. ReadOK'
  <2>1. Fits(a) => row.by = None /\ row.status = "pending"
    BY DEF Fits, TypeOK, RowOK, ReadOK
  <2>2. row.status = "absent" => row'.status = "absent"
    BY <2>1 DEF Settle, Verdict
  <2>3. \A b \in Actors : pc'[b] = "update" => seen'[b] = 1
    BY DEF TypeOK, ReadOK, Goto, Fail
  <2>4. \A b \in Actors : pc'[b] \in {"publish", "ok"} => row'.by = b
    BY <2>1 DEF TypeOK, ReadOK, Goto, Settle, Fail, Actors
  <2> QED
    BY <2>1, <2>2, <2>3, <2>4 DEF TypeOK, ReadOK, Actors, Goto, Settle, Fail, Verdict
<1>4. DiskOK'
  BY DEF TypeOK, RowOK, ReadOK, DiskOK, Commits, Setup, Actors, InFlight, Verdicts, Goto, Fits, Settle, Fail
<1>5. WaitOK'
  BY DEF TypeOK, RowOK, ReadOK, WaitOK, Setup, Verdicts, Verdict, Due, Actors, Goto, Fits, Settle, Fail
<1> QED BY <1>1, <1>2, <1>3, <1>4, <1>5

(* Publish keeps the invariant. *)
LEMMA PublishKeeps ==
  ASSUME IInv, NEW a \in Actors, Publish(a)
  PROVE  IInv'
<1> USE DEF IInv, Publish, work, wait, bounds
<1>1. TypeOK'
  BY DEF TypeOK, ReadOK, InFlight, Verdicts, Actors, Verdict, Goto, Published
<1>2. RowOK'
  BY DEF TypeOK, RowOK, ReadOK, Verdicts, Actors, Verdict, Goto, Published
<1>3. ReadOK'
  BY DEF TypeOK, RowOK, ReadOK, Verdicts, Actors, InFlight, Goto, Published
<1>4. DiskOK'
  BY DEF TypeOK, RowOK, ReadOK, DiskOK, Commits, Setup, Actors, InFlight, Verdicts, Goto, Published
<1>5. WaitOK'
  BY DEF TypeOK, RowOK, ReadOK, WaitOK, Setup, Verdicts, Verdict, Due, Actors, Goto, Published
<1> QED BY <1>1, <1>2, <1>3, <1>4, <1>5

(* SweepRead keeps the invariant. *)
LEMMA SweepReadKeeps ==
  ASSUME IInv, SweepRead
  PROVE  IInv'
<1> USE DEF IInv, SweepRead, work, wait, bounds
<1>1. TypeOK'
  BY DEF TypeOK, ReadOK, InFlight, Verdicts, Actors, Verdict, Goto, Due
<1>2. RowOK'
  BY DEF TypeOK, RowOK, ReadOK, Verdicts, Actors, Verdict, Goto, Due
<1>3. ReadOK'
  BY DEF TypeOK, RowOK, ReadOK, Verdicts, Actors, InFlight, Goto, Due
<1>4. DiskOK'
  BY DEF TypeOK, RowOK, ReadOK, DiskOK, Commits, Setup, Actors, InFlight, Verdicts, Goto, Due
<1>5. WaitOK'
  BY DEF TypeOK, RowOK, ReadOK, WaitOK, Setup, Verdicts, Verdict, Due, Actors, Goto
<1> QED BY <1>1, <1>2, <1>3, <1>4, <1>5

(* DeleteFinds keeps the invariant. *)
LEMMA DeleteFindsKeeps ==
  ASSUME IInv, DeleteFinds
  PROVE  IInv'
<1> USE DEF IInv, DeleteFinds, work, wait, bounds
<1>1. TypeOK'
  BY DEF TypeOK, ReadOK, InFlight, Verdicts, Actors, Verdict
<1>2. RowOK'
  BY DEF TypeOK, RowOK, ReadOK, Verdicts, Actors, Verdict
<1>3. ReadOK'
  BY DEF TypeOK, RowOK, ReadOK, Verdicts, Actors, InFlight
<1>4. DiskOK'
  BY DEF TypeOK, RowOK, ReadOK, DiskOK, Commits, Setup, Actors, InFlight, Verdicts
<1>5. WaitOK'
  BY DEF TypeOK, RowOK, ReadOK, WaitOK, Setup, Verdicts, Verdict, Due, Actors
<1> QED BY <1>1, <1>2, <1>3, <1>4, <1>5

(* Delete keeps the invariant. *)
LEMMA DeleteKeeps ==
  ASSUME IInv, Delete
  PROVE  IInv'
<1> USE DEF IInv, Delete, work, wait, bounds
<1>1. CASE row' = row
  <2>1. TypeOK' /\ RowOK' /\ ReadOK'
    BY <1>1 DEF TypeOK, RowOK, ReadOK, Verdict
  <2>2. DiskOK'
    BY <1>1 DEF DiskOK, Commits, Setup
  <2>3. WaitOK'
    BY <1>1 DEF WaitOK, Setup, Due
  <2> QED BY <2>1, <2>2, <2>3
<1>2. CASE row' # row
  <2>1. row' = [status |-> "deleted", rev |-> row.rev + 1, by |-> row.by, at |-> row.at]
    BY <1>2 DEF TypeOK
  <2> USE <2>1
  <2>2. TypeOK'
    BY DEF TypeOK, InFlight, Verdicts, Actors
  <2>3. RowOK'
    BY DEF TypeOK, RowOK, ReadOK, Verdicts, Actors, Verdict
  <2>4. ReadOK'
    BY DEF TypeOK, RowOK, ReadOK, Verdicts, Actors, InFlight
  <2>5. DiskOK'
    BY DEF TypeOK, RowOK, ReadOK, DiskOK, Commits, Setup, Actors, InFlight, Verdicts
  <2>6. WaitOK'
    BY DEF TypeOK, RowOK, ReadOK, WaitOK, Setup, Verdicts, Verdict, Due, Actors
  <2> QED BY <2>2, <2>3, <2>4, <2>5, <2>6
<1> QED BY <1>1, <1>2

(* WaitSubscribe keeps the invariant. *)
LEMMA WaitSubscribeKeeps ==
  ASSUME IInv, WaitSubscribe
  PROVE  IInv'
<1> USE DEF IInv, WaitSubscribe, work, wait, bounds
<1>1. TypeOK'
  BY DEF TypeOK, ReadOK, InFlight, Verdicts, Actors, Verdict
<1>2. RowOK'
  BY DEF TypeOK, RowOK, ReadOK, Verdicts, Actors, Verdict
<1>3. ReadOK'
  BY DEF TypeOK, RowOK, ReadOK, Verdicts, Actors, InFlight
<1>4. DiskOK'
  BY DEF TypeOK, RowOK, ReadOK, DiskOK, Commits, Setup, Actors, InFlight, Verdicts
<1>5. WaitOK'
  BY DEF TypeOK, RowOK, ReadOK, WaitOK, Setup, Verdicts, Verdict, Due, Actors
<1> QED BY <1>1, <1>2, <1>3, <1>4, <1>5

(* WaitRead keeps the invariant. *)
LEMMA WaitReadKeeps ==
  ASSUME IInv, WaitRead
  PROVE  IInv'
<1> USE DEF IInv, WaitRead, work, wait, bounds
<1>1. TypeOK'
  BY DEF TypeOK, ReadOK, InFlight, Verdicts, Actors, Verdict, Tell, View, Due
<1>2. RowOK'
  BY DEF TypeOK, RowOK, ReadOK, Verdicts, Actors, Verdict, Tell, View, Due
<1>3. ReadOK'
  BY DEF TypeOK, RowOK, ReadOK, Verdicts, Actors, InFlight, Tell, View, Due
<1>4. DiskOK'
  BY DEF TypeOK, RowOK, ReadOK, DiskOK, Commits, Setup, Actors, InFlight, Verdicts, Tell, View, Due
<1>5. WaitOK'
  BY DEF TypeOK, RowOK, ReadOK, WaitOK, Setup, Verdicts, Verdict, Due, Actors, Tell, View
<1> QED BY <1>1, <1>2, <1>3, <1>4, <1>5

(* WaitMessage keeps the invariant. *)
LEMMA WaitMessageKeeps ==
  ASSUME IInv, WaitMessage
  PROVE  IInv'
<1> USE DEF IInv, WaitMessage, work, wait, bounds
<1>1. TypeOK'
  BY DEF TypeOK, ReadOK, InFlight, Verdicts, Actors, Verdict, Tell, Due
<1>2. RowOK'
  BY DEF TypeOK, RowOK, ReadOK, Verdicts, Actors, Verdict, Tell, Due
<1>3. ReadOK'
  BY DEF TypeOK, RowOK, ReadOK, Verdicts, Actors, InFlight, Tell, Due
<1>4. DiskOK'
  BY DEF TypeOK, RowOK, ReadOK, DiskOK, Commits, Setup, Actors, InFlight, Verdicts, Tell, Due
<1>5. WaitOK'
  BY DEF TypeOK, RowOK, ReadOK, WaitOK, Setup, Verdicts, Verdict, Due, Actors, Tell
<1> QED BY <1>1, <1>2, <1>3, <1>4, <1>5

(* WaitOver keeps the invariant. *)
LEMMA WaitOverKeeps ==
  ASSUME IInv, WaitOver
  PROVE  IInv'
<1> USE DEF IInv, WaitOver, work, wait, bounds
<1>1. TypeOK'
  BY DEF TypeOK, ReadOK, InFlight, Verdicts, Actors, Verdict, Tell, View, Due
<1>2. RowOK'
  BY DEF TypeOK, RowOK, ReadOK, Verdicts, Actors, Verdict, Tell, View, Due
<1>3. ReadOK'
  BY DEF TypeOK, RowOK, ReadOK, Verdicts, Actors, InFlight, Tell, View, Due
<1>4. DiskOK'
  BY DEF TypeOK, RowOK, ReadOK, DiskOK, Commits, Setup, Actors, InFlight, Verdicts, Tell, View, Due
<1>5. WaitOK'
  BY DEF TypeOK, RowOK, ReadOK, WaitOK, Setup, Verdicts, Verdict, Due, Actors, Tell, View
<1> QED BY <1>1, <1>2, <1>3, <1>4, <1>5

(* The invariant is inductive. *)
LEMMA InvNext == IInv /\ [Next]_vars => IInv'
<1> SUFFICES ASSUME IInv, [Next]_vars PROVE IInv'
  OBVIOUS
<1>1. CASE Create \/ Tick \/ Crash
  BY <1>1, CreateKeeps, TickKeeps, CrashKeeps
<1>2. CASE \E r \in Reqs :
             \/ \E o \in {"answer", "deny", "decline"} : Receive(r, o)
             \/ ReserveCheck(r) \/ ReserveCreate(r) \/ Commit(r) \/ ReadPending(r)
  BY <1>2, ReceiveKeeps, ReserveCheckKeeps, ReserveCreateKeeps, CommitKeeps, ReadPendingKeeps
<1>3. CASE \E a \in Actors : Update(a) \/ UpdateReplyLost(a) \/ Publish(a)
  BY <1>3, UpdateKeeps, UpdateReplyLostKeeps, PublishKeeps
<1>4. CASE SweepRead \/ DeleteFinds \/ Delete
  BY <1>4, SweepReadKeeps, DeleteFindsKeeps, DeleteKeeps
<1>5. CASE WaitSubscribe \/ WaitRead \/ WaitMessage \/ WaitOver
  BY <1>5, WaitSubscribeKeeps, WaitReadKeeps, WaitMessageKeeps, WaitOverKeeps
<1>6. CASE UNCHANGED vars
  BY <1>6 DEF IInv, TypeOK, RowOK, ReadOK, DiskOK, WaitOK, Commits, Setup, Due, Verdict,
     vars, work, wait, bounds
<1> QED BY <1>1, <1>2, <1>3, <1>4, <1>5, <1>6 DEF Next

(* ... and so holds throughout. *)
LEMMA ElicitationInvariant == Spec => []IInv
BY InvInit, InvNext, PTL DEF Spec

(* Every variable keeps to its domain. *)
THEOREM ElicitationTypeCorrect == Spec => []TypeOK
<1>1. IInv => TypeOK
  BY DEF IInv
<1> QED BY <1>1, ElicitationInvariant, PTL

(* For every number of concurrent requests, crashes and lost replies: who  *)
(* answered has written all of its values, and one request at most ever    *)
(* writes those of a workspace-setup.                                      *)
THEOREM ElicitationAnsweredApplied == Spec => []AnsweredApplied
<1>1. IInv => AnsweredApplied
  BY DEF IInv, DiskOK, AnsweredApplied
<1> QED BY <1>1, ElicitationInvariant, PTL

(* For every deadline and grace: a waiting tool is told a verdict that was *)
(* stored, and an answer in time is never told as expired unless the       *)
(* deletion of the workspace removed its row.                              *)
THEOREM ElicitationToldInTime == Spec => []ToldInTime
<1>1. IInv => ToldInTime
  <2> SUFFICES ASSUME IInv PROVE ToldInTime
    OBVIOUS
  <2>1. row.by \in Reqs => row.by # None /\ row.status \notin {"absent", "pending"}
    BY DEF IInv, RowOK
  <2>2. ASSUME row.by \in Reqs PROVE row.status # "expired"
    <3>1. op[row.by] \in {"answer", "deny", "decline"}
      BY <2>2 DEF IInv, TypeOK, ReadOK, DiskOK, Actors
    <3> QED BY <2>2, <3>1 DEF IInv, RowOK, Verdict, Verdicts
  <2> QED BY <2>1, <2>2 DEF IInv, WaitOK, ToldInTime
<1> QED BY <1>1, ElicitationInvariant, PTL

(* Nobody is told of success, and the row stays, in a step that only moves *)
(* requests that have not settled it.                                      *)
LEMMA QuietStep ==
  ASSUME row' = row, Acked' = Acked, deleter' = deleter PROVE UNCHANGED Contract!vars
BY DEF Contract!vars, Outcome

(* A write that fits settles the open question; another changes nothing.   *)
LEMMA WriteRefines ==
  ASSUME IInv, NEW a \in Actors, Update(a) \/ UpdateReplyLost(a)
  PROVE  Contract!Settle \/ UNCHANGED Contract!vars
<1>1. Acked' = Acked /\ deleter' = deleter
  BY DEF IInv, TypeOK, ReadOK, Update, UpdateReplyLost, Acked, Goto, Fail, Actors
<1>2. CASE row' = row
  BY <1>1, <1>2, QuietStep
<1>3. CASE Fits(a) /\ Settle(a)
  <2>1. row.status = "pending"
    BY <1>3 DEF IInv, TypeOK, RowOK, ReadOK, Update, UpdateReplyLost, Fits
  <2>2. row'.status \in Verdicts /\ row'.by = a
    BY <1>3 DEF Settle, Verdict, Verdicts
  <2>3. Outcome = "open" /\ Outcome' = row'.status
    BY <2>1, <2>2 DEF Outcome, Verdicts
  <2> QED
    BY <1>1, <2>2, <2>3 DEF Contract!Settle, Contract!Verdicts, Verdicts
<1> QED BY <1>2, <1>3 DEF Update, UpdateReplyLost

(* Publishing is what makes a request report success. *)
LEMMA PublishRefines ==
  ASSUME IInv, NEW a \in Actors, Publish(a)
  PROVE  Contract!Acknowledge \/ UNCHANGED Contract!vars
<1>1. row' = row /\ row.by = a /\ deleter' = deleter
  BY DEF IInv, ReadOK, Publish
<1>2. CASE a = Sweeper
  <2>1. Acked' = Acked
    BY <1>2 DEF IInv, TypeOK, Publish, Published, Goto, Acked, Actors
  <2> QED BY <1>1, <2>1, QuietStep
<1>3. CASE a \in Reqs
  <2>1. Acked' = Acked \cup {a}
    BY <1>3 DEF IInv, TypeOK, Publish, Published, Goto, Acked, Actors
  <2>2. Outcome' = Outcome /\ a # None
    BY <1>1, <1>3 DEF Outcome
  <2> QED BY <1>1, <2>1, <2>2 DEF Contract!Acknowledge
<1> QED BY <1>2, <1>3 DEF Actors

(* The initial states are those of the contract. *)
LEMMA InitRefines == Init => Contract!Init
BY DEF Init, Contract!Init, Outcome, Acked, Actors

(* Every step is a step of the contract or leaves it alone. *)
LEMMA StepRefines == IInv /\ [Next]_vars => [Contract!Next]_Contract!vars
<1> SUFFICES ASSUME IInv, [Next]_vars PROVE [Contract!Next]_Contract!vars
  OBVIOUS
<1>1. CASE \E a \in Actors : Update(a) \/ UpdateReplyLost(a) \/ Publish(a)
  BY <1>1, WriteRefines, PublishRefines DEF Contract!Next
<1>2. CASE Create
  <2>1. Outcome = "none" /\ Outcome' = "open" /\ row'.by = row.by
    BY <1>2 DEF Create, Outcome, IInv, TypeOK
  <2>2. Acked' = Acked /\ deleter' = deleter
    BY <1>2 DEF Create, work, Acked
  <2> QED BY <2>1, <2>2 DEF Contract!Next, Contract!Open
<1>3. CASE Delete
  <2>1. row.status \in Verdicts \cup {"pending"}
    BY <1>3 DEF Delete, IInv, TypeOK, ReadOK
  <2>2. Outcome \in Verdicts \cup {"open"}
    BY <2>1 DEF Outcome, Verdicts
  <2>3. Acked' = Acked /\ deleter = "found" /\ deleter' = "done"
    BY <1>3 DEF Delete, work, Acked
  <2>4. CASE row' = row
    BY <1>3, <2>3, <2>4 DEF Outcome, Contract!Next, Contract!Spare
  <2>5. CASE row' # row
    <3>1. Outcome' = "removed" /\ row'.by = row.by
      BY <1>3, <2>5 DEF Delete, Outcome, Verdicts, IInv, TypeOK
    <3> QED BY <2>2, <2>3, <3>1 DEF Contract!Next, Contract!Remove, Contract!Verdicts, Verdicts
  <2> QED BY <2>4, <2>5
<1>4. CASE \E r \in Reqs :
             \/ \E o \in {"answer", "deny", "decline"} : Receive(r, o)
             \/ ReserveCheck(r) \/ ReserveCreate(r) \/ Commit(r) \/ ReadPending(r)
  <2>1. row' = row
    BY <1>4 DEF Receive, ReserveCheck, ReserveCreate, Commit, ReadPending
  <2>2. Acked' = Acked /\ deleter' = deleter
    BY <1>4 DEF Receive, ReserveCheck, ReserveCreate, Commit, ReadPending, Goto, Acked,
       IInv, TypeOK, Actors
  <2> QED BY <2>1, <2>2, QuietStep
<1>5. CASE Tick \/ SweepRead \/ WaitSubscribe \/ WaitRead \/ WaitMessage \/ WaitOver
           \/ UNCHANGED vars
  <2>1. row' = row /\ deleter' = deleter
    BY <1>5 DEF Tick, SweepRead, WaitSubscribe, WaitRead, WaitMessage, WaitOver, vars
  <2>2. Acked' = Acked
    BY <1>5 DEF Tick, SweepRead, WaitSubscribe, WaitRead, WaitMessage, WaitOver, vars,
       work, Goto, Acked, IInv, TypeOK, Actors
  <2> QED BY <2>1, <2>2, QuietStep
<1>6. CASE DeleteFinds
  <2>1. row' = row /\ Outcome = "open" /\ deleter = "idle" /\ deleter' = "found"
    BY <1>6 DEF DeleteFinds, Outcome
  <2>2. Acked' = Acked /\ Outcome' = Outcome
    BY <1>6, <2>1 DEF DeleteFinds, work, Acked, Outcome
  <2> QED BY <2>1, <2>2 DEF Contract!Next, Contract!Doom
<1>7. CASE Crash
  <2>1. row' = row /\ Outcome' = Outcome
    BY <1>7 DEF Crash, Outcome
  <2>2. Acked' = Acked
    BY <1>7 DEF Crash, Acked, InFlight, IInv, TypeOK, Actors
  <2>3. CASE deleter = "found"
    BY <1>7, <2>1, <2>2, <2>3 DEF Crash, Contract!Next, Contract!Spare
  <2>4. CASE deleter # "found"
    BY <1>7, <2>1, <2>2, <2>4, QuietStep DEF Crash
  <2> QED BY <2>3, <2>4
<1> QED BY <1>1, <1>2, <1>3, <1>4, <1>5, <1>6, <1>7 DEF Next

(* For every number of requests, crashes and lost replies: one verdict, by *)
(* one party, success reported to that party only, and no verdict removed  *)
(* but by a deletion that had found the row pending.                       *)
THEOREM ElicitationImplementsContract == Spec => ImplementsContract
BY InitRefines, StepRefines, ElicitationInvariant, PTL
DEF Spec, ImplementsContract, Contract!Spec

=============================================================================
