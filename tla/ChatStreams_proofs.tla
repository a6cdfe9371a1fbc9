------------------------- MODULE ChatStreams_proofs -------------------------
(***************************************************************************)
(* The turns of ChatStreams, for every set of turns, chats and tabs and    *)
(* every limit: a turn under its own controller can be reached. And the    *)
(* types of the buffers, on which ChatDelivery_proofs builds.              *)
(***************************************************************************)
EXTENDS ChatStreams, TLAPS

USE ChatStreamAssumption

(* A turn has a controller only once its buffer exists. *)
Uncontrolled == \A t \in Turns : state[t] \in {"idle", "posted", "failed"} => ctl[t] = None

TurnInv == TurnsOK /\ Uncontrolled /\ OwnReachable

(* The initial states satisfy the invariant of the turns. *)
LEMMA TurnInit == Init => TurnInv
<1> SUFFICES ASSUME Init PROVE TurnInv
  OBVIOUS
<1>1. TurnsOK
  BY DEF Init, TurnsOK
<1>2. Uncontrolled
  BY DEF Init, Uncontrolled
<1>3. OwnReachable
  BY DEF Init, OwnReachable
<1> QED
  BY <1>1, <1>2, <1>3 DEF TurnInv

(* A POST aborts the controller it replaces. *)
LEMMA PostKeeps ==
  ASSUME TurnInv, NEW t \in Turns, NEW k \in Tabs \cup {None}, Post(t, k)
  PROVE  TurnInv'
<1> USE DEF TurnInv, Post, TurnsOK
<1>1. TurnsOK'
  OBVIOUS
<1>2. Uncontrolled'
  BY DEF Uncontrolled
<1>3. OwnReachable'
  <2> SUFFICES ASSUME NEW u \in Turns, state'[u] \in {"running", "finished"}, ctl[u] = u,
                      u \notin aborted'
               PROVE  registered'[ChatOf[u]] = u \/ \E w \in Turns \ {u} : ctl[w] = u
    BY DEF OwnReachable
  <2>1. u # t /\ state[u] \in {"running", "finished"} /\ u \notin aborted
    OBVIOUS
  <2>2. registered[ChatOf[u]] = u \/ \E w \in Turns \ {u} : ctl[w] = u
    BY <2>1 DEF OwnReachable
  <2>3. registered[ChatOf[u]] = u => ChatOf[u] # ChatOf[t]
    OBVIOUS
  <2> QED
    BY <2>2, <2>3
<1> QED
  BY <1>1, <1>2, <1>3

(* A POST that fails had no controller of its own to run under. *)
LEMMA PostFailsKeeps ==
  ASSUME TurnInv, NEW t \in Turns, PostFails(t)
  PROVE  TurnInv'
<1> USE DEF TurnInv, PostFails, TurnsOK
<1>1. TurnsOK'
  OBVIOUS
<1>2. Uncontrolled'
  BY DEF Uncontrolled
<1>3. OwnReachable'
  BY DEF OwnReachable
<1> QED
  BY <1>1, <1>2, <1>3

(* A turn takes the controller the registry holds: its own, which is then  *)
(* registered, or another's, which it shares.                              *)
LEMMA CreateKeeps ==
  ASSUME TurnInv, NEW t \in Turns, Create(t)
  PROVE  TurnInv'
<1> USE DEF TurnInv, Create, TurnsOK
<1>1. TurnsOK'
  OBVIOUS
<1>2. Uncontrolled'
  BY DEF Uncontrolled
<1>3. OwnReachable'
  <2> SUFFICES ASSUME NEW u \in Turns, state'[u] \in {"running", "finished"}, ctl'[u] = u,
                      u \notin aborted
               PROVE  registered[ChatOf[u]] = u \/ \E w \in Turns \ {u} : ctl'[w] = u
    BY DEF OwnReachable
  <2>1. CASE u = t
    BY <2>1
  <2>2. CASE u # t
    <3>1. registered[ChatOf[u]] = u \/ \E w \in Turns \ {u} : ctl[w] = u
      BY <2>2 DEF OwnReachable
    <3>2. ctl[t] = None
      BY DEF Uncontrolled
    <3> QED
      BY <3>1, <3>2
  <2> QED
    BY <2>1, <2>2
<1> QED
  BY <1>1, <1>2, <1>3

(* The end of the handler and the timer leave the controllers alone. *)
LEMMA EndKeeps ==
  ASSUME TurnInv, NEW t \in Turns, HandlerEnds(t) \/ CloseTimer(t)
  PROVE  TurnInv'
<1> USE DEF TurnInv, HandlerEnds, CloseTimer, TurnsOK
<1>1. TurnsOK'
  OBVIOUS
<1>2. Uncontrolled'
  BY DEF Uncontrolled
<1>3. OwnReachable'
  BY DEF OwnReachable
<1> QED
  BY <1>1, <1>2, <1>3

(* A turn that ends releases the controller it runs under: its own, or one *)
(* it shares.                                                              *)
LEMMA TaskEndsKeeps ==
  ASSUME TurnInv, NEW t \in Turns, TaskEnds(t)
  PROVE  TurnInv'
<1> USE DEF TurnInv, TaskEnds, Release, TurnsOK
<1>1. TurnsOK'
  OBVIOUS
<1>2. Uncontrolled'
  BY DEF Uncontrolled
<1>3. OwnReachable'
  <2> SUFFICES ASSUME NEW u \in Turns, state'[u] \in {"running", "finished"}, ctl[u] = u,
                      u \notin aborted
               PROVE  registered'[ChatOf[u]] = u \/ \E w \in Turns \ {u} : ctl[w] = u
    BY DEF OwnReachable
  <2>1. u # t /\ state[u] \in {"running", "finished"}
    OBVIOUS
  <2>2. registered[ChatOf[u]] = u \/ \E w \in Turns \ {u} : ctl[w] = u
    BY <2>1 DEF OwnReachable
  <2>3. ASSUME registered[ChatOf[u]] = u, registered'[ChatOf[u]] # u PROVE ctl[t] = u
    BY <2>3
  <2> QED
    BY <2>1, <2>2, <2>3
<1> QED
  BY <1>1, <1>2, <1>3

(* A cancellation aborts the controller it removes. *)
LEMMA CancelKeeps ==
  ASSUME TurnInv, NEW c \in Chats, Cancel(c)
  PROVE  TurnInv'
<1> USE DEF TurnInv, Cancel, TurnsOK
<1>1. TurnsOK'
  OBVIOUS
<1>2. Uncontrolled'
  BY DEF Uncontrolled
<1>3. OwnReachable'
  BY DEF OwnReachable
<1> QED
  BY <1>1, <1>2, <1>3

(* The shutdown aborts every registered controller. *)
LEMMA ShutdownKeeps ==
  ASSUME TurnInv, Drain \/ Down
  PROVE  TurnInv'
<1> USE DEF TurnInv, Drain, Down, Live, TurnsOK
<1>1. TurnsOK'
  <2>1. Live \subseteq Turns
    OBVIOUS
  <2>2. aborted' = aborted \cup Live
    OBVIOUS
  <2>3. registered' \in [Chats -> Turns \cup {None}]
    OBVIOUS
  <2>4. /\ daemon' \in {"serving", "draining", "down"}
        /\ state' = state /\ poster' = poster /\ ctl' = ctl
    OBVIOUS
  <2> QED
    BY <2>1, <2>2, <2>3, <2>4
<1>2. Uncontrolled'
  BY DEF Uncontrolled
<1>3. OwnReachable'
  BY DEF OwnReachable
<1> QED
  BY <1>1, <1>2, <1>3

(* A tab that leaves is no longer the poster of a turn. *)
LEMMA LeaveKeeps ==
  ASSUME TurnInv, NEW k \in Tabs, NEW c \in Chats, NEW reload \in BOOLEAN, Leave(k, c, reload)
  PROVE  TurnInv'
<1> USE DEF TurnInv, Leave, TurnsOK
<1>1. TurnsOK'
  OBVIOUS
<1>2. Uncontrolled'
  BY DEF Uncontrolled
<1>3. OwnReachable'
  BY DEF OwnReachable
<1> QED
  BY <1>1, <1>2, <1>3

(* No other step touches a turn or a controller. *)
LEMMA RestKeeps ==
  ASSUME TurnInv, UNCHANGED <<daemon, turns>>
  PROVE  TurnInv'
BY DEF TurnInv, TurnsOK, Uncontrolled, OwnReachable, turns

(* Every step keeps the invariant of the turns. *)
LEMMA TurnNext == TurnInv /\ [Next]_vars => TurnInv'
<1> SUFFICES ASSUME TurnInv, [Next]_vars PROVE TurnInv'
  OBVIOUS
<1>1. ASSUME NEW t \in Turns, TurnStep(t) PROVE TurnInv'
  <2>1. CASE \E kind \in Kinds, part \in Parts : Emit(t, kind, part)
    BY <2>1, RestKeeps DEF Emit
  <2> QED
    BY <1>1, <2>1, PostKeeps, PostFailsKeeps, CreateKeeps, EndKeeps, TaskEndsKeeps
    DEF TurnStep
<1>2. ASSUME NEW k \in Tabs, TabStep(k) PROVE TurnInv'
  <2>1. CASE \E c \in Chats, reload \in BOOLEAN : Leave(k, c, reload)
    BY <2>1, LeaveKeeps
  <2>2. CASE Read(k) \/ ReadDone(k) \/ Drop(k) \/ Resume(k) \/ ResumeRefused(k)
    BY <2>2, RestKeeps DEF Read, ReadDone, Drop, Resume, ResumeRefused
  <2> QED
    BY <1>2, <2>1, <2>2 DEF TabStep
<1>3. ASSUME NEW c \in Chats, Cancel(c) \/ StopShowing(c) \/ Cleanup(c) PROVE TurnInv'
  BY <1>3, CancelKeeps, RestKeeps DEF StopShowing, Cleanup
<1>4. CASE UNCHANGED vars
  BY <1>4, RestKeeps DEF vars
<1> QED
  BY <1>1, <1>2, <1>3, <1>4, ShutdownKeeps DEF Next

(* A turn that runs under its own controller is aborted, registered or     *)
(* shares it: a follow-up message, a cancellation or the shutdown reaches  *)
(* it.                                                                     *)
THEOREM StreamOwnReachable == Spec => []OwnReachable
<1>1. TurnInv => OwnReachable
  BY DEF TurnInv
<1> QED
  BY TurnInit, TurnNext, <1>1, PTL DEF Spec

-----------------------------------------------------------------------------
(* The buffers of the registry keep to their types.                        *)

(* The initial buffers are of their types. *)
LEMMA BuffersInit == Init => BuffersOK
BY DEF Init, BuffersOK, Buffers

(* Reclaiming the events of a buffer never makes the total negative. *)
LEMMA ReclaimedNat ==
  ASSUME BuffersOK, NEW c \in Chats
  PROVE  Reclaimed(c) \in Nat
<1>1. events[c] \in Seq(Chunks) /\ total \in Nat
  BY DEF BuffersOK
<1>2. Len(events[c]) \in Nat
  BY <1>1
<1> QED
  BY <1>1, <1>2 DEF Reclaimed

(* A new buffer and the lack of one are of the right types. *)
LEMMA InstallTyped ==
  ASSUME BuffersOK, NEW c \in Chats, NEW b \in Buffers, Install(c, b), total' = Reclaimed(c)
  PROVE  BuffersOK'
<1>1. total' \in Nat
  BY ReclaimedNat
<1>2. stream' \in [Chats -> Buffers] /\ sent' \in [Chats -> Nat]
  BY DEF BuffersOK, Install
<1>3. active' \in [Chats -> BOOLEAN] /\ disabled' \in [Chats -> BOOLEAN]
  BY DEF BuffersOK, Install
<1>4. events' \in [Chats -> Seq(Chunks)]
  BY DEF BuffersOK, Install
<1>5. opened' \in [Chats -> SUBSET Nat] /\ telling' \in [Chats -> SUBSET Parts]
  BY DEF BuffersOK, Install
<1> QED
  BY <1>1, <1>2, <1>3, <1>4, <1>5 DEF BuffersOK

(* A chunk that is accepted, recorded or not, leaves the buffer typed. *)
LEMMA AcceptTyped ==
  ASSUME BuffersOK, NEW c \in Chats, NEW t \in Turns, NEW kind \in Kinds, NEW part \in Parts,
         Accept(c, t, kind, part), UNCHANGED <<stream, active>>
  PROVE  BuffersOK'
<1> DEFINE chunk == [by |-> t, kind |-> kind, part |-> part]
<1> USE DEF BuffersOK
<1>1. chunk \in Chunks
  BY DEF Chunks
<1>2. sent' \in [Chats -> Nat] /\ sent[c] + 1 \in Nat
  BY DEF Accept
<1>3. disabled' \in [Chats -> BOOLEAN]
  BY DEF Accept
<1>4. telling' \in [Chats -> SUBSET Parts]
  <2>1. telling[c] \cup {part} \in SUBSET Parts /\ telling[c] \ {part} \in SUBSET Parts
    OBVIOUS
  <2> QED
    BY <2>1 DEF Accept
<1>5. events' \in [Chats -> Seq(Chunks)]
  <2>1. Append(events[c], chunk) \in Seq(Chunks)
    BY <1>1
  <2> QED
    BY <2>1 DEF Accept
<1>6. opened' \in [Chats -> SUBSET Nat]
  <2>1. Reopened(c, kind, part, sent[c] + 1) \in SUBSET Nat
    BY <1>2 DEF Reopened
  <2>2. \/ UNCHANGED opened
        \/ opened' = [opened EXCEPT ![c] = Reopened(c, kind, part, sent[c] + 1)]
    BY DEF Accept
  <2> QED
    BY <2>1, <2>2
<1>7. total' \in Nat
  BY DEF Accept
<1> QED
  BY <1>2, <1>3, <1>4, <1>5, <1>6, <1>7

(* finishStream() touches no more of a buffer than its active flag. *)
LEMMA FinishTyped ==
  ASSUME BuffersOK, NEW c \in Chats, Finish(c) \/ UNCHANGED active, UNCHANGED <<stream, content>>
  PROVE  BuffersOK'
BY DEF BuffersOK, Finish, content

(* Steps that touch no buffer. *)
LEMMA BuffersKept == BuffersOK /\ UNCHANGED buffers => BuffersOK'
BY DEF BuffersOK, buffers, content

(* Every step leaves the buffers of their types. *)
LEMMA BuffersNext == BuffersOK /\ [Next]_vars => BuffersOK'
<1> SUFFICES ASSUME BuffersOK, [Next]_vars PROVE BuffersOK'
  OBVIOUS
<1>1. ASSUME NEW t \in Turns, TurnStep(t) PROVE BuffersOK'
  <2>0. ChatOf[t] \in Chats
    OBVIOUS
  <2>1. ASSUME NEW kind \in Kinds, NEW part \in Parts, Emit(t, kind, part) PROVE BuffersOK'
    <3>1. CASE Accepts(ChatOf[t], t)
      BY <2>0, <2>1, <3>1, AcceptTyped DEF Emit
    <3>2. CASE ~Accepts(ChatOf[t], t)
      BY <2>1, <3>2, BuffersKept DEF Emit, buffers
    <3> QED
      BY <3>1, <3>2
  <2>2. CASE Create(t)
    BY <2>0, <2>2, InstallTyped DEF Create, Buffers
  <2>3. CASE HandlerEnds(t) \/ CloseTimer(t)
    BY <2>0, <2>3, FinishTyped DEF HandlerEnds, CloseTimer, FinishIfCurrent
  <2>4. CASE (\E k \in Tabs \cup {None} : Post(t, k)) \/ PostFails(t) \/ TaskEnds(t)
    BY <2>4, BuffersKept DEF Post, PostFails, TaskEnds
  <2> QED
    BY <1>1, <2>1, <2>2, <2>3, <2>4 DEF TurnStep
<1>2. ASSUME NEW k \in Tabs, TabStep(k) PROVE BuffersOK'
  BY <1>2, BuffersKept DEF TabStep, Read, ReadDone, Drop, Resume, ResumeRefused, Leave
<1>3. ASSUME NEW c \in Chats, Cancel(c) \/ StopShowing(c) PROVE BuffersOK'
  BY <1>3, FinishTyped DEF Cancel, StopShowing
<1>4. ASSUME NEW c \in Chats, Cleanup(c) PROVE BuffersOK'
  BY <1>4, InstallTyped DEF Cleanup, Buffers
<1>5. CASE Drain
  BY <1>5, BuffersKept DEF Drain
<1>6. CASE Down
  BY <1>6 DEF Down, BuffersOK, Buffers
<1>7. CASE UNCHANGED vars
  BY <1>7, BuffersKept DEF vars
<1> QED
  BY <1>1, <1>2, <1>3, <1>4, <1>5, <1>6, <1>7 DEF Next
=============================================================================
