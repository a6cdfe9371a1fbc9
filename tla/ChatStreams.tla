------------------------------ MODULE ChatStreams ------------------------------
(***************************************************************************)
(* Chat turns and the streams that carry them: StreamRegistry              *)
(* (apps/atlasd/src/stream-registry.ts), ChatTurnRegistry                  *)
(* (apps/atlasd/src/chat-turn-registry.ts), the routes and the adapter     *)
(* that drive both (routes/workspaces/chat.ts, chat-sdk/), and the browser *)
(* tab that reads a stream, loses it and resumes it                        *)
(* (tools/agent-playground, user-chat.svelte, cursor-tracking-fetch.ts).   *)
(*                                                                         *)
(* A turn names its request, the controller its POST registers and the     *)
(* buffer its request creates, numbered in the order of the POSTs. Only    *)
(* the buffer a chat has registered is ever read, others are compared with *)
(* it: its fields belong to the chat.                                      *)
(* Frame ids are counted from 1, the cursor 0 standing for "none": the     *)
(* code's id n is the model's n + 1.                                       *)
(***************************************************************************)
EXTENDS Integers, Sequences, FiniteSets

CONSTANTS
  Turns, Chats, Tabs, Parts, None,
  ChatOf,     \* the chat each turn is posted to
  MaxEvents,  \* MAX_EVENTS
  Ceiling,    \* TOTAL_EVENT_CEILING
  MaxSent,    \* bound: how many chunks each turn gets through
  MaxBreaks   \* bound: connections a tab loses or leaves

ASSUME ChatStreamAssumption ==
  /\ Turns \subseteq Nat
  /\ ChatOf \in [Turns -> Chats]
  /\ {MaxEvents, Ceiling, MaxBreaks} \subseteq Nat /\ MaxSent \in [Turns -> Nat]
  /\ None \notin Turns \cup Tabs

VARIABLES
  daemon,      \* "serving", "draining", "down"
  state,       \* of a turn: see TurnsOK
  poster,      \* the tab whose request the turn is
  ctl,         \* the controller whose signal the turn runs under
  aborted,     \* controllers whose signal is aborted
  registered,  \* ChatTurnRegistry.controllers
  stream,      \* StreamRegistry.streams: the buffer of a chat
  events, active, disabled, opened, subs,  \* the fields of that buffer
  total,       \* totalEvents
  telling,     \* the parts the chunks it accepted have left open
  sent,        \* how many it accepted, recorded or not
  phase,       \* of a tab: see TabsOK
  shown,       \* the chat a tab shows
  of,          \* the turn whose chunks its last message holds
  wire,        \* frames enqueued on its connection and not read yet
  ended,       \* the server has closed the connection
  parts,       \* parts the SDK has open on this connection
  merged,      \* the chunks merged into its last message
  cursor,      \* lastSeenEventId
  misled,      \* tabs that resumed with a cursor of something else
  breaks

turns == <<state, poster, ctl, aborted, registered>>
content == <<events, disabled, opened, total, telling, sent>>
buffers == <<stream, active, content>>
tabs == <<phase, shown, of, parts, merged, cursor, misled, breaks>>
vars == <<daemon, turns, buffers, subs, tabs, wire, ended>>

Kinds == {"start", "more", "end"}
Buffers == Turns \cup {None}

Init ==
  /\ daemon = "serving"
  /\ state = [t \in Turns |-> "idle"]
  /\ poster = [t \in Turns |-> None]
  /\ ctl = [t \in Turns |-> None]
  /\ aborted = {}
  /\ registered = [c \in Chats |-> None]
  /\ telling = [c \in Chats |-> {}]
  /\ stream = [c \in Chats |-> None]
  /\ events = [c \in Chats |-> <<>>]
  /\ active = [c \in Chats |-> FALSE]
  /\ disabled = [c \in Chats |-> FALSE]
  /\ opened = [c \in Chats |-> {}]
  /\ subs = [c \in Chats |-> {}]
  /\ total = 0
  /\ sent = [c \in Chats |-> 0]
  /\ phase = [k \in Tabs |-> "opening"]
  /\ shown \in [Tabs -> Chats]
  /\ of = [k \in Tabs |-> None]
  /\ wire = [k \in Tabs |-> <<>>]
  /\ ended = {}
  /\ parts = [k \in Tabs |-> {}]
  /\ merged = [k \in Tabs |-> <<>>]
  /\ cursor = [k \in Tabs |-> 0]
  /\ misled = {}
  /\ breaks = [k \in Tabs |-> 0]

-----------------------------------------------------------------------------
(* The stream registry.                                                    *)

CloseQuietly(C) ==
  /\ subs' = [c \in Chats |-> IF c \in C THEN {} ELSE subs[c]]
  /\ UNCHANGED ended

(* closeSubscribers() of the buffers of the chats C *)
Close(C) ==
  /\ subs' = [c \in Chats |-> IF c \in C THEN {} ELSE subs[c]]
  /\ ended' = ended \cup UNION {subs[c] : c \in C}

NotReclaimed(c) == total

(* Math.max(0, totalEvents - ...), for the events of chat c's buffer *)
Reclaimed(c) == IF total >= Len(events[c]) THEN total - Len(events[c]) ELSE 0

(* Chat c has the buffer of turn b, or none: a new or a dropped buffer.    *)
Install(c, b) ==
  /\ stream' = [stream EXCEPT ![c] = b]
  /\ active' = [active EXCEPT ![c] = b # None]
  /\ events' = [events EXCEPT ![c] = <<>>]
  /\ disabled' = [disabled EXCEPT ![c] = FALSE]
  /\ opened' = [opened EXCEPT ![c] = {}]
  /\ telling' = [telling EXCEPT ![c] = {}]
  /\ sent' = [sent EXCEPT ![c] = 0]

(* finishStream() *)
Finish(c) ==
  /\ Close({c})
  /\ active' = [active EXCEPT ![c] = FALSE]

(* finishStreamIfCurrent() with the buffer of turn t *)
FinishIfCurrent(t) ==
  IF stream[ChatOf[t]] = t
  THEN Finish(ChatOf[t])
  ELSE UNCHANGED <<active, subs, ended>>

AcceptsAny(c, t) == active[c]

(* appendEvent(): whether chat c's buffer takes a chunk of turn t's tap *)
Accepts(c, t) == active[c] /\ stream[c] = t

(* openParts after a chunk of this kind and part was recorded at n *)
Reopened(c, kind, part, n) ==
  IF kind = "more"
  THEN opened[c]
  ELSE {i \in opened[c] : events[c][i].part # part}
         \cup (IF kind = "start" THEN {n} ELSE {})

(* The rest of appendEvent(): record the chunk, or disable replay, and     *)
(* broadcast it.                                                           *)
Accept(c, t, kind, part) ==
  LET n == sent[c] + 1
      kept == ~disabled[c] /\ Len(events[c]) < MaxEvents /\ total < Ceiling
      chunk == [by |-> t, kind |-> kind, part |-> part]
      frame == [chunk |-> chunk, pos |-> n, kept |-> kept, again |-> FALSE]
  IN /\ sent' = [sent EXCEPT ![c] = n]
     /\ telling' = [telling EXCEPT ![c] =
          IF kind = "start" THEN @ \cup {part} ELSE IF kind = "end" THEN @ \ {part} ELSE @]
     /\ disabled' = [disabled EXCEPT ![c] = ~kept]
     /\ IF kept
        THEN /\ events' = [events EXCEPT ![c] = Append(@, chunk)]
             /\ opened' = [opened EXCEPT ![c] = Reopened(c, kind, part, n)]
             /\ total' = total + 1
        ELSE UNCHANGED <<events, opened, total>>
     /\ wire' = [k \in Tabs |-> IF k \in subs[c] THEN Append(wire[k], frame) ELSE wire[k]]

(* openIndicesBeforeCursor, sorted *)
Ascending(S) ==
  CHOOSE s \in [1 .. Cardinality(S) -> S] : \A i, j \in 1 .. Cardinality(S) : i < j => s[i] < s[j]

(* What subscribe() enqueues for a cursor: the starts of the open parts up *)
(* to it, then every recorded chunk after it.                              *)
Replay(c, from) ==
  LET before == Ascending({i \in opened[c] : i <= from})
      frame(i, again) == [chunk |-> events[c][i], pos |-> i, kept |-> TRUE, again |-> again]
  IN [n \in 1 .. Len(before) |-> frame(before[n], TRUE)]
       \o [n \in 1 .. Len(events[c]) - from |-> frame(from + n, FALSE)]

(* A request for a stream is answered: tab k reads the buffer of turn b.   *)
Reads(k, b) ==
  /\ phase' = [phase EXCEPT ![k] = "reading"]
  /\ of' = [of EXCEPT ![k] = b]
  /\ parts' = [parts EXCEPT ![k] = {}]

-----------------------------------------------------------------------------
(* A turn.                                                                 *)

Tell(k, next) == phase' = [j \in Tabs |-> IF j = k THEN next ELSE phase[j]]

(* The POST up to its first await: replace(). The tab that sends it resets *)
(* its cursor; a POST of another client has poster None.                   *)
Post(t, k) ==
  LET c == ChatOf[t]
  IN /\ daemon = "serving" /\ state[t] = "idle"
     /\ \A u \in Turns : u < t => state[u] # "idle"
     /\ k \in Tabs => shown[k] = c /\ phase[k] \in {"ready", "dropped", "lost"}
     /\ state' = [state EXCEPT ![t] = "posted"]
     /\ poster' = [poster EXCEPT ![t] = k]
     /\ aborted' = aborted \cup ({registered[c]} \ {None})
     /\ registered' = [registered EXCEPT ![c] = t]
     /\ Tell(k, "sent")
     /\ cursor' = [j \in Tabs |-> IF j = k THEN 0 ELSE cursor[j]]
     /\ UNCHANGED <<daemon, ctl, buffers, subs, wire, ended,
                    shown, of, parts, merged, misled, breaks>>

(* No chat instance, or the adapter refuses the message.                   *)
PostFails(t) ==
  /\ daemon # "down" /\ state[t] = "posted"
  /\ state' = [state EXCEPT ![t] = "failed"]
  /\ Tell(poster[t], "ready")
  /\ UNCHANGED <<daemon, poster, ctl, aborted, registered, buffers, subs,
                 wire, ended, shown, of, parts, merged, cursor, misled, breaks>>

(* handleWebhook(): createStream(), the controller the registry holds by   *)
(* now, a task, and the stream as the answer.                              *)
Create(t) ==
  LET c == ChatOf[t]
      k == poster[t]
  IN /\ daemon # "down" /\ state[t] = "posted"
     /\ state' = [state EXCEPT ![t] = "running"]
     /\ poster' = [poster EXCEPT ![t] = None]
     /\ ctl' = [ctl EXCEPT ![t] = registered[c]]
     /\ Install(c, t)
     /\ total' = Reclaimed(c)
     /\ ended' = ended \cup subs[c]
     /\ subs' = [subs EXCEPT ![c] = {k} \cap Tabs]
     /\ IF k \in Tabs
        THEN /\ Reads(k, t)
             /\ merged' = [merged EXCEPT ![k] = <<>>]
             /\ misled' = misled \ {k}
        ELSE UNCHANGED <<phase, of, parts, merged, misled>>
     /\ UNCHANGED <<daemon, aborted, registered, shown, wire, cursor, breaks>>

(* The agent speaks, also after an abort and for a while after its end. A  *)
(* part it continues is one it has open; what the buffer of the chat does  *)
(* not take is dropped.                                                    *)
Emit(t, kind, part) ==
  LET c == ChatOf[t]
  IN /\ daemon # "down" /\ state[t] \in {"running", "finished", "closing"}
     /\ (stream[c] = t /\ kind # "start") => part \in telling[c]
     /\ IF Accepts(c, t)
        THEN sent[c] < MaxSent[t] /\ Accept(c, t, kind, part)
        ELSE UNCHANGED <<content, wire>>
     /\ UNCHANGED <<daemon, turns, stream, active, subs, tabs, ended>>

(* The handler's finally, whether thread.post() returned or threw.         *)
HandlerEnds(t) ==
  /\ daemon # "down" /\ state[t] = "running"
  /\ state' = [state EXCEPT ![t] = "finished"]
  /\ FinishIfCurrent(t)
  /\ UNCHANGED <<daemon, poster, ctl, aborted, registered, stream, content, tabs, wire>>

ReleaseAny(t) == registered' = [registered EXCEPT ![ChatOf[t]] = None]

(* release() *)
Release(t) ==
  registered' = IF ctl[t] # None /\ registered[ChatOf[t]] = ctl[t]
                THEN [registered EXCEPT ![ChatOf[t]] = None]
                ELSE registered

(* task.finally: also when the handler was skipped.                        *)
TaskEnds(t) ==
  /\ daemon # "down"
  /\ \/ state[t] = "finished"
     \/ state[t] = "running" /\ (Accepts(ChatOf[t], t) => sent[ChatOf[t]] = 0)
  /\ state' = [state EXCEPT ![t] = "closing"]
  /\ Release(t)
  /\ UNCHANGED <<daemon, poster, ctl, aborted, buffers, subs, tabs, wire, ended>>

(* The timer task.finally started.                                         *)
CloseTimer(t) ==
  /\ daemon # "down" /\ state[t] = "closing"
  /\ state' = [state EXCEPT ![t] = "done"]
  /\ FinishIfCurrent(t)
  /\ UNCHANGED <<daemon, poster, ctl, aborted, registered, stream, content, tabs, wire>>

(* DELETE /:chatId/stream of a workspace: abort() and finishStream().      *)
Cancel(c) ==
  /\ daemon = "serving"
  /\ aborted' = aborted \cup ({registered[c]} \ {None})
  /\ registered' = [registered EXCEPT ![c] = None]
  /\ Finish(c)
  /\ UNCHANGED <<daemon, state, poster, ctl, stream, content, tabs, wire>>

(* DELETE /api/chat/:chatId/stream: finishStream() alone.                  *)
StopShowing(c) ==
  /\ daemon = "serving"
  /\ Finish(c)
  /\ UNCHANGED <<daemon, turns, stream, content, tabs, wire>>

(* cleanup(): a buffer is past its time, whether finished or stale. A pass *)
(* that drops several buffers is several of these steps in a row.          *)
Cleanup(c) ==
  /\ daemon # "down" /\ stream[c] # None
  /\ Install(c, None)
  /\ total' = Reclaimed(c)
  /\ Close({c})
  /\ UNCHANGED <<daemon, turns, tabs, wire>>

-----------------------------------------------------------------------------
(* A tab.                                                                  *)

(* It reads the next frame; the tracker commits the frame's id.            *)
Read(k) ==
  /\ phase[k] = "reading" /\ wire[k] # <<>>
  /\ LET f == Head(wire[k])
     IN /\ parts' = [parts EXCEPT ![k] =
             IF f.chunk.kind = "start" THEN @ \cup {f.chunk.part}
             ELSE IF f.chunk.kind = "end" THEN @ \ {f.chunk.part} ELSE @]
        /\ merged' = [merged EXCEPT ![k] =
             IF f.again \/ k \in misled THEN @ ELSE Append(@, f.pos)]
        /\ cursor' = [cursor EXCEPT ![k] = IF f.kept /\ f.pos > @ THEN f.pos ELSE @]
  /\ wire' = [wire EXCEPT ![k] = Tail(@)]
  /\ UNCHANGED <<daemon, turns, buffers, subs, phase, shown, of, misled, breaks, ended>>

(* The message tab k was reading is of no interest to it any more.         *)
Forget(k) ==
  /\ of' = [of EXCEPT ![k] = None]
  /\ parts' = [parts EXCEPT ![k] = {}]
  /\ merged' = [merged EXCEPT ![k] = <<>>]
  /\ misled' = misled \ {k}

(* [DONE] *)
ReadDone(k) ==
  /\ phase[k] = "reading" /\ wire[k] = <<>> /\ k \in ended
  /\ Tell(k, "ready")
  /\ ended' = ended \ {k}
  /\ Forget(k)
  /\ UNCHANGED <<daemon, turns, buffers, subs, shown, cursor, breaks, wire>>

(* The connection is gone with what it still carried; unsubscribe().       *)
Disconnect(k) ==
  /\ subs' = [c \in Chats |-> subs[c] \ {k}]
  /\ wire' = [wire EXCEPT ![k] = <<>>]
  /\ ended' = ended \ {k}
  /\ breaks[k] < MaxBreaks
  /\ breaks' = [breaks EXCEPT ![k] = @ + 1]

(* The tab resumes by itself if it has seen a frame.                       *)
Drop(k) ==
  /\ phase[k] = "reading"
  /\ Disconnect(k)
  /\ IF cursor[k] > 0
     THEN /\ Tell(k, "dropped")
          /\ parts' = [parts EXCEPT ![k] = {}]
          /\ UNCHANGED <<of, merged, misled>>
     ELSE Tell(k, "ready") /\ Forget(k)
  /\ UNCHANGED <<daemon, turns, buffers, shown, cursor>>

(* The user goes to chat c: the component, and its cursor, stay. A reload  *)
(* of the page starts without a cursor.                                    *)
Leave(k, c, reload) ==
  /\ Disconnect(k)
  /\ Tell(k, "opening")
  /\ shown' = [shown EXCEPT ![k] = c]
  /\ cursor' = [cursor EXCEPT ![k] = IF reload THEN 0 ELSE @]
  /\ poster' = [t \in Turns |-> IF poster[t] = k THEN None ELSE poster[t]]
  /\ Forget(k)
  /\ UNCHANGED <<daemon, state, ctl, aborted, registered, buffers>>

(* GET /:chatId/stream with the cursor as Last-Event-ID. A tab that opens  *)
(* the chat starts a new message, one that dropped goes on with the last.  *)
Resume(k) ==
  LET c == shown[k]
      continues == phase[k] = "dropped" /\ of[k] = stream[c]
  IN /\ daemon = "serving" /\ phase[k] \in {"opening", "dropped"}
     /\ active[c] /\ ~disabled[c]
     /\ subs' = [subs EXCEPT ![c] = @ \cup {k}]
     /\ wire' = [wire EXCEPT ![k] = Replay(c, cursor[k])]
     /\ ended' = ended \ {k}
     /\ Reads(k, stream[c])
     /\ merged' = [merged EXCEPT ![k] = IF continues THEN @ ELSE <<>>]
     /\ misled' = IF continues THEN misled
                  ELSE IF cursor[k] > 0 THEN misled \cup {k} ELSE misled \ {k}
     /\ UNCHANGED <<daemon, turns, buffers, shown, cursor, breaks>>

(* 204: nothing to resume; 410: the buffer cannot be replayed.             *)
ResumeRefused(k) ==
  LET c == shown[k]
  IN /\ daemon = "serving" /\ phase[k] \in {"opening", "dropped"}
     /\ \/ ~active[c] /\ Tell(k, "ready")
        \/ active[c] /\ disabled[c] /\ Tell(k, "lost")
     /\ Forget(k)
     /\ UNCHANGED <<daemon, turns, buffers, subs, wire, ended, shown, cursor, breaks>>

-----------------------------------------------------------------------------
(* The shutdown of the daemon.                                             *)

LiveOrNot == {registered[c] : c \in Chats}

(* The controllers drainShutdown() and shutdown() find.                    *)
Live == {registered[c] : c \in Chats} \ {None}

(* The HTTP server is closed, drainShutdown() aborts every turn.           *)
Drain ==
  /\ daemon = "serving"
  /\ daemon' = "draining"
  /\ aborted' = aborted \cup Live
  /\ UNCHANGED <<state, poster, ctl, registered, buffers, subs, tabs, wire, ended>>

(* Every turn has released its controller, or the time is up; shutdown()   *)
(* of both registries, after phases that change nothing here.              *)
Down ==
  /\ daemon = "draining"
  /\ daemon' = "down"
  /\ aborted' = aborted \cup Live
  /\ registered' = [c \in Chats |-> None]
  /\ Close(Chats)
  /\ stream' = [c \in Chats |-> None]
  /\ active' = [c \in Chats |-> FALSE]
  /\ events' = [c \in Chats |-> <<>>]
  /\ disabled' = [c \in Chats |-> FALSE]
  /\ opened' = [c \in Chats |-> {}]
  /\ telling' = [c \in Chats |-> {}]
  /\ sent' = [c \in Chats |-> 0]
  /\ total' = 0
  /\ UNCHANGED <<state, poster, ctl, tabs, wire>>

TurnStep(t) ==
  \/ \E k \in Tabs \cup {None} : Post(t, k)
  \/ PostFails(t) \/ Create(t) \/ HandlerEnds(t) \/ TaskEnds(t) \/ CloseTimer(t)
  \/ \E kind \in Kinds, part \in Parts : Emit(t, kind, part)

TabStep(k) ==
  \/ Read(k) \/ ReadDone(k) \/ Drop(k) \/ Resume(k) \/ ResumeRefused(k)
  \/ \E c \in Chats, reload \in BOOLEAN : Leave(k, c, reload)

Next ==
  \/ \E t \in Turns : TurnStep(t)
  \/ \E k \in Tabs : TabStep(k)
  \/ \E c \in Chats : Cancel(c) \/ StopShowing(c) \/ Cleanup(c)
  \/ Drain \/ Down

Spec == Init /\ [][Next]_vars

(* A turn ends, its timer fires, and what has arrived is read. Nothing is  *)
(* assumed of users, of cleanup() or of the shutdown.                      *)
Fairness ==
  /\ \A t \in Turns : WF_vars(HandlerEnds(t) \/ TaskEnds(t)) /\ WF_vars(CloseTimer(t))
  /\ \A k \in Tabs : WF_vars(Read(k) \/ ReadDone(k))

FairSpec == Spec /\ Fairness

-----------------------------------------------------------------------------
Chunks == [by : Turns, kind : Kinds, part : Parts]
Frames == [chunk : Chunks, pos : Nat, kept : BOOLEAN, again : BOOLEAN]

TurnsOK ==
  /\ daemon \in {"serving", "draining", "down"}
  /\ state \in [Turns -> {"idle", "posted", "failed", "running", "finished", "closing", "done"}]
  /\ poster \in [Turns -> Tabs \cup {None}]
  /\ ctl \in [Turns -> Turns \cup {None}]
  /\ aborted \subseteq Turns
  /\ registered \in [Chats -> Turns \cup {None}]

BuffersOK ==
  /\ stream \in [Chats -> Buffers]
  /\ active \in [Chats -> BOOLEAN] /\ disabled \in [Chats -> BOOLEAN]
  /\ events \in [Chats -> Seq(Chunks)] /\ sent \in [Chats -> Nat] /\ total \in Nat
  /\ opened \in [Chats -> SUBSET Nat] /\ telling \in [Chats -> SUBSET Parts]

TabsOK ==
  /\ subs \in [Chats -> SUBSET Tabs]
  /\ phase \in [Tabs -> {"opening", "ready", "sent", "reading", "dropped", "lost"}]
  /\ shown \in [Tabs -> Chats] /\ of \in [Tabs -> Buffers]
  /\ wire \in [Tabs -> Seq(Frames)] /\ ended \subseteq Tabs
  /\ parts \in [Tabs -> SUBSET Parts] /\ merged \in [Tabs -> Seq(Nat)]
  /\ cursor \in [Tabs -> Nat] /\ misled \subseteq Tabs /\ breaks \in [Tabs -> Nat]

(* Every variable keeps to its domain; only controllers are ever aborted.  *)
TypeOK == TurnsOK /\ BuffersOK /\ TabsOK

(* The parts open at tab k's SDK once it has read the first n frames that  *)
(* are on its wire.                                                        *)
OpenAfter(k, n) ==
  LET chunk(i) == wire[k][i].chunk
      closes(p, i) == chunk(i).part = p /\ chunk(i).kind = "end"
      opens(p, i) == chunk(i).part = p /\ chunk(i).kind = "start"
  IN {p \in Parts : \/ p \in parts[k] /\ \A i \in 1 .. n : ~closes(p, i)
                    \/ \E i \in 1 .. n : opens(p, i) /\ \A j \in i + 1 .. n : ~closes(p, j)}

(* What tab k has on its wire: a starts that are emitted again, then the   *)
(* chunks that follow those it has merged, without a gap; all of them, if  *)
(* it is subscribed.                                                       *)
Continues(k, a) ==
  /\ \A i \in DOMAIN wire[k] : wire[k][i].again <=> i <= a
  /\ \A i \in DOMAIN wire[k] : i > a => wire[k][i].pos = Len(merged[k]) + (i - a)
  /\ \A c \in Chats : k \in subs[c] =>
       of[k] = stream[c] /\ Len(merged[k]) + (Len(wire[k]) - a) = sent[c]

(* A tab that follows a turn has merged, or has on the wire, every chunk   *)
(* the turn's buffer accepted up to some point, each once and in order,    *)
(* and up to the last one while it is subscribed: across drops, resumes,   *)
(* overflow and replacement. Exempt is only a tab that resumed with a      *)
(* cursor that does not count this message: the cursor names no turn, so   *)
(* subscribe() skips chunks such a tab never saw.                          *)
Complete(k) ==
  k \in misled \/
  /\ \A i \in DOMAIN merged[k] : merged[k][i] = i
  /\ \E a \in 0 .. Len(wire[k]) : Continues(k, a)

(* Whatever its cursor, a subscribed tab will have open exactly the parts  *)
(* the agent has open, so no chunk still to come trips the SDK.            *)
InStep(k) ==
  \A c \in Chats : k \in subs[c] => OpenAfter(k, Len(wire[k])) = telling[c]

(* No chunk of a replaced turn reaches a tab that reads its successor.     *)
OneTurn(k) == \A i \in DOMAIN wire[k] : wire[k][i].chunk.by = of[k]

(* totalEvents is exactly the number of chunks the registered buffers      *)
(* hold, so the quota neither leaks (which would in time disable replay    *)
(* for every chat of the process) nor runs below zero: across replacement, *)
(* overflow, clean-up and late chunks of a replaced turn.                  *)
Held == UNION {{c} \X DOMAIN events[c] : c \in Chats}

Accounting == IsFiniteSet(Held) /\ total = Cardinality(Held)

(* What StreamRegistry promises to the tabs of a chat: Complete, InStep    *)
(* and OneTurn, together.                                                  *)
Delivered == \A k \in Tabs : Complete(k) /\ InStep(k) /\ OneTurn(k)

(* The comments of openParts and of subscribe(): an open start is emitted  *)
(* again, since without it a delta past the cursor trips the SDK's "delta  *)
(* for missing part". No chunk of a part reaches a connection on which the *)
(* part is not open.                                                       *)
NoMissingPart ==
  \A k \in Tabs : \A i \in DOMAIN wire[k] :
    wire[k][i].chunk.kind # "start" => wire[k][i].chunk.part \in OpenAfter(k, i - 1)

(* A turn that still runs under the controller its own POST registered is  *)
(* aborted, or the registry holds that controller, so that a cancellation, *)
(* a follow-up message or the shutdown reaches it; unless another turn     *)
(* runs under the same controller. (That happens: a POST overtaken between *)
(* replace() and handleWebhook() picks up its successor's controller, and  *)
(* its release() then drops it.)                                           *)
OwnReachable ==
  \A t \in Turns :
    state[t] \in {"running", "finished"} /\ ctl[t] = t =>
      \/ t \in aborted
      \/ registered[ChatOf[t]] = t
      \/ \E u \in Turns \ {t} : ctl[u] = t

(* No tab hangs on a stream: every connection is closed in the end, though *)
(* finishStreamIfCurrent() leaves a replaced buffer alone.                 *)
ReadersEnd == \A k \in Tabs : phase[k] = "reading" ~> phase[k] # "reading"
=============================================================================
