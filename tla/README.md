# A verification of Friday Studio's daemon core

Friday Studio is a local daemon (`apps/atlasd`) that runs *workspaces*: bundles of
agents, jobs and signals. A signal (an HTTP call, a cron slot, a file change) is
published to a NATS JetStream stream, forwarded to a second stream and run as a
*cascade* under a concurrency policy. This directory holds TLA+ models of the parts
of that path where the order of steps decides whether the system is right, the TLC
configurations that check them on small instances, and TLAPS proofs that carry the
most important results to every value of the constants.

`PROJECT.json` lists the components, the runs with their properties, the theorems,
the mutants (one plausible bug of the code for each property, which the run then
catches), the hazards, and for every definition the source lines it models.

## 1. Inventory

| Component | State it keeps | Operations | What is hard | What makes it right |
|---|---|---|---|---|
| **CascadeConsumer** `apps/atlasd/src/cascade-stream.ts` | registry of running cascades per (workspace, signal), queue tails and policy locks per key, slot semaphore and its waiters, correlation maps, saturation flag | publish, handle, run, cancel, stop, start | handlers are not awaited: dozens interleave at every await; acknowledges *before* running; aborts race registration | slots neither leak nor overcommit; each policy's exclusion; a cancellation reaches its cascade while its record is kept; one attempt to answer each caller; every envelope settles |
| **Signal publishing, SignalConsumer** `signal-stream.ts` | SIGNALS stream, batch in hand | publishSignal, forward, ack, nak, dead-letter, await completion | redelivery after a crash between forward and ack, deduplication window against queue timeout against caller timeout | at most one run, nothing lost between the streams, nothing taken up for a caller already told of a timeout, nobody waits for ever |
| **CronManager** `packages/cron/src/cron-manager.ts` | timers in memory, one key-value row each | start, register, unregister, check, fire, pause, shutdown, the four onMissed policies | memory and row change in different steps; restarts decide from the row what was missed | a slot is told once and lost in known ways only, the operator's pause survives |
| **MCP ProcessRegistry** `packages/mcp/src/process-registry.ts` | cache of shared server processes, spawns under way, a pid file per server | acquire, evict, shutdown | concurrent acquires around awaits, a child that dies between readiness and its listener, children that ignore SIGTERM, probes nobody answers | one live process per server, no stale record, every acquire ends unless a probe hangs, who may lose its last owner |
| **StreamRegistry, ChatTurnRegistry** `stream-registry.ts`, `chat-turn-registry.ts`, the chat routes and the browser tab | buffered events and subscribers per chat, open parts, a quota over all chats, the controller of the current turn | create, append, finish, subscribe, cleanup; replace, abort, release, drain | a turn is replaced while the old one still appends; a tab drops and resumes by a cursor | a tab sees every chunk of one turn, once, in order, and an end; the quota is exact; a turn can be cancelled |
| **Elicitations** `packages/core/src/elicitations`, `routes/elicitations`, `wait.ts` | one key-value row per question, a reserve marker, an event stream | create, answer, decline, reserve, expire, delete, wait | read-then-update races, replies that are lost, crashes between disk and row | one outcome by one party; answered means applied; the waiting tool is told in time; a verdict is not removed |
| **Migrations** `packages/jetstream/src/migrations.ts` | lock entry with a time to live, applied set | lock, run, release | takeover of a lock nobody renews; release is read-then-delete | one migrator at a time |
| **FSM engine** `packages/fsm-engine` | state, documents, queue of raised signals | signal, transition, persist | recursion, commit in memory before persist | no half-applied transition is visible |
| **Session history, chat storage** | event streams and summaries | append, finalize, list | summary and events written by different steps | a finished session has its summary |
| **Workspace manager and runtime** `packages/workspace` | registry of workspaces, runtimes | register, watch, delete, close | its calls into the registrars | the calls themselves appear in CronTimers |
| **Webhook tunnel** `tools/webhook-tunnel` | one tunnel process, generation, health | start, reconnect, probe, stop | an exit racing a reconnect | it comes back |
| HTTP routes, daemon lifecycle, file watching, agent orchestration, Link, CLI, playground, installer, launcher, stores, LLM and schema libraries | | | mostly I/O, request handling or pure data | listed in `PROJECT.json` with the reason each is left out |

How they interact:

```
HTTP trigger ─┐
cron slot ────┼─ publishSignal ─► SIGNALS ─ SignalConsumer ─► CASCADES ─ CascadeConsumer ─► dispatcher
file change ──┘                   (redelivers)                (one delivery)       │  policy, slot
      ▲                                                                            ▼
      └──────── awaitSignalCompletion ◄──────── signals.responses.<id> ◄─────── answer
      └──────── signals.cancel.<id> ───────────────────────────────────► abort
WorkspaceManager ── register / unregister ──► CronManager ◄──► key-value rows
```

## 2. Plan

Built, in this order of importance:

1. `CascadeContract` (abstract) and `Cascade`, which implements it; `Cascade_proofs`,
   `CascadePolicy_proofs`.
2. `SignalPipeline`, the way from a trigger to the admission of its cascade, with the
   HTTP caller; it relies on Cascade for what happens after admission.
   `SignalPipeline_proofs`.
3. `CronTimers`, one timer against its row through restarts; `CronTimers_proofs`.
4. `ProcessRegistry`, one shared server through acquires, evictions, exits and a
   shutdown; `ProcessRegistry_proofs`.
5. `ElicitationContract` (abstract) and `Elicitations`, which implements it;
   `Elicitations_proofs`.
6. `ChatStreams`: both chat registries, the routes and the tab that reads and resumes;
   `ChatStreams_proofs`, `ChatDelivery_proofs`.

The modules do not share state in the code and are therefore not composed, except where
one takes over from the other: `SignalPipeline` ends where `Cascade` begins, and each
models the other's side by what it may answer. Next, as far as they stay small:

7. `MigrationLock` (a lock with a time to live that nobody renews), `TunnelManager` (an
   exit racing a reconnect), `FSMEngine` (commit in memory before persist).

Every safety property that a passing run checks, and both refinements, are theorems. Still
worth proving: properties of the modules to come, and of the parts of CronManager that
`CronTimers` leaves out.

## 3. The modules

### Cascade

One action is one uninterrupted stretch of the event loop, the code between two awaits.

| Code | Model |
|---|---|
| `inFlight`, `queueTails`, `policyLocks` | `inFlight`, `chain`, `locks` per key; a promise chain is the sequence of those on it |
| `cascadeInFlight`, `cascadeWaiters` | `slots`, `waiters` |
| `correlatedInFlight`, `cancelledCorrelations` | `correlated`, `cancelled`; `owed` remembers the cancellations received, less those whose record was pruned before their cascade registered |
| the publish in `publishResponse`, which may throw and is then only logged | `Publishes`: `answers`, or `unheard` for a response that could not be sent |
| `replacedExisting`, `sessionId` of a cascade | `replaced`, `sessions`; `surfaced` remembers the events |
| `AbortController` | `aborted` |
| where a handler is suspended | `phase[m]`: resolving, deciding, chained, waiting, granted, dispatching, surfacing |
| `runLoop` | `Deliver`; `maxAckPending` bounds the unacknowledged |
| `handleMessage` | `ExpireStale`, `Resolve`, then under the lock `SkipDuplicate`, `EnterChain`, `RunAtOnce` |
| `runCascade` | `RunCascade` (register, consult the cancellation record, ask for a slot), `Dispatch` or `RefuseAborted`, `DispatchOk`, `DispatchError`, `SurfaceReplaced` (both take the single `Walk` over `replacedExisting`), `Finish` |
| `stop()`, process end, `start()` | `Stop`, `AbortAll`, `Exit`, `Start` |

The dispatcher (`triggerWorkspaceSignal`) is its answer: a session or an error, whether or
not it noticed an abort. The policy of a key is drawn from a set at each lookup, since
workspace.yml is edited while cascades run, and `"skip"` is always in it because the
resolver falls back to it when the configuration cannot be read. Time enters as choice:
an envelope may or may not have outlived the queue timeout when it is delivered.

`CascadeContract` says what a caller may rely on: an accepted envelope runs at most once,
at most `Cap` run at a time, and for each concluded envelope that somebody waits for there
is one attempt at an answer, which is heard or lost in publishing; a process end cuts all
this short. `ImplementsContract` maps `phase`, `answers` and `unheard` onto it.

Two losses are the code's own and are named in the properties, not modelled away. A caller
whose response could not be published (connection closed, payload too large) hears nothing
until its own timeout: `AnsweredOnce` counts it in `unheard`. And `pruneStaleCancellations`
drops a cancellation after an hour whatever became of its envelope; one still waiting in an
unbounded chain is then dispatched as if nobody had cancelled. `CancelReaches` therefore
speaks of `owed`, which a cancellation leaves only in this way or by the end of the process.

`MCCascadeOrder` adds a history variable, the order of the stream, to state a comment of
the code about arrival order.

### SignalPipeline

The broker is external: storing, deduplicating by msgID, delivering, redelivering up to
`MaxDeliver`, and remembering acknowledgements are modelled from how the code uses them.
`hand` is what `handleMessage` is busy with, `batch` what `runLoop` has fetched and not yet
handled, each with its own delivery count. Between `ForwardCascade` and `AckSignal` the
daemon can die, the acknowledgement wait can lapse, or the publish can fail after the
broker stored the message. The acknowledgement wait is unconstrained: it may lapse at any
time, which also covers a lost acknowledgement. `Trigger` spans subscribe, flush and
publish, which no other step of this model can tell apart. What a cascade does between its
admission and its answer is left to Cascade; here it may be answered at any time or never.
Admission is the moment an envelope is taken up from CASCADES and its policy decided, after
the one check of its age. It is not the beginning: a queued envelope waits in its chain and
every cascade for a slot, with no further look at its age, and the route sends no
cancellation when its wait is over. So `AdmittedInTime` says that a copy still on CASCADES
when its caller is told of a timeout is refused; a cascade taken up in time may still begin
for a caller who has gone, and nothing in the code or here promises otherwise.
Cancellation by a client that disconnects is in Cascade too.

Time is a clock of coarse ticks. The constants satisfy `WindowAssumption`: the queue
timeout is no longer than the duplicate window and shorter than the caller's patience, as
the defaults of the code are (5, 5 and 10 minutes). The theorems need exactly this.

### CronTimers

One timer; timers share no state and have separate rows. `timer` is the entry in memory,
`store` the row, `wire` the writes under way in order (`persistTimer` is awaited by the
handler that calls it, but handlers do not wait for each other), `ready` the slots whose
row is written and whose wake-up is next. `fireOnce` changes memory, writes the row and
only then publishes; so does the report of the policy `manual`. A write may fail having
been applied or not. `told` counts how often each slot was fired or reported; `excused`
collects what was given up knowingly: by `skip`, by the window, by a fault that hit that
slot's own fire, the slots of a `catchup` still to come when it is interrupted, since
its first fire has already moved the row past them (`Held`), and the slots `PassedOver`:
when several have come due before a check (a pause, a sleep of the machine, a held-up
loop), `executeTimer` fires one signal for the first and the others are never told. `birth`
restarts when a schedule is registered without a row or is edited: earlier slots are not
its own.

Not modelled: `pruneOrphanedTimers` (the workspace is known), two registrations of one
signal at the same time, an edit of workspace.yml while `start()` runs.

### ProcessRegistry

One serverId; servers share no state. A call of `acquire()` that spawns names the entry
and the child it creates, so `Calls` is the set of callers, entries and children.

| Code | Model |
|---|---|
| where `acquire()` is suspended | `pc[c]`: idle, settling and exiting (in `evictEntry`), waiting, held, refused |
| `entry.specHash`, the entry it evicts or awaits | `want[c]`, `target[c]` |
| the entry's promise | `stage[e]`: starting, hung (in a probe that does not come back), answered (a probe was answered), writing (the pid file), listening or deaf, failed |
| the process | `child[e]`: running, terminating, killed, dead |
| `entries.get(serverId)` | `cached`: one entry or none, overwritten without a look |
| the pid file | `pidFile` |
| `disposed`, `shutdown()` | `shut`, `victims` |

An exit is one step: the runtime sets `exitCode` and runs the listeners before any other
code. The ready URL is a fixed port, hence any living process may answer the probe of any
entry; it may also leave it hanging, since the readiness loop awaits `fetch` with no
timeout and looks at its deadline only between probes. A "deaf" entry got its exit listener after its child had exited: it stays in the
cache, which `RecordsLive` excepts by its stage.

`OrphanedInTwoWays` is about owners: a running child loses the last one when a call that
had evicted another entry overwrites it, or when `shutdown()` finds it still starting.
These are not the only ways a process is left behind: a child whose start timed out is told
to terminate and forgotten, also when it ignores SIGTERM (the property counts untold
children only), and a call whose eviction straddles `shutdown()` spawns afterwards and caches
its child where no shutdown will look again. stderr, back-off and the pid file's
content are left out.

### ElicitationContract and Elicitations

One elicitation; they share no state. `row` is its key-value entry with a revision, `by`
and `at` remembering who settled it and when. Requests and the sweeper (`Actors`) read
(`ReadPending`, `SweepRead`) and then `Update` with the revision they read; `seen` is what
each has read. Every call to the store is one step, `UpdateReplyLost` an update that is
stored though its caller sees an error. `Receive` is the handler's first read and its
branch: a confirmed `env-write` goes to `Commit`, a `workspace-setup` first through
`ReserveCheck` and `ReserveCreate`, anything else to `ReadPending`. `applied` says how much
of the answer reached the disk; `Commit` may write all, a part or nothing. `waiter`, `inbox`
and `told` are the blocked tool: subscribe, read, then messages, polls and the deadline.
`Crash` loses everything under way; rows and marker stay.

`ElicitationContract` is the one-shot register the interface promises: opened once,
settled once by one party, and success is reported to that party only. A verdict is kept,
with the one exception the code makes: a removal that found the question open (`Doom`) may
fall on it after it was settled (`Remove`), or come to nothing (`Spare`). The mapping takes
the outcome from the row's status, the winner from `by`, the acknowledged from the
requests that ended in "ok", and `doomed` from a deletion between its read and its delete.

What the model shows of the code besides its properties: the marker is never released, so
a `workspace-setup` whose validation failed with 400 is answered 409 on every retry (the
code documents this for failures of the commit); the deletion of a workspace deletes a row
that was found pending even if it has been answered since (`elicitations_audit`), and a tool
that waits on it is then told *expired* in spite of the timely answer, the one exception
`ToldInTime` makes; a waiter may be told *expired*
while an answer still lands within the grace; a decline may win after a request has
already written its values to disk (documented at `routes/elicitations/index.ts:473`).

### ChatStreams

A turn is the number of its POST, the controller that POST registered and the buffer its
request creates. Only the buffer registered for a chat is ever read, others are compared
with it by identity: hence `stream[c]` is a turn and the fields of the buffer (`events`,
`active`, `disabled`, `opened`, `subs`) belong to the chat.

| Code | Model |
|---|---|
| `ChatTurnRegistry.controllers`, the captured controller, aborted signals | `registered`, `ctl`, `aborted` |
| the POST: `replace()`, then after an await `createStream()` and `get()` | `Post`, then `Create` or `PostFails` |
| the agent's chunks through the tap | `Emit`; `telling` and `sent` record what the buffer accepted |
| the handler's `finally`, `task.finally`, its timer | `HandlerEnds`, `TaskEnds`, `CloseTimer` |
| DELETE of a workspace chat, of the legacy route | `Cancel`, `StopShowing` |
| `cleanup()` | `Cleanup`, one buffer per step |
| `drainShutdown()`, both `shutdown()` | `Drain`, `Down` |
| the tab: connection, SDK, cursor | `wire`, `ended`; `parts`, `merged`; `cursor` |
| auto-resume, navigation, reload | `Drop`, `Leave`, `Resume`, `ResumeRefused` |

A chunk is its turn, its part and whether it starts, continues or ends it. When a tab
drops or leaves, its subscription ends at once; the server may notice later, but what it
writes meanwhile reaches nobody. A turn whose handler is skipped ends without a chunk.

What the model shows of the code besides its properties, all of it needing two requests
within one await or a quick navigation: a POST overtaken between `replace()` and
`handleWebhook()` picks up its successor's controller, so the superseded turn is never
aborted and its `release()` drops the successor's (`OwnReachable` excepts it); a DELETE in
that gap leaves a turn that runs without a controller; a POST that fails leaves its
controller registered, and the drain then waits its whole timeout; the cursor names no
turn and `UserChat` keeps it when the user goes to another chat, so that a resume there
skips chunks (the tabs in `misled`, which `Complete` excepts).

## 4. The runs

| Run | Asks | Bounds |
|---|---|---|
| `cascade` | the semaphore, the policies, cancellation with its pruning, the saturation flag, answers and those that cannot be published, the refinement of `CascadeContract`, and `EveryEnvelopeSettles` | three envelopes of one key, two slots, one correlated caller; the policies skip, concurrent and replace, each with the fall-back to skip, and queue, replace and skip mixed by edits; `stop()` and any number of crashes |
| `cascade_order` | a comment on arrival order, *violated* | as above, policy queue |
| `cascade_replace` | a comment on replaced events, *violated* | as above, policy replace |
| `signal` | `AdmittedOnce`, `AckedWasForwarded`, `AdmittedInTime`, `SignalSettles`, `CallerReleased` | two calls for one signal, three deliveries each, windows 1/1/2 ticks, two ticks, two crashes |
| `signal_merged` | a comment on acknowledged publishes, *violated* | two calls, two deliveries, three ticks, no crash |
| `cron` | `ToldOnce`, `Accounted`, `StoreAgrees` | three slots, every policy, window of 3 instants with a period of 2, two writes under way, one crash or failure, one graceful stop, one edit |
| `cron_stop` | the doc of `registerTimer`, *violated* | no fault, one graceful stop |
| `process_registry` | `OneServer`, `RecordsLive`, `OrphanedInTwoWays`, `AcquireSettles` | three acquires, all of one spec or one of another, a shutdown; every exit, failure, timeout and hanging probe at any moment |
| `elicitations` | `AnsweredApplied`, `ToldInTime`, `ImplementsContract`, `WaiterReturns`, `PendingCloses` | each of three kinds, two requests, deadline 1, grace 1, three ticks, one lost reply, one crash |
| `elicitations_audit` | the doc of `deletePendingByWorkspace`, *violated* | the same, no fault, no crash |
| `chat_streams` | `Accounting`, `Delivered`, `OwnReachable`, `ReadersEnd` | two turns of one chat (three chunks and one), a tab that breaks or leaves once, a buffer of two chunks |
| `chat_streams_resume` | a comment on resuming, *violated* | the same |

Why the bounds are enough to be interesting. With three envelopes and two slots one waits
at the semaphore while another holds a lock or is chained; a key may have a running, a
chained and an undecided envelope at once, and a replacement may itself be replaced. Keys
meet only at the semaphore and in the saturation count, which is symmetric in them, so one
key with as many envelopes as two keys would have reaches the same contention; the proofs
cover any number of keys. Two calls of one signal are what merging needs, three deliveries
let a redelivery be redelivered, and two crashes fall on both. After two ticks the broker
has forgotten what it stored at the start, and the timer of a call made then is due: later
calls add nothing but the same case shifted, and the proofs of the safety properties hold
for any windows and horizon. Three slots let one be fired, one be missed within the window
and one beyond it.
Three acquires are what a drift during an eviction needs: one child to evict, two calls
that race to replace it. Two requests race each other and the sweeper; with a deadline and
a grace of one tick each, three ticks reach the instants before, at, between and after.
Two turns make one replacement; a buffer of two chunks with three to come overflows, and
the one part can be started, continued and ended within it, with the drop anywhere between.
The ceiling of all chats is three, which one chat's buffer reaches only if the quota leaks.
`CHECK_DEADLOCK FALSE` stands where the clock's horizon, or the end of all calls, turns
and connections, lets a behaviour stop.

**Fairness.** `Cascade`: the event loop never rests while something is ready. The fetch loop
keeps fetching while it runs, promises settle, and a dispatcher settles because sessions end
by their own timeouts; one weak fairness over all of them is enough, as each envelope takes
finitely many steps. Publishing, cancelling, stopping and crashing are never required.
`SignalPipeline`: the clock advances, the consumer fetches and handles, the caller's timer fires. All weak: each action, once
possible, stays so until it or a step that makes it moot happens. `ProcessRegistry`: file
writes and timers complete, a killed process exits, and a connection that no living process
is left to serve breaks; no call, answer to a probe or exit of its own is assumed. The
readiness loop looks at its deadline after every probe that comes back, so its steps are
strongly fair: probes may hang and fail in turn. That a probe comes back at all is *not*
assumed of the code, which awaits `fetch` without a limit: it is the hypothesis of
`AcquireSettles`, written in the property itself. A child that takes the connection and
never answers holds every acquire that joins or evicts its entry. `Elicitations`: the clock
advances, the sweeper's interval fires and its pass goes on, the tool polls and its deadline
comes; no answer is assumed. `ChatStreams`: an agent's turn ends, the timer that closes its
buffer fires, and a tab reads what has arrived; nothing of users, `cleanup()` or shutdown.

**Runs that show the code disagree with its words** (details under "findings"):

- `cascade_order`: the policy lookup precedes the lock, so two queued envelopes can chain
  out of arrival order.
- `cascade_replace`: a cascade replaced while it waits for its slot, or whose dispatch
  threw, has no session id and no `cascade.replaced` event.
- `signal_merged`: two triggers of one signal in one millisecond share a msgID; the second
  is dropped and its caller waits for the timeout.
- `cron_stop`: a graceful shutdown (and any edit of workspace.yml) unregisters the timers
  and deletes their rows, so that pauses and missed slots are forgotten, although a crash
  keeps them.
- `elicitations_audit`: the deletion of a workspace checks that a row is pending and then
  deletes it without its revision; a verdict stored in between is deleted, though the
  interface promises to keep settled rows as audit history.
- `chat_streams_resume`: a part that closes while its tab is away is no longer among the
  open parts, so the resume replays its deltas and end without the start, the case the
  re-emission of starts is there to prevent.

Known and not given a run of its own: `computeMissedSlots` includes `lastExecution` itself,
so `manual` reports its last slot again at the next restart that finds the timer overdue,
contrary to two comments. `ToldOnce` therefore excepts exactly those slots. The doc of
`checkTimers` documents that several due slots are coalesced into one signal and refers
those who need every slot to `onMissed: catchup`; but the policies act in `start()` only, so
a catchup timer that is paused and resumed, or whose machine slept, loses slots as any other.
`Accounted` counts these as lost in a known way (`PassedOver`).

## 5. The proofs

All theorems hold for every value of the constants that satisfies the named assumptions
`CascadeAssumption`, `PipelineAssumption` with `WindowAssumption`, `CronAssumption`,
`RegistryAssumption`, `ElicitationAssumption` and `ChatStreamAssumption`. These say what
kind of values the constants are (a `None` is none of the things it stands beside, caps and
periods are positive, the envelopes and calls are finitely many), that a deadline lies
within the horizon, and, in `WindowAssumption`, how the configured windows are ordered.
Nothing bounds a constant from above otherwise.

`Cascade_proofs`: `CascadeTypeCorrect`, `CascadeSlotsExact`, `CascadeWorkConserving` and
`CascadeImplementsContract`. `SlotsExact` is not inductive: when `releaseSlot` wakes the
head of `waiters`, that envelope must be one that was waiting, once, and not also hold a
slot. The invariant therefore adds that `waiters` has no repetition and holds exactly the
envelopes in phase waiting, and that somebody waits only when all slots are taken. The
count of holders is followed through each step with the cardinality facts of the library
(an element added, removed, or exchanged for another). The refinement uses type
correctness, the exact count (a cascade about to be dispatched holds a slot and does not
run yet, so fewer than `Cap` run) and that the stream lists pending envelopes only, once
each, so that a delivery is never of an envelope already taken; each action maps to one of
the contract's or to a stutter.

`CascadePolicy_proofs`: `CascadeAnsweredOnce`, `CascadeSaturationExact`,
`CascadeSkipExclusive`, `CascadeQueueSerial`, `CascadeReplaceLeavesOne` and
`CascadeCancelReaches`. To the invariant above it adds that the registry lists exactly the
envelopes between `runCascade` and its `finally` (`RegistryExact`). The policies are not
inductive by themselves: for `queue` a registered cascade must be the head of its chain
until its promise settles (`QueueAtHead`), only `queue` may chain and a decision must be one
the key may have (`PolicyKept`); `skip` and `replace` are then kept because the look at the
registry and the registration are one stretch of the event loop. Cancellation needs that
the correlation id of a registered cascade leads to it while the process listens
(`Correlates`), that a new process starts with an empty registry (`DownEmpty`), and that
what is owed to an envelope yet to register is still on record.

`SignalPipeline_proofs`: `PipelineTypeCorrect`, `PipelineAdmitsOnce`, `PipelineLosesNone`
and `PipelineAdmitsInTime`. The argument for one run per signal has two cases. While
CASCADES remembers the msgID a second copy is dropped; once it has forgotten it, more than
`DupWindow` has passed since the first copy and at least that since the call, so a second
copy is older than `QueueTimeout` and refused. The invariant says so for each call: its
times are ordered (published, then seen, then now), and the copies queued plus the runs
admitted are at most one while the envelope is still fresh. `AdmittedInTime` needs that a
caller timed out only after `CallTimeout > QueueTimeout`; it is about taking up, not about
when a cascade taken up begins.

`CronTimers_proofs`: `CronTypeOK`, `CronStoreAgrees`, `CronToldOnce` and `CronAccounted`.
The writes under way are the difficulty: a fact about memory or the row must be said of
every row on its way between them. `Shape` says which writes may be under way together and
which slots each carries; `Past`, that no row was last executed in the future or after its
next slot; `Synced`, that without a fault the last write carries what memory says. That a
slot is told once (`Once`) needs that it is in one place only (a write, a wake-up, the slots
left to catch up with, or told) and that memory, the row and every write from the one that
carries it on have moved past it. That none is lost (`NoneLost`) is the converse: a row that
has moved past a slot implies the slot is safe or in a write no later than that row.

`ProcessRegistry_proofs`: `RegistryTypeCorrect`, `RegistryOneServer`,
`RegistryRecordsLive` and `RegistryOrphansInTwoWays`. That one server runs at
most is not inductive: a fresh spawn is allowed because nothing is cached, so the invariant
says that without drift a running child is the cached one until `shutdown()`
(`OnlyCachedRuns`), that nothing has signalled the cached child (`CachedAlive`), that an
entry under eviction is not the cached one and has another spec (`EvictedGone`), which
rules evictions out without drift, and that a failed spawn leaves no untold process
(`Unspawned`). The action property follows step by step from the same invariant.

`Elicitations_proofs`: `ElicitationTypeCorrect`, `ElicitationAnsweredApplied`,
`ElicitationToldInTime` and `ElicitationImplementsContract`. The
invariant says what each reader knows: who is about to update has read the row pending
(`ReadOK`), and a row is pending exactly at its first revision (`RowOK`), so that the
compare-and-set lets one update through; a request past its commit has written everything,
and for a workspace-setup only the holder of the marker writes (`DiskOK`); the envelope and
what the tool was told agree with the row (`WaitOK`). The refinement maps an update that
fits to the contract's Settle, a published one to Acknowledge, the deletion's read to Doom,
its delete to Remove or, when it fails, to Spare, and every other step to a stutter. That a
deletion is under way only of a row that exists is part of the invariant.

`ChatStreams_proofs`: `StreamOwnReachable`. A turn takes its controller only with its
buffer (`Uncontrolled`), and whatever removes a controller from the registry either aborts
it (POST, DELETE, shutdown) or is the release of a turn that runs under it, which then no
longer runs or shared it.

`ChatDelivery_proofs`: `StreamTypeOK`, `StreamAccounting` and `StreamDelivered`. Even the
types need more than types: a resume sends what `openParts` points at, so the buffer's open
parts must be starts it has recorded (`Kept`). The quota is the cardinality of the set of
recorded chunks, followed through append, replacement and clean-up. `Delivered` is proved
from an invariant in three layers. `Kept`: a buffer that can be replayed holds all it
accepted, and its open parts are those the recorded chunks leave open. `Linked`: a tab
waits for one POST at most, with no cursor; a subscriber reads the active buffer of the
chat on an open connection; a tab knows of no turn before its buffer exists. `Delivering`
adds to `Delivered` that the cursor counts exactly what was merged of a buffer that can
still be replayed (`Counted`), which is what makes a resume go on where the message
stopped. The parts that are open after a wire is read are followed frame by frame
(`OpenAppend`, `OpenTail`), and `ReplayOpens` shows the heart of the matter: the starts that
are sent again together with the chunks after the cursor leave open exactly what the agent
has open, though everything else before the cursor is left out.

Only model-checked: liveness (`EveryEnvelopeSettles`, `SignalSettles`, `CallerReleased`,
`AcquireSettles`, `WaiterReturns`, `PendingCloses`, `ReadersEnd`), which together with
ENABLED is out of the prover's reach, and the six runs that end in a violation.

## 6. Not modelled

The map covers the daemon's concurrent core and little of the repository's 238,000
implementation lines. Most of the rest has no order of steps to get wrong: user
interfaces, request handlers that validate and call a store, schemas, prompts, clients of
model and mail services, test scenarios. What has one and is left for later is in the plan
(migration lock, tunnel, FSM engine). The runtime and the workspace manager are large and
mostly sequential; their calls into the parts above are inputs of the models. `PROJECT.json`
names the reason for each component. Within the modelled parts: payloads, logging, event
wording, metrics, malformed messages, and two legacy routes under `/api/chat`: the `GET`,
which has neither cursor nor 410, and the `POST`, which makes a stream without `replace()`.
Such a POST picks up the controller of whatever turn is registered and shares it, the case
`OwnReachable` excepts, here reached without a race.

## 7. Files

| | |
|---|---|
| `CascadeContract.tla`, `Cascade.tla`, `Cascade_proofs.tla`, `CascadePolicy_proofs.tla` | contract, model, proofs |
| `MCCascade.tla` with `MCCascade.cfg`, `MCCascadeReplace.cfg` | instances |
| `MCCascadeOrder.tla`, `.cfg` | instance with the arrival order |
| `SignalPipeline.tla`, `SignalPipeline_proofs.tla` | model, proofs |
| `MCSignalPipeline.tla` with `MCSignalPipeline.cfg`, `MCSignalPipelineMerged.cfg` | instances |
| `CronTimers.tla`, `CronTimers_proofs.tla`, with `MCCronTimers.cfg`, `MCCronTimersStop.cfg` | model, proofs, instances |
| `ProcessRegistry.tla`, `ProcessRegistry_proofs.tla`, `MCProcessRegistry.tla`, `.cfg` | model, proofs, instance |
| `ElicitationContract.tla`, `Elicitations.tla`, `Elicitations_proofs.tla`, `MCElicitations.cfg`, `MCElicitationsAudit.cfg` | contract, model, proofs, instances |
| `ChatStreams.tla`, `ChatStreams_proofs.tla`, `ChatDelivery_proofs.tla`, `MCChatStreams.tla` with `MCChatStreams.cfg`, `MCChatStreamsResume.cfg` | model, proofs, instances |

A run is `tlc -config <cfg> <module>`, a proof `tlapm <module>.tla`. A definition marked
"mutant of" stands beside the one it replaces and is used by no specification: it is the
bug its property is there to catch.
