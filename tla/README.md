# A TLA+ model of Zero (Xitius/ZeroAI)

Zero is an Android application that runs an AI agent on the phone. A Kotlin app
calls, over a generated FFI, a Rust crate that keeps the agent's state in
process-wide mutexes; that crate in turn embeds a fork of the ZeroClaw
framework (providers, channels, tools, gateway, scheduler). This directory
models the parts of the program where threads, tasks and connections meet shared
state: the app's service, the FFI's session, daemon, emergency stop and grants,
and the gateway's sessions. TLC checks the models, and TLAPS proves the most
important invariants.

Paths below are relative to the repository; `ffi/` stands for
`zeroclaw-android/zeroclaw-ffi/src/`, `crates/` for `zeroclaw/crates/`.

## 1. The system

| Component | State it keeps | Operations | What is hard | Status |
|---|---|---|---|---|
| Live agent session, `ffi/session.rs`, `ffi/session_history.rs` | `SESSION`, `CANCEL_TOKEN` (two mutexes); history and tools move out of `SESSION` during a send | start, send, cancel, seed, clear, history, destroy | a send works without a lock; errors, cancels and panics between take and put-back | modelled |
| Daemon and runtime, `ffi/runtime.rs` | `DAEMON`, `RUNTIME` mutexes, supervisor tasks, health entry | start, stop, every call that borrows the runtime | a handle fetched before a lock is used after it; teardown awaits tasks under a lock | partly: start, stop, borrowers |
| Emergency stop, `ffi/estop.rs`, `EstopRepository.kt` | `ESTOP_ENGAGED`, `estop-state.json`, a `StateFlow` | engage, resume, load at start, poll | persistence across process death; check and cancel are separate steps | modelled |
| Credentials, `ffi/credentials.rs` | resolver, cache | register, clear | `resolve_via_callback`, the only reader of both, has no caller | not modelled |
| Capability grants, `ffi/capability_grants.rs`, `repl.rs` | pending approvals, grants file | check, request, answer, save | two saves read, write and rename without a lock; death between the steps | partly: not list and revoke |
| Streaming, events, health, `ffi/streaming.rs`, `events.rs`, `ffi_health.rs` | one cancel slot, a bounded buffer, a map | stream, cancel, push, drain | one slot for several streams | planned |
| ClawBoy emulator session, `ffi/clawboy/` | session slot, tick loop | start, stop, pause, chat commands | check, await, overwrite | planned |
| Messages bridge, `ffi/messages_bridge.rs`, `zeroai/src/messages_bridge` | session state, store | pair, long-poll, reconnect | reconnect against shutdown | planned |
| App service, `ZeroAIDaemonService.kt`, `DaemonServiceBridge.kt`, `SetupOrchestrator.kt` | `serviceState`, start and poll jobs, retries, a persisted flag | start, stop, sticky restart, destroy, poll, setup | coroutines are cancelled while their FFI blocks run on; a poll is answered on one thread and applied on another | partly |
| App terminal, `TerminalViewModel.kt` | stream state, jobs | the caller of the session | which calls of it may overlap | environment of `AgentSession` |
| Gateway session queue, `crates/zeroclaw-gateway/src/session_queue.rs` | per session: a semaphore with one permit, a pending counter | acquire, release (drop of the guard) | bounded queue, timeout against the hand-over of the permit, a caller dropped at its await | partly: `evict_idle` is never called |
| Gateway server, `crates/zeroclaw-gateway`: `ws.rs`, `ws_approval.rs`, `api.rs` | stored sessions, cancel tokens, pending approvals | turn of a WebSocket, notification, DELETE, abort | turns and writes of several connections on one session; two bounded channels between the halves of a turn | partly: sessions and turns |
| Infrastructure, `crates/zeroclaw-infra` | session store, debounce buckets, watchdog | append, update, delete; push, flush, tick | `update_last` writes the newest row, whosever it is | partly: the store under `GatewaySession` |
| Runtime, `crates/zeroclaw-runtime` | the agent's turn, SOP runs, cron store, approvals | stream a turn; advance, approve, claim | cancels and full channels in a turn; double claims | partly: `turn_streamed` in `SocketTurn` |
| Configuration, `crates/zeroclaw-config` | pairing lockout, cost records | pair, check, record | window boundaries | planned |
| Terminal and SSH; zeroai auth, memory and router; channels; providers; memory, tools, plugins, log, TUI, hardware; app UI and persistence; web client, firmware, scripts | I/O, storage, rendering, data conversion | | | not modelled |

How they interact. The app calls the Rust crate on `Dispatchers.IO` threads, so
any two exported functions may run at once; nothing in the FFI serialises them.
`session_send` enters through `session_send_boxed`, which refuses it while the
emergency stop is engaged, puts its token into `CANCEL_TOKEN`, moves the
conversation out of `SESSION`, borrows the runtime of `runtime.rs` and calls a
provider and tools. `engage_estop` stores the flag, cancels the token in the
slot and writes a file beside the daemon's workspace, which it finds only while
`DAEMON` holds a daemon. `start_daemon` loads that file, spawns supervisors and
publishes the daemon; `stop_daemon` tears all of it down with `DAEMON` locked.
`session_start` needs the daemon's configuration. The app polls the emergency
stop and the daemon's status; its foreground service decides when to start and
stop the daemon, and its setup screen does both behind the service's back. A
script that needs a dangerous capability asks the app through the FFI's event
listener. Inside the daemon the gateway serves WebSockets and HTTP requests;
those that work on the same session take turns through its session queue. A
turn is two joined futures, the agent's and the one that relays its events to the
client, which meet in bounded channels.

`PROJECT.json` lists the components with their sources, the hazards of this
code at the lines where they bite, and for every definition the lines it
models.

## 2. Modules

| Module | Role |
|---|---|
| `AgentSession` | the session: every exported function, one action per step between two lock sections |
| `Transcript` | abstract specification: what the conversation promises a caller |
| `AgentSessionContract` | the refinement mapping from `AgentSession` to `Transcript` |
| `AgentSessionProofs` | inductive invariant and theorems |
| `DaemonLifecycle` | start, stop and borrowers of the runtime |
| `DaemonSlot` | abstract specification: what start, stop and a use of the daemon promise |
| `DaemonLifecycleSlot` | the refinement mapping from `DaemonLifecycle` to `DaemonSlot` |
| `DaemonLifecycleProofs` | inductive invariants and theorems, among them the refinement |
| `EmergencyStop` | flag, file, poller and process death, composed with `AgentSession` through `INSTANCE` |
| `SessionQueue` | the gateway's queue of one session, with the callers that may be dropped |
| `TurnLock` | abstract specification: the lock this queue promises |
| `SessionQueueLock` | the refinement mapping from `SessionQueue` to `TurnLock` |
| `SessionQueueProofs` | inductive invariant and theorems, among them the refinement |
| `SocketTurn` | one chat turn of a WebSocket: agent, forward loop, approvals, partial answers |
| `TurnRecord` | abstract specification: what one turn promises the session store |
| `SocketTurnRecord` | the refinement mapping from `SocketTurn` to `TurnRecord` |
| `SocketTurnProofs` | inductive invariants and theorems, among them the refinement |
| `GatewaySession` | one stored session: sockets, posts, aborts, DELETE, crashes; built on `TurnLock` |
| `Exchanges` | abstract specification: what the stored transcript promises a reader |
| `GatewaySessionExchanges` | the refinement mapping from `GatewaySession` to `Exchanges` |
| `GatewaySessionProofs` | inductive invariants and theorems, among them the refinement |
| `AppDaemon`, `AppDaemonProofs` | the app's service and bridge against user, system, setup, polls and process death |
| `CapabilityGrants` | approvals of scripts and the grants file |
| `GrantBook` | abstract specification: a book of approved grants that lets scripts pass |
| `CapabilityGrantsBook` | the refinement mapping from `CapabilityGrants` to `GrantBook` |
| `CapabilityGrantsProofs` | inductive invariants and theorems, among them the refinement |
| `EmergencyStopProofs` | inductive invariant and theorems |
| `MC*` | instances for TLC: symmetry and names |

How they compose. `EmergencyStop` runs `AgentSession` as a part of itself.
`GatewaySession` does not repeat the queue: its callers take turns through
`TurnLock`, and `QueueIsLock` shows that `SessionQueue` is that lock. `SocketTurn`
is the inside of what is a few steps of a turn in `GatewaySession`: partial
answers are `SavePartial`, the return of the join is `Joined`, and `TurnRecord`, which
`SocketTurn` implements, is what `GatewaySession` assumes of a turn's own rows.
`AppDaemon` has the daemon as one
slot, which start fills or fails on; `DaemonIsSlot` shows that this is what callers
of `DaemonLifecycle` see.

Operators named as variants of an action and marked "Mutant:" are not part of
any specification. Each is a plausible slip in the code; with it in place of
the real action TLC finds the property paired with it in `PROJECT.json`
violated, which shows that the property can see the code.

### AgentSession

State. `session` is `SESSION` (`NoSession` is `None`), `cancel_token` the send
whose token is in `CANCEL_TOKEN`, `cancelled` the sends whose token has been
cancelled, `work[s]` what send `s` has moved out of `SESSION` together with its
loop counters, `pc[s]` its position and `outcome[s]` its result.

A message is its role and its provenance: the session and the turn it was
created in. The code does not store provenance; it exists so that properties
can say whose messages a history contains. Text, images, prompts and tool
arguments are left out. Lengths stay, because rollback and compaction depend on
them: `Take` is `Vec::truncate`, `Compact` is `auto_compact_history`.

Steps of a send, in code order: `SendEnter`/`SendRejected` (argument checks,
ClawBoy trigger), `InstallToken`, `TakeState`/`SendWithoutSession`,
`RuntimeUnavailable` (the `?` behind the armed guard), `BeginTurn` /
`ProviderUnavailable`, then `run_agent_loop` (`BeginRound`, `ProviderFails`,
`ProviderAnswers`, `ProviderCallsTools`, `StartTool`, `ToolResult`,
`ToolsDone`, `StreamDone`, `RoundsExhausted`, `LoopCancelled`), then
`CompactHistory`, `PutBack` (with the truncation after an error) and
`ClearToken`. `PanicUnwind` is `SessionStateGuard::drop`; `PanicAfterTake` a
panic once the guard has been disarmed (`LatePanics` turns it off). The other
functions are one action each, except `session_destroy`, which is two because
it cancels under one mutex and takes under the other.

Two specifications. `Spec` lets every call overlap every other. `SerialSpec` is
the assumption written at `session.rs:1043-1046`: no two calls at once, except
that a cancel may come at any time.

### Transcript and AgentSessionContract

`Transcript` has one variable and six actions: open, close, seed, clear, a turn,
and a turn followed by compaction. It knows nothing of locks or providers. The
mapping shows, while a send holds the conversation, the part it started from,
and from the moment it leaves the loop (compaction included) the new one; a
failed turn never shows. `KeepsContract` says every step of `SerialSpec` is a
step of the contract or invisible in it.

### DaemonLifecycle

Calls are one-shot and have identity: a daemon is named by the start that made
it and a runtime by the call that built it. `lock` is the `DAEMON` mutex where
it is held over several steps; sections that lock and unlock in one go need
only `lock = None`. `RUNTIME` is never held across a step. `handle[c]` is the
`Handle` a call fetched (or the `Runtime` a stop took). `tasks` are the daemons
whose supervisors are alive: they end after an abort, by a panic of their own,
or when their runtime is shut down; a spawn on a runtime that is gone starts
nothing. `send_message` stands for every call that fetches the runtime, looks
at `DAEMON` and blocks.

### DaemonSlot and DaemonLifecycleSlot

`DaemonSlot` is the daemon as its callers may think of it: one slot, no mutexes, no
runtime. A start fills it or is refused, a stop empties it, a use is admitted and
served, and each answer is true of the slot at one moment between call and return.
The mapping lets a start take effect when it publishes and a stop when it returns, so
a daemon serves until its stop has torn it down; a use is let in where it clones the
configuration. All other steps (fetching a runtime, spawning, aborting, awaiting,
shutting down, a task that ends) are invisible.

### EmergencyStop

`engage` is: store the flag, cancel the token in the slot (`Agent!SessionCancel`),
find the directory (only with a daemon in its slot), truncate, write, report to
the repository. Truncation and writing are separate and may each fail, since
the code uses `fs::write` and logs errors. Two writers may leave a file that
does not parse: records have different lengths (`Overwrite`). `start_daemon`
reads and stores in two steps and before it looks whether a daemon runs. The read
may fail although the file is there (`Loads` adds *unread* to what a file may say);
`load_state` then returns and leaves the flag as it is. `ProcessDies` keeps only the
file. `acked`, `alone`, `swept`, `late` and `blind` (a failed read left the flag
clear, and nothing has set it since) are history that the properties read and no
guard does.

### SessionQueue

One session's slot: `pending` is the atomic counter, `free` and `waiters` are
the semaphore as tokio promises it (first come, first served, a released permit
goes to the oldest waiter). `at[c]` is where a caller is in `acquire`:
*counted* after the `fetch_add`, *waiting* in the semaphore's line, *granted*
when the permit is its own but its task has not been polled, *expired* between
the timeout and the decrement, *inside* with a `SessionGuard`, *leaving* between
the guard's `drop` (which decrements) and the drop of its permit. The counter is
relaxed and atomic, so each access is a step of its own; there is no await
between `fetch_add` and the first poll of the semaphore, hence `DropPost` only
while waiting or granted. `Sockets` are WebSocket tasks, which nobody drops;
`Posts` are `POST /api/sessions/{id}/messages` handlers (`api.rs:1412`), which
the gateway's `TimeoutLayer` and the end of the connection drop. `last_active`
and `evict_idle` are left out: nothing calls the latter. `lost` is history.

### TurnLock and SessionQueueLock

`TurnLock` knows who has asked and who is inside: ask, give up, take the free
lock, leave. The mapping lets a caller wait from its `fetch_add` until it has a
`SessionGuard`, and be inside until the permit is back. Granting a permit,
refusing, timing out and the hand-over to a caller that was just dropped are
invisible or a `GiveUp`.

### SocketTurn

One call of `process_chat_message`. `agent`, `out` and the counters are
`Agent::turn_streamed`: it streams (`check`, `stream`, `last`), runs tools
(`tools`, `running`) and asks for approvals (`offering`, `asking`). `out` holds the
events it has still to send: each is an await on the bounded channel `events`,
at which it looks at no token. `fwd` is the forward loop: in its `select!`,
sending a frame, gone (`left`) or at the end of the channel. `offers` is the
channel of approval requests, `parked` the map `pending_approvals` and `reply` the
oneshot of each request, which becomes *dropped* when its sender is. `rows` are
the newest row the turn finds (its question) and its own behind it, first a partial
answer. Each write may fail, and the code discards the error: a failed `append` sets
`partial_saved` all the same, so every later `update_last` of the turn takes the row
before (`WithRow`). `failures` is history. The client may
answer any request it has seen, at any time, also late or twice (`ClientAnswers`);
the answer to a request that is no longer parked changes nothing.

### TurnRecord and SocketTurnRecord

`TurnRecord` is a turn as the session store sees it: one row, a draft that is
overwritten while the turn runs, and at its end the answer, the mark of an
interruption, or what a failure leaves. Writes may fail unheard: without its last one
the turn leaves its draft, and without its first one it has no row of its own and
overwrites the one it found. An interruption needs somebody who asked for it
before the agent's verdict. The mapping takes the rows and the token as they are, the
agent's result as the verdict, and the return of the join as the end; events, frames,
tools, prompts and channels are invisible. `OneRow`, which says only what is left at
the end, follows.

### GatewaySession

`store`, `exists` and `state` are the rows and the metadata of one session in SQLite.
The connection's mutex lets one call in at a time, but its statements are committed
one by one and each may fail: a row may be there without its metadata row, or rows
deleted and the metadata left. The turns discard these errors, a notification fails
with its own. Turns and posts have numbers so that a row says whose it is. A turn of a
socket is `StoreUser`, `MarkRunning`, `InstallToken`, any `SavePartial`, `Joined`,
`RemoveToken`, `StoreAnswer`, `Settle`, `EndTurn`, in the order of the code and each a
step. `UpdateLast` overwrites the newest row, whosever it is. `FirstMessage` is the
first frame of a socket that is not a connect frame: its turn runs without the queue
(`ws.rs:440-462`). An abort clones the token and cancels it later; a DELETE takes
token and rows in two steps, and neither enters the queue. `Crash` keeps the database.
`exposed` is history: the turns that a DELETE or a turn outside the queue overlapped.
So are `lost`, the turns that a failed write has cost a row (the turn's own, and when
it has neither question nor draft the newest row of another), and `unmarked`, those
whose state did not reach the store. A crash between the two statements of one call is
left out: only the failure of the second is modelled.

### Exchanges and GatewaySessionExchanges

`Exchanges` is the transcript as a reader may think of it: notices and exchanges, one
at a time, each a question and at most one row behind it, which is overwritten until
the answer is final. A turn is open from its question until its answer is written,
fails, or dies with the process. An exposed turn, or one that a failed write has cost
a row, makes the transcript *disturbed* for as long as it is active: then rows may be
added, the newest overwritten or all wiped, but no row above the newest changes.
Sockets, the queue, tokens and the state of the session are invisible.

### AppDaemon

Main-thread code between two suspensions is one step. A block on the I/O
dispatcher is a step of its own which runs to its end even if its coroutine has
been cancelled; `startJob` and `orphans` say whether the rest of the coroutine will
run. `inbox` is what the system has to deliver, in order: intents, a sticky
restart, the destruction that `stopSelf` asks for. `preps` are
`handleStartFromSettings` coroutines, which read settings before they become a
start. `poll` and `sync` hold an answer that was read and not yet applied; a poll may fail,
which shows an error, and so may a foreground sync, which shows *stopped* whatever
runs (`SyncFails`). The
setup starts and stops the daemon without the service: a hot reload stops it
through the bridge, a full setup sends an intent without an action, which the
service takes for a sticky restart. `ProcessDies` keeps the persisted flag
`wasRunning`. `crossed` is history: the last stop met a start under way or a
service instance about to be destroyed.

### CapabilityGrants

A script reads the grants file (`CheckGrant`), puts a request into
`PENDING_APPROVALS`, emits the event, blocks, and after a yes saves: it reads the
file, opens the temporary file (which truncates it), writes and renames. Files are
inodes, as two saves may have the same temporary file open, and one may rename what
the other still writes to. A file that does not parse counts as empty, and so does one
that a save cannot read although it is there: what that save renames into place has
its own grant only. `misread` are the scripts that are about to do that. A writer that
comes second to one inode leaves its content or, where the first was longer, a torn
file. Opening, writing and renaming may fail (`SaveFails`): the code logs it and the
script passes for this once. The listener comes and goes with the daemon; an event
without a listener is lost.

### GrantBook and CapabilityGrantsBook

`GrantBook` knows who has been let through, what the app has approved and what the
book says. The app approves what one script waits for; a script passes by the book, by
an approval that is written into the book in the same step, or by one that could not
be written. The book is what the grants file says to a reader, and a record takes
effect when the file is renamed; a restart keeps both. A script that sets out to
record may be unable to read the book (`unread`), and then begins it anew. Once two
saves have overlapped the book is *muddled*: it may lose grants, and even then holds
none that was not approved.

## 3. Runs

| Run | Bounds | States | Shows |
|---|---|---|---|
| `AgentSessionAny` | 2 sends, 2 rounds, up to 2 calls, compaction above 3 keeping 2, late panics | 5.2M (symmetry) | `TypeOK`; `OnlyCommittedTurns`: failed, refused and running sends leave no message; `WholeTurns`: a turn stays contiguous and starts with its user message; `ResultsPaired`: results have their calls, and calls lack results only at the end of a cancelled or panicked turn; `TokenHasOwner` |
| `AgentSessionSerial` | 2 sends, 2 sessions, seeds of 1 or 2, compaction above 4 | 264k | `KeepsContract` (refinement of `Transcript`), `SessionIntact` |
| `AgentSessionProgress` | 2 sends, 1 round, panics | 326k | `CancelledSendLeavesLoop`, `EverySendReturns` |
| `Daemon` | 3 starts, 2 stops, 1 borrower | 215k | `NoOrphanTasks`, `NoLeakedRuntime`, `StopFindsRuntime`, `HealthAgrees`, `EveryCallReturns` |
| `Estop` | 2 operators, 3 commands, 2 starts, 1 death, poller | 893k | `AcknowledgedStopHolds`, `UiCatchesUp` |
| `EstopSweep` | 2 operators, 2 commands, 1 send, all session calls | 6.5M (symmetry) | `OnlyLateSendsEscape` |
| `SessionQueue` | 2 posts, 2 sockets, depth 2 | 56k | `KeepsLock` (refinement of `TurnLock`), `PendingExact`, `DepthBound`, `EveryWaitEnds` |
| `SocketTurn` | 2 rounds of up to 2 tools, event channel of 2, approval channel of 1, any write of the store may fail | 257k | `AnswersKept`: an answer counts for its own request; `KeepsRecord` (refinement of `TurnRecord`): a draft, then one answer, interruption or failure; `AbortFreesPrompt`, `AbortedTurnEnds` |
| `SocketTurnStuck` | 1 round | violation | `LeftTurnEnds`, see 5 |
| `GatewaySession` | 2 sockets, 1 post, 2 turns or notifications of the 3, any number of aborts, deletes and crashes; calls of the store may fail from the second turn on, while at most one turn is spoiled | 6.6M (symmetry) | `WholeExchange`: question and whole answer stay together; `TokenFollowsTurn`: an abort finds the turn that runs; `StateAgrees` |
| `AppDaemon` | 2 starts, 1 stop, 1 setup, 1 retry, 2 commands, 1 death, failing polls and syncs | 1.4M | `NoDeafDaemon`: the daemon does not run without its callbacks; `StopHolds`: a stop is not undone; `SettlesOnTruth` |
| `CapabilityGrants` | 2 scripts, 2 grants, 2 requests of each process, 1 death, misread files | 5.7M (symmetry) | `KeepsBook` (refinement of `GrantBook`): no script passes this gate and no grant is stored without an approval of it; `GrantsSurvive`: no grant is lost unless saves overlap or one could not read the file |

Why the bounds are enough for the questions asked. The session is one slot with one
token slot: a second send is the smallest actor that can steal the token, overwrite a
put-back or find an empty history, and a third adds no new relation between two of
them. Two rounds reach a result recorded in an earlier round and an error in a later
one, and two calls in an answer a cancel that comes between them. Compaction is
lowered from 50/20 to a few messages so that one turn crosses it, with the kept part
cutting through a turn. Four callers at a queue of two are the fewest that fill it
with one inside and one in line while two more are refused or dropped; each may call
again and again, and the counter stays finite because a lost count closes the queue.
The progress run has one round because the loop's way out does not depend on how often
it has been round. Three starts and two stops let a start hold a handle of the runtime
before last. Three commands and two starts allow engage, overlap and resume around a
restart; one death suffices, as a second begins from the same state (the file) as the
first. `MaxSessions`, `MaxStarts`, `MaxCommands`, `MaxDeaths` and `SeedBound` bound
what the program does not (so do `MaxTurns` and `MaxRequests`); the code's own limits
(`MaxRounds`, `MaxCalls`, `CompactAt`, `KeepRecent`, `MaxSeed`, `MaxDepth`,
`EventCap`, `ApprovalCap`, `MaxTools`, `MaxAttempts`) are constants with small values.

For the newer runs: an event channel of two is full after two events, and a turn of
two rounds sends more than that in each, so both halves of the turn wait for each
other at every kind of event; the approval channel is full as soon as one request is
in it. In `GatewaySession` two of the three callers get a number, in every
combination: that is what it takes for one to write between two writes of another, and
a third could add only pairs of the same kinds (the theorems hold for any number).
`FailsFrom` and `MaxSpoiled` bound where calls of the store fail: in the second of the
two numbered turns, which has the row of another before its own. A failed append
there, followed by an `update_last` of the question or, when the question failed too,
of the row of the turn before, is the worst the code does. The proofs read no guard of
the bound: they let every call of every turn fail. In `AppDaemon` two start jobs let a
start overlap an older one (a cancelled start or a retry), and the setup brings a
third; one retry shows the counter at its limit. Two scripts are enough for two saves
to overlap, which is where lost updates come from. Two requests let both ask at once
or one ask again after a denial, and the process that comes after a death has two
more. The proofs of section 6 cover all these safety properties for any size.

Deadlock is checked in the session, queue, emergency-stop, gateway-session, app and
grants runs, where a cancel, a new call or a poll is always possible. A `SocketTurn`
ends when its turn does, and `AbortedTurnEnds` is its liveness. The daemon's calls
are one-shot, so its behaviours end when all have returned: `Daemon` disables the
deadlock check and checks `EveryCallReturns` instead, which a deadlock would
violate.

## 4. Fairness

* `LocalFairSpec`: weak fairness of the steps a send takes by itself, which is
  that its thread is scheduled. Nothing is assumed of providers and tools, so
  `CancelledSendLeavesLoop` rests on the `select!` arms alone.
* `AnswersCome`, the assumption inside `EverySendReturns`: whatever a send waits
  for answers or fails in the end, which the HTTP timeouts of providers and
  tools give. Panics and other callers get no fairness.
* `FairSpec` of `DaemonLifecycle`: every call's thread is scheduled, aborted
  tasks reach an await, `block_on` ends. Entering a stop is not fair: a stop
  that is never called need not run. There are finitely many calls, so weak
  fairness is enough to get the mutex in the end.
* `FairSpec` of `EmergencyStop`: a command or a start that has begun goes on,
  and the poller polls. Operators need not act.
* `FairSpec` of `SessionQueue`: tasks are polled and the timeout fires. A turn
  may stay inside for ever, so `EveryWaitEnds` rests on `lock_timeout`.
* `FairSpec` of `SocketTurn`: the task is polled, tools end, and a frame is taken by
  the socket or fails. The provider, the client and the clock owe nothing; the two
  properties about the end of a turn assume inside themselves that an approval
  that is waited for times out in the end, which `tokio::time::timeout` gives.
* `FairSpec` of `AppDaemon`: threads and the main loop run, and the user comes back
  to the app now and then (`Foreground`) and answers what a start asks. Commands,
  failures, polls and deaths are not fair. `SettlesOnTruth` assumes in addition
that polls and syncs do not fail for ever: each failure shows an error, or *stopped*.

## 5. Where comments and code differ

A run of its own:

* `SocketTurnStuck`: `ws.rs:816-820` says that when the client leaves, cancelling
  the turn lets `turn_fut` resolve and the join return. The forward loop then
  breaks out, but `event_rx` stays alive and nobody receives any more, so an agent
  that is inside `event_tx.send(..).await` on the full channel never gets to its
  token. The turn keeps the session's queue, token and state.

Found on the way and visible in the models as the exemptions that the properties
name, each with the exact condition under which the claim does hold:

* The doc of `SessionStateGuard` says its `Drop` prevents a "zombified" session.
  The guard is consumed (`session.rs:861`) before compaction and the
  `on_compaction` callback run; a panic there loses history and tools and leaves
  the token in its slot (`LatePanics`; `TokenHasOwner` allows for it).
* A state put back after its session was destroyed is said to be dropped. If
  another session has been opened meanwhile, that one receives the old history
  and tools: `SessionIntact` is about serial callers.
* "A fresh runtime is created on the next start" holds only for a start that
  fetches the runtime after the stop has taken it; one that fetched it earlier
  publishes a daemon whose supervisors were spawned on a runtime that is gone.
* The stop "is persisted to disk and survives process death" (`estop.rs:70-71`) only
  if a daemon ran when it was engaged, no other command or start overlapped it, and
  the file can be read afterwards: `load_state` returns on a read error of a file
  that is there (`estop.rs:53-55`), and the daemon serves with the stop lifted.
  `AcknowledgedStopHolds` states what does hold: without a death of the process such a
  failure does no harm, and after one the stop is back with the first load that can
  read the file.
* "The session remains valid" after a cancel (`session.rs:368-371`) does not cover
  its tool calls: `session.rs:1313-1316` keeps what the turn has recorded, and a cancel
  between two calls leaves calls without results in the conversation, which the next
  send gives to the provider. `ResultsPaired` allows for exactly that, calls at the end
  of a turn that was cancelled or panicked, with nothing of the turn but their results
  behind them. It has no run of its own, since what *valid* means is not said there.
* The partial save of a turn is meant to keep its text (`ws.rs:765-772`). Its error is
  discarded and `partial_saved` set all the same (`ws.rs:901-902`), so after one failed
  append the next `update_last` (`ws.rs:899`, `ws.rs:1016`) overwrites the newest row,
  normally the user's own question, and the row of an earlier turn if the question
  could not be stored either. `WholeExchange` exempts such turns (`lost`), `TurnRecord`
  says what is left of them, and `TranscriptIsKept` that nothing else is touched.
* `save_grant` is "write-to-tmp + rename for crash safety" (`capability_grants.rs:150`),
  but takes a file it cannot read for an empty one (156-159) and then replaces it: all
  other grants are lost in one rename with no overlap. `GrantsSurvive` holds for a
  grant until such a save, or two that overlap, have come after it.
* A test expects a queue depth of zero once the guard is gone. A call that is
  dropped while it waits has no guard yet (`session_queue.rs:98` against `109`),
  and nothing takes its count back. The request timeout of the gateway defaults to
  the queue's own 30 seconds, so a post that waits that long is dropped by the
  former; after eight of them the session refuses every call. `PendingExact` says
  that this is the only way the counter drifts.
* "Cancelling all active agent execution" (`estop.rs:68`) misses a send between
  its entry check and its token; `OnlyLateSendsEscape` states exactly which sends
  escape. The token is not "cleared on exit" of a send that finds no session, and
  a `Handle` does not keep the runtime alive (`runtime.rs:575`; a borrower may end
  in `runtime_gone`).

Behaviour of the newer components that a reader of the code should know:

* A stop that meets a start under way can leave the daemon running: the start's
  FFI block cannot be cancelled and may come after the stop's (`crossed`). A start
  that was cancelled there leaves `STARTING` on the screen until the next
  foreground sync, and the `stopSelf` of an older stop destroys an instance that
  has accepted a newer start.
* The setup's intent has no action, so the service takes it for a sticky restart
  and starts only if the persisted flag says so.
* A DELETE during a turn cancels it and deletes the rows; the turn's last write
  then brings the session back, and a first message outside the queue may
  overwrite another turn's row. Such turns are `exposed`, and the three properties
  of `GatewaySession` do not cover them; `Exchanges` says what still holds beside them.
* The app lists and revokes grants in `<filesDir>`, while scripts are checked
  against `<filesDir>/workspace`, so a revoke has no effect on them; "cleared on
  daemon restart" is done by no code; a request always says it was triggered by
  the terminal, so the app approves by itself; and a script waits for its answer
  without a timeout (`repl.rs:196`), also when nobody was listening.
* The gate stands before the scripts of the REPL and of cron, which run through
  `FfiScriptHost`. `AgentScriptHost` dispatches the same operations without it
  (`agent_script_host.rs:7-8`, `75`), though the doc of `capability_grants.rs:5-8`
  speaks of every script. `KeepsBook` is about the scripts that reach the gate.
* A changed script does not ask again: the grant keeps the hash of its content, but
  `is_grant_valid_for_hash`, which would compare it, has no caller.
* A foreground sync whose poll fails shows *stopped* although the daemon runs
  (`DaemonServiceBridge.kt:139-140`), until another poll succeeds.

## 6. Proofs

`tlapm` checks every obligation of the eight `*Proofs` modules. Each theorem is for
every value of the constants that its module's named assumptions allow. The shape
is always the same: an inductive invariant `IInv`, one lemma for each of its parts
with a step per action, and PTL for the last line.

**DaemonLifecycleProofs**, for any sets of calls, from `CallsAssumption` only.
`NoOrphanTasks` and its siblings are not inductive: nothing in them says that
one call at a time is inside the `DAEMON` section or where a runtime went.
`IInv` adds `PointInv` (the points each kind of call can be at), `LockInv` (a
call is at a locked point exactly when it holds the mutex, and the slot is empty
meanwhile), `FreshInv` (a runtime's name is used once), `RuntimeInv` (a live
runtime is current or owned by the stop that will shut it down) and `TaskInv`
(live tasks run on a live runtime). The key step is a stop that finds no
current runtime: by `RuntimeInv` and `LockInv` no runtime is live then, so by
`TaskInv` no task is either, and nothing is orphaned. Theorems: `TypeCorrect`,
`NoOrphans`, `NoRuntimeLeaks`, `StopFinds`, `HealthIsTrue`.

Four more rest on invariants of their own beside `IInv`. `StopsForGood`: when a stop
has returned, the very runtime its daemon was started on is shut down and no task of
the daemon lives. `HomeInv` remembers that runtime, and `TearDownInv` says that from
the moment a stop takes the daemon it is on its way to it: only the holder of the
mutex empties `RUNTIME`, and a runtime built meanwhile is another. `OnlyStopsCutUses`:
a borrower's `runtime_gone` is always due to a stop that shut down the runtime it had
borrowed (`GoneInv`). `NoDeadlock`, the safety half of `EveryCallReturns`: whoever has
not returned can move, or is at the mutex and finds it free or held by a call that can
move; the await under the mutex is for aborted tasks only (`AbortInv`).
`DaemonIsSlot`: every step is a step of `DaemonSlot` or invisible in it, that is, the
calls are linearizable. It needs `AnswerInv` (an answer is there exactly when the call
has returned) and `LockInv` (the slot of the code is empty while a stop that holds the
mutex still shows its daemon).

**AgentSessionProofs**, for any set of sends, any bounds and any length of
history, from `SendsAssumption` and `BoundsAssumption`. `PointInv` relates a
send's point to its working state and outcome, `TokenInv` says a token in the
slot was put there by a send past `InstallToken`. `TurnInv` is the heart of
`OnlyCommittedTurns`: a turn is *settled* when its outcome is final and allowed
to show; the committed history holds settled turns only; a send holds settled
turns and its own; and as long as it has not ended well, the first `before`
messages of what it holds, which are what the rollback keeps, are settled
without its own. That a settled turn stays settled makes this stable under the
steps of all other sends. The facts about truncation, append and compaction are
lemmas about sequences, stated once. Theorems: `TypeCorrect`, `TokenOwners`,
`RollbackIsComplete`.

`TurnsAreWhole` and `ResultsArePaired` need more: what the sends hold must have the
shape, not only what is committed. `Good` is that shape for any history, and lemmas
say that an append that continues the last turn, seeds, the answer of a turn and a
compaction keep it (`CompactIndex` gives what compaction leaves as a shift of
positions). `ShapeInv` says the conversation, what each send holds and what it would
roll back to are good; that in a round without open calls a send has answered all its
calls; and that in a round with calls it has one open message of calls, with as many
results after it as tools have run; when such a send is cut short that message ends
its turn (`CutPaired`, a part of `Good`). `HeldTurns` gives that a send only ever
appends to the end of its own turn. A good history stays good when another turn ends
well, as it holds no message of a turn that is not settled (`TurnInv`).

For serial callers, `SerialInv` says at most one call is in flight and `OwnInv` that
what the session or the send in flight holds begins with its own prompt and has
only its own messages; compaction keeps the first message, whence
`SessionStaysWhole`. `SessionKeepsContract` is the refinement of `Transcript`: by
`ContractInv` what a send holds is what it started from followed by its own turn,
so that leaving the loop is one `Turn` of the contract, compaction one
`CompactedTurn`, a rollback gives back what was shown, and everything else is
invisible. It assumes `~LatePanics`: with a panic behind the guard the claim is
false (section 5). `AgentSessionSerial` checks the same with `LatePanics` off.

**SessionQueueProofs**, for any finite set of callers and any depth, from
`QueueAssumption`. `OneInside` needs `LineInv`: the line holds calls that wait,
each once, so a permit handed on goes to a call that has none; that a call taken
out of the middle leaves such a line is a lemma about sequences. `PendingExact`
follows the counted calls through every step by cardinality and gives that
`fetch_sub` never wraps. `DepthBound` rests on it and on `RoomInv`: whoever is in
line or inside saw room, and saw a counter that was at least the number of calls
admitted before. Theorems:
`TypeCorrect`, `OneTurn`, `CounterIsExact`, `DepthIsBounded`, and `QueueIsLock`: every
step of the queue is a step of `TurnLock` or invisible in it. A caller enters only
when nobody is inside, which is `OneInside` seen from the lock.

`NoPermitIsLost` is the safety half of `EveryWaitEnds`: whoever waits is in the line
and some call has the permit, so no timeout and no drop between grant and poll loses
it. `PermitInv` follows the permit through every hand-over. `LostCountsCloseSession`
says what the drift of the counter comes to: when `MaxDepth` posts have been dropped
while they waited, every call that comes after sees a full queue (section 5).

**SocketTurnProofs**, for channels of any capacity and any limits, from
`TurnAssumption`. `BudgetInv` bounds the requests still to come by the tools that are
left, so that a request's number is in range. `AskInv` says a parked request is the
one being asked and unanswered, and no later one has a trace; `RowInv` that
`partial_saved`, with the writes that have failed, tells what the store holds.
Theorems: `TypeCorrect`, `AnswersAreKept`, `OneRowIsLeft`. `TurnKeepsRecord` is the
refinement of `TurnRecord`: it adds `ResultInv`, that the agent's result is *none*
until it has returned, so that there is one verdict, and both places that return
*cancelled* have seen the token cancelled. The prompt's drain, both channels and the
frames map to stutters, since by `RowInv` only the forward loop and the code behind
the join touch the row.

`ChannelsNeverJam` is the safety half of `AbortedTurnEnds`, for channels of any
capacity: a turn that is not over has a step of its own to take, or waits for the
provider (and only unless it is aborted), or for the answer to a prompt that is
really out, or its client has left with a channel full. The last is the jam that
`SocketTurnStuck` shows, and the theorem says it is the only one. `EndInv` adds that
an agent that goes on has emitted all it had to. `AnswersStand` is an action property:
no late or second answer, drain or timeout changes the outcome of a request that has
one.

**GatewaySessionProofs**, for any sets of sockets and posts and any number of turns,
from `SessionAssumption`. The key is `AloneInv`: of two turns that are active at once
both are exposed, since the queue admits one and whoever goes around it exposes all.
So an unexposed turn owns the token and the state until it ends, and the end of the
transcript unless a failed write has cost it that row; `StoreInv` follows the rows of
the turns that are not spoiled through every append and update of others. Theorems:
`TypeCorrect`, `AbortFindsTurn`, `StateIsTrue`, `ExchangesAreWhole`, and the action
property `TranscriptIsKept`: outside of a DELETE no step changes the row of a turn
that is over and not spoiled, or a notice with no spoiled turn beside it, although
`update_last` writes to whatever row is the newest. By `StoreInv` and `AloneInv` the
newest row is then the writer's own, or that of a turn which its failed append has
spoiled. `TranscriptIsExchanges` is the refinement of `Exchanges`. The mapping picks
*the* turn that is open; that there is at most one is `OneIsOpen`, which follows from
`AloneInv`. Each store action is then one step of the contract or a disturbance, and
the property covers what `WholeExchange` does not: turns that fail or die with the
process, and the rows beside a spoiled turn.

**AppDaemonProofs**, for any sets of jobs and any bounds, from `AppAssumption`.
`NoDeafDaemon` is inductive as it stands once it names the jobs on their way;
`StopHolds` needs `StopInv`: after a stop that met nothing, no start, setup or
settings coroutine is under way, the flag is down, and as long as the daemon runs
a stop job is on its way to it. Theorems: `TypeCorrect`, `DaemonHears`,
`StopIsKept`, and `StopStays`, which says the same of every single step: until the
next command none starts the daemon or records that it ran, not only where all is
quiet.

**CapabilityGrantsProofs**, for any grants, requests and deaths, from
`GrantsAssumption`. `GrantInv` follows an approval from the reply to the script, the
set it saves and the inode it writes; `RequestInv` says a request not yet made has no
reply. `GrantsSurvive` needs `SaveInv`: until two saves have overlapped, at most one
script saves, the cache it read holds every saved grant unless it has misread the
file, what it writes adds its own, and it writes to the temporary file it has opened,
which is still empty. `ReadsAlone` says that a save which overlaps nothing begins
alone. Theorems: `TypeCorrect`, `ApprovalIsNeeded`, `SavedGrantsSurvive`.
`SavesAreAtomic` is stronger where it applies: until two saves overlap, what a reader
finds in the file changes only by the rename of one save, and then by exactly the
approved grant that save is for, or, if that save could not read the file, to that
grant alone. It needs `ExactInv`: what a save is about to write is what the file holds
and its own grant. `AnswersStand` says that a request is answered once; only the death
of the process forgets it. `GatesByTheBook` is the refinement of `GrantBook`. Its
three parts beside `IInv` and `ExactInv`: an open request belongs to exactly one
script, which waits for it (`AskInv`, so that one answer is one approval), and until
saves overlap a rename finds its file (`RenameInv`, so that it is a record). What
`GrantInv` says of the disk is all that remains once they have overlapped, and it is
what the contract still promises there.

**EmergencyStopProofs**, for any operators and sends, from `NoSendAssumption`,
`EstopBoundsAssumption` and, for the session inside, `SessionBoundsAssumption` (what
`AgentSession` assumes of its own bounds). `AloneInv` says that a command that nothing
overlapped is the only call there is and its flag still stands; `AckInv` that after an
acknowledged engage whatever is on the disk or about to be stored says *engaged*, and
the flag is clear only after a death of the process, while no daemon is up or since
one has come up blind; `SweepInv` places every send that the sweep has to reach. The
session's steps enter only through where they move a send. Theorems: `StopSurvives`,
`EscapesAreLate`, and `NothingElseResumes`: after an acknowledged engage no start or
stop of the daemon, no poll and no step of a session lowers the flag, only the next
command or the death of the process.

The session inside keeps its own theorems. `AgentSessionProofs` argues over any step
of the session at any time and has its whole invariant in one formula, `SessionInv`; a
step of `EmergencyStop` is a step of the session (`SameAgentStep`, `EngageCancels`),
leaves it alone, or is the death of the process, after which the session is idle and
`SessionInv` holds again (`DeathIdles`). Hence `SessionUnderStop`, and from it
`SessionStaysSafe` (token owners, rollback, whole turns, results that have their
calls, and calls without results only at the end of a turn that a stop or a panic has
cut short) and `TypeCorrect`, the types of both parts together. `StopOnlyRestricts` is
the same as a refinement: as long as the process lives, every step of the composition
is a step of `AgentSession` or invisible in it, so a stop shows the session nothing
that another cancel could not.

The theorems that no run states (those about single steps, the safety halves of liveness
properties, `OneRowIsLeft`, `ApprovalIsNeeded`, `SessionStaysSafe`, `StopOnlyRestricts`,
`DaemonIsSlot`, `TranscriptIsExchanges`) were checked with TLC on the instance
of the component's run before they were proved.

Only model-checked are the liveness properties (`CancelledSendLeavesLoop`,
`EverySendReturns`, `EveryCallReturns`, `UiCatchesUp`, `EveryWaitEnds`,
`AbortFreesPrompt`, `AbortedTurnEnds`, `SettlesOnTruth`), since fairness and `ENABLED`
are out of the prover's reach. What they need of safety is proved for three of them
(`NoDeadlock`, `NoPermitIsLost`, `ChannelsNeverJam`). No module declares a recursive
operator, and no theorem needs induction over data.

## 7. Not modelled

* In the session: prompt assembly, the lookup of tools, extraction of XML tool
  calls, text chunking, `session_history` (a read: during a send it returns an
  empty list), the ClawBoy branch (a rejected send), memory contents, the
  summariser's text. Unknown tools and failed tools are results like any other.
* A panic between constructing `SessionStateGuard` and releasing `SESSION`
  (`session.rs:767-782`): only clones run there.
* In the daemon: restart backoff inside a supervisor, `swap_provider`, the state
  writer, the steps of a failed start before the lock (they change nothing but
  the emergency stop's flag, which `EmergencyStop` models).
* In the emergency stop: concurrent `start_daemon` calls (one at a time here;
  `DaemonLifecycle` has several), level and reason fields of the record.
* In the session queue: `evict_idle`, `last_active` and the map of slots (an entry
  is made on first use and stays).
* In `SocketTurn`: what the model says, memory, hooks and observers of the agent,
  and the wording of frames. Its agent keeps a history of its own, which another
  socket on the session never sees (`ws.rs:413`); no model has it.
* In `GatewaySession`: other endpoints, authentication, webhooks, the broadcast of
  events, listing and search of sessions.
* In `AppDaemon`: the hold for OAuth, web renderer, network observer, hot swap of a
  provider, cancellation of a setup; the alarm of `onTaskRemoved`, which ends in
  `handleStickyRestart` and respects the persisted flag; the setup's restart after a
  purge of channels, which is not reached, since no channel succeeds alone. The setup's
  own poll changes nothing when it fails. `handleStartFromSettings` runs on the I/O
  dispatcher (`ZeroAIDaemonService.kt:299`, `531`, `1018-1020`), so two of them may
  race in cancelling and replacing `startJob`; `AttemptStart` does both in one step, and
  a job that such a race would leave uncancelled is not in the model.
* In `CapabilityGrants`: list and revoke, which work on another directory; the content
  hash, which no check reads; scripts of `AgentScriptHost`, which have no gate.
* The credential cache: nothing in the program reads what is registered or cleared.
* The components marked planned or not modelled in section 1.

## 8. Plan

What is left, in order of importance:

1. `Supervisor`: backoff and restart of `spawn_component_supervisor`, below
   `DaemonLifecycle`, and `swap_provider`.
2. `TerminalSession`: the calls `TerminalViewModel` can really make, composed
   with `AgentSession`.
3. `Streaming`: the single cancel slot of overlapping streams, with the bounded
   event buffer; `ClawBoySession`: start and stop around awaits, and the tick loop.
4. The Messages bridge's long-poll loop; debounce and watchdog.
5. SOP approvals, cron claims, pairing lockout.

Proofs: `AppDaemon` over `DaemonSlot` as a composition (its start also stops what runs,
its jobs repeat, and its process dies); `SocketTurn` as the turn inside `GatewaySession`,
by `TurnRecord`.
