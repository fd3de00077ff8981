# TLA+ models of JARN

JARN is a terminal coding agent (`src/src/jarn/`, Python) that can also be driven from Telegram through a
gateway daemon with one worker process per project root. This directory holds TLA+ models of the parts of it
in which several actors meet (threads, asyncio tasks, processes, a chat, crashes), the TLC configurations
that check them, and TLAPS proofs of what matters most.

All paths below are relative to `src/src/jarn/` unless they start with `src/`.

## 1. Inventory

| Component | State | Operations | Hard behaviour |
|---|---|---|---|
| Gateway worker `gateway/worker.py` | `_turn_task`, `_turn_thread_id`, `_queued_turn`, `_pending_confirms`, `_shutdown`, the controller's steer slot | one handler per inbound frame; turn and verdict tasks; `_on_turn_done`, `_kick` | frames read while a task streams, waits on a card or is cancelled; done callbacks that run late; single slots that are overwritten |
| Parked approvals `gateway/approvals.py`, `agent/session.py`, `agent/interrupts.py` | interrupts in the thread's checkpoint, the row map on disk, cards in the chat | park, tap, resume, delete, re-card at restart | crash between two durable writes, duplicate taps, stale cards |
| Daemon and router `gateway/daemon.py`, `gateway/sessions.py` | worker table, handles, `_busy_roots`, `_queues`, `_root_owner` | submit, stop, send, spawn, forget, read, drain, death hook | bot thread against reader threads, death noticed by two parties, stale heartbeats |
| Scheduler `gateway/scheduler.py` | `jobs.json`, `active_delivery.json` | create, remove, enable, disable, due, advance, dispatch | worker processes and the daemon on the same two files, a clock read before the lock, a crash between advance and submit, missed slots |
| Root lease, poller lock `gateway/lease.py`, `telegram/poller_lock.py` | lock files | acquire, release, steal | stale holders |
| Telegram transport `telegram/bot.py`, `backend.py`, `outbox.py` | offset; the live draft, its request in flight, the progress bubble | poll, callback, draft, notice, card, final message | overlapping deliveries on one loop, requests that fail or were served anyway, redelivery |
| Session driver `agent/session.py`, `turn_runner.py`, `interrupts.py` | thread in the checkpoint, fallback cursor, held steer, repair and diagnostics rounds, snapshot task | run_agent_turn, run_turn, resume, fallback, steer, verify, repair | cancellation at any await, retry after partial output, tool calls left unanswered, bounds on rounds and money |
| Checkpoints `agent/checkpoint.py` | undo and redo stacks as numbered git refs, stable snapshot refs | snapshot, undo, redo, abort rollback, rewind, prune | one git process per ref, a snapshot thread still running, several sessions on one repository |
| Permissions and trust `permissions/`, `agent/interrupts.py`, `agent/verify.py`, `config/trust.py`, the launch in `cli.py` | mode, rules, session grants and rejections, the project's `config.yaml`, `trust.yaml` | evaluate, approve, reject, remember, persist, launch, `/trust`, `/mode`, `/preset`, `/config set`, `/add-dir` | a verdict kept while the user thinks, a file that changes between the prompt and the commit, rules read back by another process, a long sequence of commands on an untrusted project |
| Background jobs, fan-out `agent/background.py`, `fanout.py` | registry, finished records, log directories, listeners | start, status, kill, list, sweep, shutdown | tools in worker threads against the monitor thread, exit racing kill, output removed while it is read |
| Controller `controller/core.py`, `async_ops.py` | runtime, active driver, turn owner, steer slot | make_driver, acquire_turn, abort, undo, mode changes | abort against a turn that is ending |
| Configuration `config/` | YAML layers, secrets | load, migrate, settle, commit | concurrent writers, untrusted project files |
| Update and install `src/install.sh`, `update.py`, `install_state.py` | executables, receipt, lock directory, journal, shell profile | install, recover, update, rollback, setup status, uninstall | killed between two renames, recovery killed in turn, a stale lock taken by two, two kinds of lock |
| Cost, memory, sessions `cost/`, `memory/` | totals, session index, transcripts | record, list, resume | totals under fallback, concurrent writers |
| REPL and TUI `repl/`, `tui/` | input queue, overlays | keys, queue, steer | a message queued while a turn ends |
| Providers, auth, onboarding, CLI, doctor | | | network and terminal I/O |

How they interact: the Telegram bot calls the **router** under the router's lock; the router calls the
**supervisor**, which writes frames to the **worker's** stdin; a reader thread per worker applies the frames
that come back and calls the router's hooks, which may send again. In the worker the main loop starts one
task at a time on the **controller**, whose **driver** streams the agent graph; a gated tool call suspends
the graph in the **checkpoint**, and the worker parks it as a row and a card. A tap on the card travels the
whole way back. In the terminal the same gated call is put to the **permission engine**, and only what the
engine asks about reaches the user; what is approved with "always" goes to the project's `config.yaml`, which
the next process loads if the project is trusted. Each turn takes a **checkpoint** of the working tree in a
thread of its own before the first edit, and `/undo`, `/redo`, `/abort` and `/rewind` restore one. Frames of
the worker are delivered to the chat by the **outbox**, one task each. The **scheduler's** tool runs in the
worker and edits the file that the daemon's tick reads.

What makes each part correct: one task at a time in a worker, reachable by cancel and shutdown; a gated call
runs only after a person approved it; a message is run once or its chat knows why not; the queue of a root
moves; one worker works on a root; what runs without a question was consented to, a rejection is final for the
process, and an untrusted project is read-only; undo loses no work and goes back where it says; a job fires
once per slot; a prompt enters its thread once and a tool call keeps its result; a reply reaches the chat
once; an interrupted installation is taken back or completed; a background job is announced when it ends and
never outlives the session.

## 2. Plan

Done:

1. `GatewayWorker`: the worker's event loop (with proofs).
2. `ParkedApprovals`: durable approvals across crashes (with proofs).
3. `Gateway`: router and supervisor with the threads that run them (with proofs).
4. `Permissions`: the decision, the approval step, remembered rules, project trust (with proofs).
5. `UndoHistory`, `Checkpoints`: the undo history as users see it, and the refs, threads and processes that
   implement it (with proofs).
6. `Scheduler`: the job store and the tick (with proofs).
7. `AgentTurn`: one turn with its retries, approvals, steers, repairs and budget (with proofs).
8. `Outbox`: what reaches the chat (with proofs).
9. `Installation`: install, update and rollback with kills between any two steps (with proofs).
10. `BackgroundJobs`: the registry of background processes (with proofs).

Every safety property of the runs has a theorem (section 5); liveness stays with TLC.

To model next: several roots, reap and eviction in the gateway; the lease and poller lock files; the fan-out
budget; turn ownership and runtime rebuilds in the controller; configuration commit and migrations; the
session index; the REPL's input queue.

## 3. Modules

### GatewayWorker

One asyncio thread. Everything between two awaits is one action. The main loop is `ReadTurn`, `ReadSteer`,
`ReadCancel`, `ReadShutdown`, `ReadVerdict`, `ReadHandshake`, `ReadFatal`, `ReadGarbage`, one per frame
that `handle_frame` dispatches; `AbortDone` is the loop resuming after it awaited a cancelled task. A task
goes through `Prepared`, for a slash command `AskConfirm` and `LocalDone`, then `PullSteer`, `InjectSteer`,
`EndAgent` and `FinishTask`. When a task is done, `_on_turn_done` is only scheduled: it is an action of its
own (`OnTurnDone`), and so is the queued frame it hands to `call_soon` (`Kick`). That gap is the reason for
the model.

The variables are the worker's fields under the names of the code (`turnTask` for `_turn_task` and so on);
`held` is the text the driver has pulled from the steer slot and not injected yet; `sent`, `dropped` and
`steeredInto` are bookkeeping. Texts, events and replies are left out.

### ParkedApprovals

One root, one chat, several threads. `pending` is what the checkpoint of each thread holds, `rows` the map
on disk, `cards` what the chat shows. The worker's task is one record with a stage; `Park` writes the row,
`EmitAsk` sends the card and frees the root, `Answer`, `CommitTools` and `ModelAsks` are the resume stream.
`WorkerDies` and `GatewayRestarts` can happen at any point; the durable state survives, nothing else does. The
death hook of the daemon frees the root, unless it is skipped (`gateway/daemon.py:494`, 520): `up` tells whether a
worker is there whose heartbeat frees it instead.

### Gateway

The bot thread and one reader thread per worker process run the router's and the supervisor's code. A
section under one lock is one action: `Submit`, `Stop`, `Drain`, `Clear`, `Death` under the router's lock,
`Ensure`, `SpawnFails` and `HandshakeFails` under the supervisor's, and the unlocked accesses (`Write`, `Mark`,
`Read`, `MarkDead`) one action each. A process is up, ending (its pipes are closed and `poll` finds no exit code yet)
or down (`Crash`, `Exits`); a write to an ending one breaks, and a reader whose wait for the exit code is in vain
reports nothing. A handshake that fails gives up handle and lease, and the process may live on (`HandshakeFails`).
Nothing in `gateway/worker.py` closes a pipe while the process goes on, so a broken pipe or an end of stream means that
the process is ending or was forgotten. The worker is an outline of `GatewayWorker`: it runs, steers, slots or refuses
a frame, emits "done" and rests later. Generations number the processes of the root.

### Permissions

`Evaluate` is `PermissionEngine.evaluate` line by line: blocked by the guard, the secret store, deny rules,
dangerous by the guard, reads, allow rules, mode. A call is a record of the facts those checks read off its
text, so patterns, path aliases and shell parsing are parameters (`Covers`, `Calls`). A rule is written by
hand (it applies to everything) or generated (it carries kind, tool and workspace).

A session is a process: `LaunchTrusted`, `LaunchPrompt` with `LaunchGranted`, `LaunchAborted` and
`LaunchDeclined`, or `LaunchIgnoring`; then `Gate` or `VerifyGate` puts a question and `Approve` or `Reject`
answers it, with `ApplyMode` possible in between (the key works while the menu is open). `ApprovePlan`,
`Preset`, `ConfigSet`, `AddRoot` and `/trust` (`TrustRead`, `TrustCommit`, `TrustRefused`) are the user's
commands; `Untrust` and `EditConfig` come from outside. The writer of `config.yaml` holds a file lock, so
`Remember` is one step; its write may fail, and the failure is only logged.

`grants`, `rejected` and `accepted` are bookkeeping: which approvals are in force, what was refused in this
process, which entries of the file the user was shown and trusted.

### UndoHistory and Checkpoints

`UndoHistory` is the promise: a working tree and two histories of snapshots, newest first and cut to a depth;
`Save`, `Undo`, `Redo` and `Rewind` happen at once, and a snapshot that was stored is never forgotten; an undo whose
replaced tree could not be captured leaves the redo history alone. After an
operation was torn apart (`Tear`) it promises nothing about the histories.

`Checkpoints` is the code. A stack is a function from indexes to refs, and a push or a pop is a list of ref
writes (`PushWrites`, `PopWrites`) that `WriteRef` performs one by one under the checkpoint lock; `WriteFails`
is a git command that is refused, `Crash` a process that dies between two. A turn starts a snapshot thread
(`StartSnapshot`) that builds a commit (`BuildSnapshot`) and compares it with the top (`CompareSnapshot`)
before it takes the lock (`PushSnapshot`), and awaits it at the gate of the first edit or at the end (`Await`).
`Cancel` abandons such an await, and the thread runs on. Commands settle the snapshot, preview, are confirmed,
and restore: `Command`, `Settle`, `Preview`, `Confirm`, `Decline`, `BeginRestore`, `Apply`, `EndRestore`,
`StartRewind`, `BeginRewind`, `Abort`. Files and their contents are a number per tree. A `git restore` may fail before
it changed anything, or half-way: then the tree is one of `HalfTrees`, which nobody made, and the one it was is
remembered in `half`. A repository without a commit cannot be captured: undo and redo, which compare the tree with
their preview, refuse, and an abort goes on without a redo point (`BeginRestore`).

The refinement mapping (`History`) reads the stacks as the operation under way will leave them, from the
moment its tree is restored, and hides refs that are still to be written.

### Scheduler

Worker processes run `schedule_task` (`Ask`, `BeginCreate`, `BeginChange`, `Commit`), the daemon runs
`tick_scheduler` (`TickStart`, `RunDue`, `SubmitDue`, `SubmitFails`). The clock is read in one step and the
store changed in a later one, because the lock is taken in between. The router is an outline: a turn per root,
a queue, a reader thread that releases the root and then clears the delivery hint (`ClearAndDrain`). `Matches`
and `NextCron` are the code's cron match and minute-by-minute search over a calendar whose lengths are
constants, so that days, months and weekdays roll over in a short run.

### AgentTurn

One thread of one controller. `att` holds the locals of `run_agent_turn`, `drv` the fields of the
`SessionDriver` it builds for each attempt, `thread` the messages in the graph's checkpoint. `SubmitLine`,
`RunLeftover`, `RunFollowup` and `ResumeParked` start a turn; `TurnStep` is its next step (inspect for a pending
interrupt, send, stream a model call that answers, calls tools or fails, answer or park a gate, verify, repair,
apply the retry policy); `Cancel` and `Steer` come at any time. Error kinds are the classes the retry policy
distinguishes; model output is text or tool calls. `call` is how far the graph has come with the last tool call: its
interrupt is to be raised (`new`), waits for a verdict (`asked`), or was approved and its tools run (`approved`), each a
step that a cancel, a failure or a reached budget can cut off. `_pending_interrupts` sees only the second, while
`_messages_settled` sees any call at the end of the thread; so a later prompt can go behind a call that was cut off, and
the graph's own middleware, which is not part of the repository, answers it before the model runs (`PatchCalls`).

### Outbox

One chat on one event loop. A task is a record in `tasks` and is suspended where the code awaits: at a
request (`create`, `edit`, `prose`, `post`, `tidy`) or at the idle event of the draft in flight (`wait`). The
draft's fields are those of the code; `gen` stands for its draft id. Requests succeed, fail, or fail after they
were served. Prose is a sequence of numbered chunks and `BufMax` of them fit a message.

### Installation

`dir` maps the command, the retained, staged and exchanged names to a version (0: absent). The installer is one record
per run with a program counter over the steps of `install.sh`, from the lock through reconciliation, staging, journal,
retention, activation and receipt to the commit; `Killed` stops it between any two steps, `Fails` and the signals run
its exit trap (`Trap`). `jarn update` is the same installer behind its own guards, `jarn rollback`, the setup-status
write and uninstall are commands under the receipt's file lock. `mishaps` names what neither program can answer for
alone; the properties say which mishaps they exclude.

### BackgroundJobs

Tool threads run `start`, `status`, `kill` and `list`, the monitor sweeps, the main thread shuts down at
SIGTERM and at exit. A section under the registry's lock is one action; the check of a job's lifetime
(`CheckLimits`), the reason that is set when it is over (`Condemn`), a log that cannot be opened (`OpenFails`),
terminations (which wait), calls of the exit listener and the two looks of `status` at a job's output are
actions of their own.

## 4. Runs

| Run | Configuration | Shows |
|---|---|---|
| `worker` | `MCGatewayWorker.cfg` | one task at a time; nothing starts after shutdown; a queued turn is run or dropped for a reason; shutdown ends the process |
| `approvals` | `ParkedApprovals.cfg` | no call runs without a tap; a suspended call keeps its row; a claimed root is freed while a worker is up |
| `approvals_later_ask` | `ParkedApprovals_later.cfg` | **violated**: one verdict answers later calls of the stream too |
| `gateway_safety` | `MCGateway.cfg` | the process that has work is the one in the table; messages accounted for, no replay |
| `gateway_liveness` | `MCGateway_live.cfg` | the queue moves while the worker lives |
| `permissions` | `MCPermissions.cfg` | untrusted floor, final rejections, consent behind every unasked call |
| `checkpoints` | `MCCheckpoints.cfg` | stacks stay whole and implement `UndoHistory`; a completed restore stores what it replaces; a clean abort goes back to where its turn began; a death costs at most the entry that moves |
| `scheduler` | `MCScheduler.cfg` | a job catches up once, no due job is passed over |
| `turn` | `MCAgentTurn.cfg` | a prompt is sent once, no model call sees a call without its result, success means verified, steers are kept, the limits hold, every turn ends |
| `outbox` | `Outbox.cfg` | one draft request, never behind its own message; prose is posted once; every delivery ends |
| `installation` | `MCInstallation.cfg` | one installer; the command survives kills, but for one that stops a recovery where it cannot be repeated; the receipt is true; failures restore; rollback exchanges both files or neither |
| `background` | `BackgroundJobs.cfg` | exits told once and always, output kept, limits and lifetime bind, no child and no directory of a started job left at the end |

The violated run states what a comment of the repository says; `PROJECT.json` quotes it. Every property of a
passing run has a mutant: a plausible bug, written next to the definition it changes, under which TLC finds
the property violated. `DraftInv`, `JobsInv` and `TurnInv` conjoin a module's type invariant with the
structural facts its other properties rest on; the parts are named. The type invariants of the remaining
modules and the inductive invariants of section 5 (`WorkerInv`, `PermissionInv`, `ApprovalInv`, `GatewayInv`,
`ScheduleInv`, `OutboxInv`, `AgentInv`, `CheckpointInv`, `TurnStepInv`, `InstallInv`, `RegistryInv`) hold under the
same configurations; TLC confirmed each of these before it was proved, `RegistryInv` with three jobs on two slots
as well.

### Bounds

- `GatewayWorker`: two threads, three messages, one control frame, one frame in the pipe, steer mode. Three
  messages are a running turn, one in the slot and one that overwrites it; messages with media and messages of
  another thread are queued in steer mode too, so both paths of a busy worker are taken. The theorems hold for
  any values and both modes.
- `ParkedApprovals`: two threads, two prompts, two gated calls, three taps (one duplicate), two tokens, one
  fault. A second fault would find the same durable states a first one finds.
- `Gateway`: two chats and two messages for safety, so that one chat can take the root from the other; one
  stop, one death, one failing spawn or handshake. Liveness needs a queue of two behind a running turn, hence three
  messages.
- `Permissions`: two processes and two workspaces, four calls (an ordinary and a dangerous command under one
  remembered prefix, a write outside the project, a sensitive read), two answers of the user, one process past
  its launch at a time (`MaxRunning = 1`); the others may sit in the trust prompt. The theorems cover any
  number of processes running together.
- `Checkpoints`: two sessions (symmetric), two turns, two commands or cancellations, one edit, four snapshots
  on stacks of two, one fault. Three snapshots overflow a stack of two; the fourth lets a rewind of the other
  session bury the entry a turn's snapshot has compared itself with. Two commands are an undo and a redo, or a
  cancel and an abort.
- `Scheduler`: two roots, two chats, two jobs, five seconds in a calendar of two-second minutes and two-minute
  days. One cron has a slot in every minute of some days, the other none within the search. One fault.
- `AgentTurn`: two models on two providers, two prompts, two model rounds per turn, one repair round, one
  diagnostics round, one steer, one cancel, a budget that the third or fourth call reaches.
- `Outbox`: two turns, three chunks with two to a message, two extra deliveries, one failing request.
- `Installation`: two installers and two commands (symmetric in each group), two versions, two kills, one
  failure. Two kills are needed for a recovery that is killed in turn. `Excused` stops following states past a
  stolen lock or an overlap, about which no property speaks, except in the shortest of them.
- `BackgroundJobs`: two tool threads, two jobs on one slot, one retained record, two further calls or events.

`CHECK_DEADLOCK FALSE` everywhere: in each model the people and faults are bounded, and a system nobody talks
to rests. Everyone waiting on everyone shows in the liveness properties instead (`BusyClears`,
`QueueContinues`, `TurnEnds`, `Settles`, `ExitTold`).

### Fairness

- Worker: the event loop runs what is ready (weak fairness of the main loop, of each done callback and each
  `call_soon`), streams and cancelled tasks end. A slash command's completion is strongly fair because
  it may ask for a confirmation, any number of times, before it returns. Nobody is assumed to tap a card, to
  send a frame or to close the pipe.
- Approvals: weak fairness of the worker's task and of the heartbeat, both of which run on the event loop.
  Taps, prompts, faults are not fair.
- Gateway: weak fairness of the bot thread inside a call, of each reader thread, and of the worker and its
  heartbeat. Crashes, stops and messages are not fair.
- Turn: weak fairness of the turn's own steps: the loop runs, model calls end or fail (the client has a
  timeout), and an approval that is put to somebody is answered, parked or cancelled. Prompts, steers and
  cancels are not fair.
- Outbox: weak fairness of requests and of the tasks they wake: the HTTP client has a timeout. Events of the
  worker are not fair.
- Background: weak fairness of each tool thread inside a call, of the monitor and of the main thread's
  shutdown. A child need not exit by itself; the termination of one ends because it kills the group.
- Permissions, Checkpoints, Scheduler, Installation: none; their properties are invariants and properties of
  steps.

## 5. Proofs

`GatewayWorkerProofs` proves, from `WorkerAssumption` alone (bounds are natural numbers, there is a thread,
the mode is one of two), `TypeCorrect`, `InductiveInvariant`, `RunningTaskIsBound`, `MutualExclusion` and
`NoLateStart`. "Two tasks never run" is not inductive: a late `_on_turn_done` could unbind a running task, and
a frame could be started twice. `WorkerInv` therefore adds that only the bound task is live (`LiveIsBound`),
that a scheduled callback belongs to a finished task (`CallbacksDone`), that an unanswered card has
its turn waiting on it (`ConfirmsWait`), and that each frame still in the pipe, in the slot or handed to
`call_soon` is in one place and not started (`FreshTurns`, `FreshVerdicts`).

`HostProofs` holds the proofs of what a host keeps: `Permissions`, `Installation` and `BackgroundJobs`.

For `Permissions` it proves, from `PermissionAssumption` (types of the parameters; a rule text covers itself;
a call is matched by the rule it would be remembered under), `TypeCorrect`, `InductiveInvariant`,
`FloorHolds`, `PersistedRulesAreSafe`, `RejectionHolds` and `ConsentHolds`. The consent theorem speaks of the
value of `Evaluate`, so the invariant has to say where rules come from: each rule in a process goes back to an
approval of that process, each generated rule in the file, in a copy read for a prompt and in a loaded list to
an "always" approval that was not dangerous when it was judged, and each rejection is in the deny list.
`RejectionHolds` and `ConsentHolds` then follow state by state from the order of the checks.

For `Installation` it proves, from `InstallationAssumption` (installers and commands are different processes, none
is the absent one, and none is called like a state of the lock; there is a version; bounds are natural numbers),
`InstallInvariant`, `InstallersExclude`, `CommandIsKept`, `ReceiptIsTrue` and the two properties of steps
`FailuresRestore` and `RollbacksExchange`, for any number of installers, commands and kills. `InstallInv` has two
layers. The first always holds: the lock directory names its owner, or waits for the one that made it (`LockOK`,
which is what excludes); a run without the lock has nothing to take back (`BlankOK`); and the rollback name of a run
is used by no file, receipt or journal before its own activation (`FreshOK`), without which an activation could
overwrite the executable another receipt points to. The second holds while nothing happened that no single program
can answer for (`Undisturbed`): at each step of the installer that holds the lock, what is on disk is what its journal
says and what its exit trap would put back (`HolderInv`, with `AtStep` for each step); when nobody holds it, the files
are settled, or there is a journal from which the next installer recovers (`RestInv`, with `JournalOK`); and the two
executables of a rollback are where its step says (`CmdOK`). That a kill costs nothing is this: each step of an
installer leaves files that satisfy `RestOK`. The one kill that does cost something is named where it happens: a run that
stops with the prior executable back in place and the journal still there (`Unrepeatable`).

For `BackgroundJobs` it proves, from `BackgroundAssumption` (there is a finite number of tool threads, the monitor is
none of them; there is at least one slot; bounds are natural numbers), `RegistryInvariant`, `RegistryIsSound`
(`JobsInv`) and `NothingOutlives` (`NothingLeft`). That the slots bind is not inductive over the running children: the
slot is taken with the id, under the lock, and the child is started later, so `SlotsOK` counts the jobs a thread has
claimed too. `StartsOK` says that an id is taken once, `RegistryOK` that a child or a directory belongs to a
registered job or to the thread that is starting it (a directory without a child, left by a log that could not be
opened, belongs to nobody), and that a finished record has its tail and no directory;
`TellOK` that a reaped job was announced or is in the hands of exactly one thread; `ThreadsOK` that a thread works only
on jobs that were registered, however often the registry changed since it looked; `EndOK` that the last shutdown
finds the threads at rest and has in its list every job with something left. The list operations of the registry are
`Within`, which keeps the members of a set in their order; what it keeps, in which order and how many
follow from ranks of positions, without an induction over the list.

`ParkedApprovalsProofs` proves, from `ApprovalsAssumption` (there is a thread; bounds are natural numbers),
`ApprovalsInvariant`, `NoRunWithoutTap` and `SuspendedCallHasRow`. That a call runs no more often than its thread
was approved is not inductive: between the tap and the run there is a verdict on the wire, then a resuming job, then
a call about to run. `TapsCover` counts them: the approving verdicts of a thread under way and the one in the job's
hands are covered by its taps, and for each call so are the runs it had and the one the job may still start. For
that, tokens have to be fresh (`TokensFresh`), a pending call has to belong to its thread (`CallsInOrder`), and the
stage of the job has to say what is in the checkpoint and in the rows (`JobInv`).

`GatewayProofs` proves, from `GatewayAssumption` (no chat is the absent one; bounds are natural numbers; the mode
is one of two), `GatewayInvariant`, `AtMostOneWorker`, `MessagesAccounted` and `NothingReplayed`. A process the table
does not hold may live: a failed handshake leaves one, and a handle is marked dead before its process is reaped. That
such a process has no work (`OneWorker`) needs that a live process outside the table has a handle marked dead, and
that only a live process with a good handle has work (`WorkIsHeld`), with processes in the order of their generations
(`GenerationsInOrder`). `NoReplay`
needs that a turn not yet written is at one position of the queue or in the hands of one thread (`OnePlaceEach`),
and `Accounted` that what a worker has, or reports as done, was written to it (`WorkerHasWritten`).

`SchedulerProofs` proves, from `CalendarAssumption` (the units of the calendar are positive, whatever they are; the
personal root is a root), `ScheduleInvariant` and the two properties of steps `CatchUpOnce` and
`DueJobsFire`. `ScheduleInv` adds to the types that the next run of every row, stored or on its way into the store,
is a slot of its plan after its last run, unless an enable re-armed it from an older clock read. `NextCron` is the
least match within the search limit, so what it returns is a slot by its definition and no induction is needed.

`OutboxProofs` proves, from `OutboxAssumption` (a message holds something; bounds are natural numbers),
`OutboxInvariant`, `DraftIsSafe` and `ProsePostedOnce`. `OutboxInv` says that a request is in flight exactly while
the draft says so (`FlightInv`), that a delivery is behind the live draft and, once its wait is over, behind the
request in flight (`DeliveryInv`), that no task number becomes a bubble twice (`NumbersInv`), and for each chunk of
prose which one of draft, delivery and chat has it (`ProseInv`).

`AgentTurnProofs` proves, from `TurnAssumption` (a chain of at least one model, any subset of it with keys, any
reports of usage, any limits), `TurnInvariant`, `PromptSentOnce`, `CallsKeepResults`, `SuccessIsVerified`,
`SteersAreKept` and `TurnLimits`. `AgentInv` has one part per promise, because each is about the end of a turn and a
turn has many steps: prompts are in the thread in the order of their numbers, and the control state tells whether
that of this turn is there yet (`PromptInv`, with `Unsent` and `Delivered`); the thread ends in a call exactly as long
as the graph has to do with it, a waiting interrupt belongs to that call, and every other call is answered but between a
prompt and the patch behind it (`ThreadInv`); an unverified edit is known to the driver, or the turn
has failed after output and cannot be retried (`EditInv`); the steers taken are in the thread, but for one the driver
holds (`SteerInv`); a driver that has reached the budget knows it (`BudgetInv`); the round of the driver is not behind
the follow-ups that ran (`RoundInv`).

`CheckpointsProofs` proves, from `CheckpointsAssumption` (the absent value is no session and no snapshot; a stack
keeps at least one entry; bounds are natural numbers), `CheckpointInvariant`, `StacksAreWhole`, `WorkIsKept` and the
refinement `ImplementsUndoHistory`. Between two ref writes of a push or a pop a stack is not whole, so the invariant
speaks of the stack the writes still to come will leave (`After`): lemmas say what a list of writes leaves, the pushed
stack for a push (`Pushed`), a shorter one for a prune (`CutAt`), the popped one for a pop (`Popped`), and that a
process which dies in the middle leaves a stack that is known to be torn. `LockInv` says who may be in the middle of
its writes, `CommandInv` what a command at each of its steps has read and stored, and `FreshInv` that a snapshot being
made is nobody else's and not stored yet; `WorkInv` follows the tree from the capture to the restore. `WorkIsKept` has
exceptions, which the model names as they happen (`excused`): an abort or a rewind that captured nothing, an edit made
while a restore runs, a death or a refused ref before the capture was stored, and a `git restore` that stopped
half-way. For the refinement, a snapshot that is pushed is a `Save`, a restore is an `Undo`, a `Redo` or a `Rewind`,
or nothing when git could not restore, an edit is an `Edit` and so is a restore that stopped half-way, a death between
two writes is a `Tear`, and every other step leaves the history as it is.

A second invariant of the same module, `TurnStepInv` (theorem `TurnStepInvariant`), is about single ref writes and
about turns. `KeepInv` says of each write still to come that what it will overwrite is elsewhere in the stack when its
turn comes, or is one of the entries the operation may cost; from it `EntriesAreKept` proves the property of steps
`StepKeepsEntries`. For `AbortRestores` (`CleanAbortRestores`) the invariant follows the snapshot of a turn that has
the stacks for itself: from the capture, through the comparison and the push, to the top of the undo stack and to the
abort that pops it (`CaptureOK`), with the one thread a turn may have running (`SlotOK`) and the owner of the lock
(`OwnerOK`).

In each of these modules the proof that a step keeps the invariant has one step per action; lemmas name what the
actions have in common (a message is appended, a turn ends, a row is deleted), and the facts about sequences, sets
and cardinalities come from the library's theorems. Bounds on prompts, taps, faults and the like are constants of
the models, and the theorems hold for every value of them.

Only model-checked: liveness (`QueuedTurnRuns`, `ShutdownExits`, `BusyClears`, `QueueContinues`, `TurnEnds`,
`Settles`, `ExitTold`, `LifetimeEnds`), which needs fairness and so is out of the proof system's reach.

## 6. What the runs found

The run `approvals_later_ask` ends in a violation: the fixed-verdict approver stays installed for the whole
resume stream, so one tap answers later calls of the stream as well.

The modules also state what other comments and documents say and the code does not do. Each of the definitions below
is refuted by TLC when it is put as an INVARIANT (`QueueContinues` and `EachDueIsEmitted` as a PROPERTY) into the
configuration of its module's run:

| Definition | Module | Said at | What happens |
|---|---|---|---|
| `SteerSameThread` | `GatewayWorker` | `gateway/worker.py:287` | A steer read after the turn's last boundary stays in a slot that carries no thread; the next turn, of another thread, takes it. |
| `QueueContinues` with `MaxDeaths = 1` | `Gateway` | `gateway/sessions.py:580` | After a death the dead handle can stay in the table, and its last heartbeat counts as a turn in flight: what is queued waits for good. |
| `OneProcess` | `Gateway` | `gateway/daemon.py:3` | A worker whose first frame is not the expected one is forgotten with its lease and not terminated (`gateway/daemon.py:363`); the next message starts another beside it. |
| `UntrustedNeverActs` | `Permissions` | `src/docs/PERMISSIONS.md:60` | Rules, and the question about dangerous calls, come before plan mode: a session rule lets a command run in an untrusted project. |
| `RejectedReadIsFiltered` | `Permissions` | `permissions/read_filter.py:75` | Rejections are stored with a tool, the filter asks without one; the tests use actions without a tool on both sides (`src/tests/test_read_filter.py:367`). |
| `ProjectRulesTrusted` | `Permissions` | `config/trust.py:27` | `/config set` reloads the project tier with the trust of the launch and without its fingerprint, also after `--ignore-project-config`. |
| `RewindFindsTurnStart` | `Checkpoints` | `agent/checkpoint.py:887` | The snapshots that undo and redo take are tagged with the thread and turn 0, and `find_for_turn` takes the newest match: `/rewind` can go to one of them. |
| `AbortRestoresTurnStart` | `Checkpoints` | docstring of `abort_rollback` | A cancel abandons the await of the snapshot while its thread runs on; the abort that follows pops the entry of the turn before (`agent/session_helpers.py:67`). |
| `HalfAppliedIsKept` | `Checkpoints` | `agent/checkpoint.py:20`, 987 | `git restore` fails after it rewrote some files; undo, redo, abort and rewind return (`agent/checkpoint.py:782`, 1005) without a ref for the tree they had captured. |
| `JobsGoHome` | `Scheduler` | `agent/builtin_tools.py:147` | An ask frame clears the delivery hint; the approved `schedule_task` runs in a resumed turn and takes the hint of the personal root, which may be another chat's. |
| `EachDueIsEmitted` | `Scheduler` | `gateway/scheduler.py:518` | One due job whose cron has no slot within two years makes `run_due` raise, and no other due job is emitted. |
| `UsageCounted` | `AgentTurn` | `cost/tracker.py:3` | Two model calls of which the second reports at least as many tokens are taken for one growing report (`agent/stream_handlers.py:258`). |
| `OneBubble` | `Outbox` | `telegram/outbox.py:814` | Two progress events before the first bubble has an id create two bubbles; one is never edited or removed. |
| `AnyFailureSurvives` | `Installation` | `src/docs/GOAL_GENERAL_AVAILABILITY.md:274` | A recovery stopped after it moved the prior executable back and before it removed the journal: the next installer moves the restored command aside and stops (`src/install.sh:1200`). |
| `OneKiller` | `BackgroundJobs` | `agent/background.py:247` | `killed_reason` is tested and set without the lock: two sweeps both pass the test and both terminate the job. |

Also seen while modelling, visible in the models and without a statement of their own:

- A prompt typed over a parked approval parks a second card and is dropped, where `agent/session.py:567` says
  "A newly typed prompt is not discarded".
- Rows carry a constant interrupt id, so an old card answers whatever is pending on its thread now, where
  `src/docs/ARCHITECTURE.md:180` says "A callback verdict resumes the exact parked interrupt."
- A death noticed first by a send is not reported: `_mark_dead` (`gateway/daemon.py:494`) returns early. Nor is one of
  a worker with no turn in flight that exits with 0 or is not reaped within a second (`gateway/daemon.py:520`), and a
  verdict never counts as a turn in flight: a root claimed for it stays claimed until another worker reports.
- `/new` leaves the rows of the thread it abandons (`gateway/sessions.py:309`); `gateway/approvals.py:19` says
  otherwise.
- A card is removed before a busy root refuses its verdict with "try this card again"
  (`telegram/bot.py:497`, `gateway/sessions.py:233`).
- A message submitted between the freeing of a root and the drain overtakes the queue
  (`gateway/sessions.py:601`), and the last events of a turn go to a chat that claimed the root in between
  (`gateway/sessions.py:535`).
- An "always" grant changes `permissions.allow` and so the trust fingerprint: the next launch asks again, and
  without a terminal it is untrusted and in plan mode, where `permissions/rule_store.py:3` says the rule must
  survive across processes.
- A remembered search with a path and a sensitive glob is stored under the path, and so is asked about again.
- `/config set` drops a mode chosen with `/mode`.
- `verify_after_edit` does not downgrade "always" itself; `PersistedIsSafe` holds because no approver offers
  it for a dangerous command.
- Checkpoints: an abort goes back to where its turn began only if no other session was at work on the stacks when the
  turn started: a rewind under way then buries the entry the turn's snapshot compared itself with, the snapshot takes
  the tree for stored, and the abort pops the rewind's entry. `clean` therefore asks for a free lock at the start; the
  proof of `AbortRestores` does not go through without it. A rewind ignores that the tree could not be captured, and
  so does an abort in a repository without a commit; a ref git refuses in the middle of a shift is ignored; after a
  rewind the new thread cannot undo its parent's entries.
- Scheduler: nothing in the repository calls `tick_scheduler`, where `src/docs/ARCHITECTURE.md:244` and
  `src/docs/TELEGRAM_GATEWAY_PARITY.md:31` describe jobs that run. A due job whose cron has no slot within two
  years (`0 0 29 2 *`) makes `run_due` raise before it saves, at every tick, so no job runs. Enabling a job with
  a clock read before a tick fired it re-arms it (`rearmed`). Submission is at most once.
- Turn: a cancel while an approved tool runs, or before the interrupt of a call is raised, leaves a call that
  `_pending_interrupts` does not see, and the next prompt goes behind it; only the middleware of the graph keeps the
  provider from refusing the thread. A project without a verification command passes the automatic gate
  (`agent/verify.py:364`). Edits made before a park are never verified by the automatic gate. The hard stop is not checked
  between a resumed approval that reached the budget and the typed prompt. A held steer is lost when a retry
  builds a new driver, and a second steer overwrites one in the slot (`repl/app.py:1092` says "never lost"). The
  prompt made of a leftover steer does not reset the diagnostics chain. The fallback cursor is not reset after a
  failed turn. A refused image message that cannot be removed stays in the thread twice.
- Outbox: a reply longer than a message loses its beginning (`telegram/outbox.py:911`), and its draft stops
  changing when it is full. A second delivery that takes the draft while the first waits posts the prose twice
  (`again`). A failed send of the prose skips the removal of the bubble, and the progress text is recorded as
  sent before the request succeeds.
- Installation: (1) a recovery killed after it moved the retained executable back and before it cleared the
  journal makes every later installer stop with "cannot restore missing prior executable"
  (`src/docs/GOAL_GENERAL_AVAILABILITY.md:274` asks for a recovery that can be repeated); (2) the journal is
  cleared before the receipt is rewritten, so a kill in between leaves a stale receipt; (3) `jarn rollback`
  between a killed install and the next installer leads to (1) as well; (4) `install.lock` and
  `install.json.lock` exclude nothing from each other; (5) two installers that find a dead one's lock can both
  take it; (6) a rollback killed between its renames leaves no command, where its docstring says "Atomically
  exchange"; (7) the setup-status write turns the receipt into one line, in which the installer's `sed` finds no
  rollback, and a rerun on the same version drops it (`src/docs/UPDATE_ROLLBACK.md:5`); (8) uninstall leaves the
  journal and older retained executables, and with two of them the installer refuses to guess.
- Background jobs: a start whose log cannot be opened leaves its directory for good (`agent/background.py:293`).
  Two overlapping starts exceed `max_concurrent` (`raced`). A status that looked for the tail
  before a reap and reads the log after it reports no output. `_terminate` returns when the shell has exited, so
  descendants left in its group outlive the session (`agent/background.py:11`). `killed_reason` stays on a child
  that had exited by itself.

## 7. Not modelled

The parts listed under "To model next" in section 2: each has a protocol of its own, and they are left for
further modules. Left out of the modelled parts:

- gateway: bodies of slash commands, progress texts and redaction (data); `reap`, restart, eviction and several
  roots (`evict_idle` has no caller outside the tests); the poller's backlog at start (`drain_backlog`);
- permissions: the regular expressions of `guard.py`, path canonicalisation and the parsing of search output
  (pure string work, in the models a fact about a call); hooks before a tool, which can only reject it; the
  start of a gateway worker, which loads its root as trusted;
- checkpoints: an abort racing a slash command; the removal of added files after a successful `git restore`, whose
  errors the code ignores, is taken to succeed, and a process that dies inside `git restore` to die before or after it;
- scheduler: a store that cannot be read and is treated as empty; time zones;
- turn: hooks, transcripts, staging of media, progress of tools, prices;
- installation: a kill inside the exit trap or inside uninstall's removal, a flaky smoke test of a good file,
  malformed journals and locks, the legacy marker, a file lock that fails open, symlink checks, downloads and
  their verification, the categories of user data;
- background jobs: limits changed by a runtime rebuild, descendants of a child, the fan-out budget.

The wizards, doctor, provider adapters, renderers, translations and configuration schemas, which are most of the
repository's lines, are terminal or network I/O and data without a protocol to check.
