---------------------------- MODULE GatewayWorker ----------------------------
(***************************************************************************)
(* The event loop of one per-root gateway worker (jarn/gateway/worker.py). *)
(*                                                                         *)
(* The worker is a single asyncio thread.  Its main loop reads one NDJSON  *)
(* frame at a time and awaits the handler; turns and approval resumes run  *)
(* as tasks of their own, so a cancel, a steer or a shutdown can be read   *)
(* while a turn is in flight.  Everything between two awaits is one step.  *)
(*                                                                         *)
(* A job <<0, m>> is the task running the user message m; a job <<n, m>>,  *)
(* n > 0, is the task that the n-th control frame, a verdict, started to   *)
(* resume the approval parked by the turn of m.  Message texts, replies    *)
(* and media are abstracted to the number of the message, its thread and   *)
(* whether it carries media.                                               *)
(***************************************************************************)
EXTENDS Naturals, Sequences, FiniteSets

CONSTANTS
  Threads,     \* conversation ids served by this root
  NoThread,    \* Python None, in the place of a thread id
  MaxMsgs,     \* bound: user messages sent to the worker
  MaxControl,  \* bound: cancel / steer / verdict / shutdown frames sent
  PipeBound,   \* bound: frames waiting on stdin
  BusyMode     \* gateway.telegram.busy_input_mode

ASSUME WorkerAssumption ==
  /\ MaxMsgs \in Nat /\ MaxControl \in Nat /\ PipeBound \in Nat
  /\ BusyMode \in {"steer", "queue"}
  /\ Threads # {} /\ NoThread \notin Threads

Msgs == 1..MaxMsgs
None == 0
Jobs == (0..MaxControl) \X Msgs
NoJob == <<0, None>>
Turn(m) == <<0, m>>
IsTurn(j) == j[1] = 0

\* The life of a task.  "starting": resume_thread and ensure_runtime; "slash":
\* a leading slash command runs locally; "confirm": it awaits a Confirm/Cancel
\* card; "agent": the driver streams; "tail": the last event has been emitted
\* but the coroutine has not returned; "finished": task.done() holds.
Running  == {"starting", "slash", "confirm", "agent", "tail"}
Phases   == {"none", "finished"} \cup Running

Frames ==
  [kind : {"handshake", "badversion", "garbage", "shutdown", "eof"}]
    \cup [kind : {"turn"}, msg : Msgs, thread : Threads, media : BOOLEAN]
    \cup [kind : {"steer"}, msg : Msgs, thread : Threads]
    \cup [kind : {"cancel"}, thread : Threads]
    \cup [kind : {"verdict"}, card : {"confirm", "park"}, msg : Msgs, id : 1..MaxControl]

TurnFrame(m, t, media) == [kind |-> "turn", msg |-> m, thread |-> t, media |-> media]
NoFrame == [kind |-> "none"]
TurnFrames == {f \in Frames : f.kind = "turn"}

VARIABLES
  stdin,       \* frames written by the daemon and not yet read
  loop,        \* "read", "abort" (the loop awaits a cancelled task), "exited"
  awaited,     \* the task awaited in "abort"
  handshaken,  \* _handshaken
  shutdown,    \* _shutdown
  phase,       \* [Jobs -> Phases]
  thread,      \* the thread each message belongs to
  turnTask,    \* _turn_task, also bound to the controller
  turnThread,  \* _turn_thread_id
  cancelling,  \* tasks on which task.cancel() has been called
  callbacks,   \* finished tasks whose _on_turn_done has not run yet
  queuedTurn,  \* _queued_turn, a slot for one frame
  kicked,      \* queued frames handed to loop.call_soon and not yet run
  steerSlot,   \* controller._steer_slot: the message whose text it holds
  held,        \* driver._pending_steer: pulled from the slot, not yet injected
  confirms,    \* _pending_confirms: messages whose future is unanswered
  rows,        \* messages whose parked approval is in the durable map
  steeredInto, \* history: <<message, thread>> pairs of injected steers
  dropped,     \* history: queued turns cancelled or overwritten in the slot
  sent         \* frames sent so far, per kind of budget

loopVars   == <<stdin, loop, awaited, handshaken, shutdown, sent>>
taskVars   == <<phase, thread, turnTask, turnThread, cancelling, callbacks>>
slotVars   == <<queuedTurn, kicked, dropped>>
steerVars  == <<steerSlot, held, steeredInto>>
askVars    == <<confirms, rows>>
vars == <<loopVars, taskVars, slotVars, steerVars, askVars>>

Init ==
  /\ stdin = <<>> /\ loop = "read" /\ awaited = NoJob
  /\ handshaken = FALSE /\ shutdown = FALSE
  /\ phase = [j \in Jobs |-> "none"]
  /\ thread \in [Msgs -> Threads]
  /\ turnTask = NoJob /\ turnThread = NoThread
  /\ cancelling = {} /\ callbacks = {}
  /\ queuedTurn = NoFrame /\ kicked = {} /\ dropped = {}
  /\ steerSlot = None /\ held = None /\ steeredInto = {}
  /\ confirms = {} /\ rows = {}
  /\ sent = [msgs |-> 0, control |-> 0]

----------------------------------------------------------------------------
(* The daemon's end of the pipe. *)

\* The daemon (or the daemon's death, "eof") puts one frame on stdin.
SendMsg(media) ==
  /\ Len(stdin) < PipeBound /\ sent.msgs < MaxMsgs
  /\ sent' = [sent EXCEPT !.msgs = @ + 1]
  /\ LET m == sent.msgs + 1 IN
       stdin' = Append(stdin, TurnFrame(m, thread[m], media))
  /\ UNCHANGED <<loop, awaited, handshaken, shutdown, taskVars, slotVars, steerVars, askVars>>

\* A steer carries a message of its own, numbered like the others.
SendSteer ==
  /\ Len(stdin) < PipeBound /\ sent.msgs < MaxMsgs
  /\ sent' = [sent EXCEPT !.msgs = @ + 1]
  /\ LET m == sent.msgs + 1 IN
       stdin' = Append(stdin, [kind |-> "steer", msg |-> m, thread |-> thread[m]])
  /\ UNCHANGED <<loop, awaited, handshaken, shutdown, taskVars, slotVars, steerVars, askVars>>

\* The daemon shakes hands once, when it has spawned the worker.
SendHandshake ==
  /\ Len(stdin) < PipeBound /\ ~handshaken
  /\ \A i \in DOMAIN stdin : stdin[i].kind # "handshake"
  /\ stdin' = Append(stdin, [kind |-> "handshake"])
  /\ UNCHANGED <<loop, awaited, handshaken, shutdown, sent, taskVars, slotVars,
                 steerVars, askVars>>

SendControl(f) ==
  /\ Len(stdin) < PipeBound /\ sent.control < MaxControl
  /\ sent' = [sent EXCEPT !.control = @ + 1]
  /\ stdin' = Append(stdin, f)
  /\ UNCHANGED <<loop, awaited, handshaken, shutdown, taskVars, slotVars, steerVars, askVars>>

ControlFrames ==
  [kind : {"badversion", "garbage", "shutdown", "eof"}]
    \cup [kind : {"cancel"}, thread : Threads]
    \cup [kind : {"verdict"}, card : {"confirm", "park"}, msg : Msgs, id : {sent.control + 1}]

----------------------------------------------------------------------------
(* Helpers of the handlers. *)

JobThread(j) == thread[j[2]]
Live(j)      == phase[j] \in Running
\* Mutant: a turn whose last event is out counts as over.
TurnInFlight_UntilDoneEvent ==
  turnTask # NoJob /\ phase[turnTask] \in Running \ {"tail"}
TurnInFlight == turnTask # NoJob /\ Live(turnTask)

\* The test on _shutdown that opens _handle_turn.
Accepting_Always == TRUE  \* mutant
Accepting == ~shutdown

\* The identity test that opens _on_turn_done.
IsCurrent(j) == turnTask = j

\* The main loop takes the next frame of the given kind.
Reads(kind) ==
  /\ loop = "read" /\ stdin # <<>>
  /\ Head(stdin).kind = kind
  /\ stdin' = Tail(stdin)

\* create_task, _turn_task, _turn_thread_id, bind_turn_task.
StartJob(j, t) ==
  /\ phase' = [phase EXCEPT ![j] = "starting"]
  /\ turnTask' = j
  /\ turnThread' = t

ShouldSteerBusy(f) ==
  /\ BusyMode = "steer"
  /\ ~f.media
  /\ turnThread \in {NoThread, f.thread}

\* _handle_turn, reached from the main loop and from a kicked queued frame.
HandleTurn(f) ==
  \/ /\ ~Accepting
     /\ UNCHANGED <<phase, turnTask, turnThread, queuedTurn, dropped, steerSlot>>
  \/ /\ Accepting /\ ~TurnInFlight
     /\ StartJob(Turn(f.msg), f.thread)
     /\ UNCHANGED <<queuedTurn, dropped, steerSlot>>
  \/ /\ Accepting /\ TurnInFlight /\ ShouldSteerBusy(f)
     /\ steerSlot' = f.msg
     /\ UNCHANGED <<phase, turnTask, turnThread, queuedTurn, dropped>>
  \/ /\ Accepting /\ TurnInFlight /\ ~ShouldSteerBusy(f)
     /\ queuedTurn' = f
     /\ dropped' = IF queuedTurn = NoFrame THEN dropped ELSE dropped \cup {queuedTurn.msg}
     /\ UNCHANGED <<phase, turnTask, turnThread, steerSlot>>

\* task.cancel(), then the loop awaits the task (and abort() its rollback).
\* Mutant: the task is awaited and never cancelled.
CancelAndAwait_NoCancel ==
  /\ UNCHANGED cancelling
  /\ loop' = "abort" /\ awaited' = turnTask
CancelAndAwait ==
  /\ cancelling' = cancelling \cup {turnTask}
  /\ loop' = "abort" /\ awaited' = turnTask

\* Leaving the read loop: run()'s finally cancels a turn still in flight.
Exit ==
  /\ shutdown' = TRUE
  /\ IF TurnInFlight
       THEN CancelAndAwait
       ELSE loop' = "exited" /\ UNCHANGED <<awaited, cancelling>>

----------------------------------------------------------------------------
(* One action per frame the main loop handles. *)

ReadHandshake ==
  /\ Reads("handshake")
  /\ handshaken' = TRUE
  /\ UNCHANGED <<loop, awaited, shutdown, sent, taskVars, slotVars, steerVars, askVars>>

\* An unsupported schema version, any frame before the handshake, or EOF
\* ends the loop.
ReadFatal ==
  /\ loop = "read" /\ stdin # <<>>
  /\ \/ Head(stdin).kind \in {"badversion", "eof"}
     \/ ~handshaken /\ Head(stdin).kind \notin {"handshake", "garbage"}
  /\ stdin' = Tail(stdin)
  /\ Exit
  /\ UNCHANGED <<handshaken, sent, phase, thread, turnTask, turnThread, callbacks,
                 slotVars, steerVars, askVars>>

\* A line that does not decode is reported and skipped.
ReadGarbage ==
  /\ Reads("garbage")
  /\ UNCHANGED <<loop, awaited, handshaken, shutdown, sent, taskVars, slotVars,
                 steerVars, askVars>>

ReadTurn ==
  /\ handshaken /\ Reads("turn")
  /\ HandleTurn(Head(stdin))
  /\ UNCHANGED <<loop, awaited, handshaken, shutdown, sent, thread, cancelling, callbacks,
                 kicked, held, steeredInto, askVars>>

\* _handle_steer: refused when idle or when another thread's turn is running.
ReadSteer ==
  /\ handshaken /\ Reads("steer")
  /\ steerSlot' = IF TurnInFlight /\ turnThread \in {NoThread, Head(stdin).thread}
                    THEN Head(stdin).msg ELSE steerSlot
  /\ UNCHANGED <<loop, awaited, handshaken, shutdown, sent, taskVars, slotVars, held,
                 steeredInto, askVars>>

\* _handle_cancel: the queue slot is emptied before anything is checked; then
\* controller.abort drops the steer, cancels the task and awaits it.
ReadCancel ==
  /\ handshaken /\ Reads("cancel")
  /\ queuedTurn' = NoFrame
  /\ dropped' = IF queuedTurn = NoFrame THEN dropped ELSE dropped \cup {queuedTurn.msg}
  /\ IF TurnInFlight /\ turnThread \in {NoThread, Head(stdin).thread}
       THEN /\ steerSlot' = None
            /\ CancelAndAwait
       ELSE UNCHANGED <<steerSlot, cancelling, loop, awaited>>
  /\ UNCHANGED <<handshaken, shutdown, sent, phase, thread, turnTask, turnThread,
                 callbacks, kicked, held, steeredInto, askVars>>

\* _handle_shutdown: like a cancel of whatever runs, then the loop is left.
ReadShutdown ==
  /\ handshaken /\ Reads("shutdown")
  /\ queuedTurn' = NoFrame
  /\ dropped' = IF queuedTurn = NoFrame THEN dropped ELSE dropped \cup {queuedTurn.msg}
  /\ steerSlot' = IF TurnInFlight THEN None ELSE steerSlot
  /\ Exit
  /\ UNCHANGED <<handshaken, sent, phase, thread, turnTask, turnThread, callbacks,
                 kicked, held, steeredInto, askVars>>

\* _handle_approval_verdict: a pending confirmation first, then a parked row;
\* refused while a turn is in flight and when the token is unknown.
ReadVerdict ==
  LET f == Head(stdin)
      j == <<f.id, f.msg>>
  IN
  /\ handshaken /\ Reads("verdict")
  /\ \/ /\ f.card = "confirm" /\ f.msg \in confirms
        /\ confirms' = confirms \ {f.msg}
        /\ phase' = [phase EXCEPT ![Turn(f.msg)] = "slash"]
        /\ UNCHANGED <<turnTask, turnThread>>
     \/ /\ f.card = "confirm" /\ f.msg \notin confirms
        /\ UNCHANGED <<confirms, phase, turnTask, turnThread>>
     \/ /\ f.card = "park"
        /\ IF TurnInFlight \/ f.msg \notin rows
             THEN UNCHANGED <<phase, turnTask, turnThread>>
             ELSE StartJob(j, thread[f.msg])
        /\ UNCHANGED confirms
  /\ UNCHANGED <<loop, awaited, handshaken, shutdown, sent, thread, cancelling, callbacks,
                 slotVars, steerVars, rows>>

\* abort() (or run()'s finally) resumes once the cancelled task is done.
AbortDone ==
  /\ loop = "abort" /\ ~Live(awaited)
  /\ awaited' = NoJob
  /\ loop' = IF shutdown THEN "exited" ELSE "read"
  /\ UNCHANGED <<stdin, handshaken, shutdown, sent, taskVars, slotVars, steerVars, askVars>>

----------------------------------------------------------------------------
(* The steps of the tasks. *)

\* A cancelled task takes no further step of its own: the await raises.
Steps(j, from) == phase[j] = from /\ j \notin cancelling

\* A text turn may be a slash command handled locally.
Prepared(j, to) ==
  /\ Steps(j, "starting")
  /\ to \in IF IsTurn(j) THEN {"slash", "agent"} ELSE {"agent"}
  /\ phase' = [phase EXCEPT ![j] = to]
  /\ UNCHANGED <<loopVars, thread, turnTask, turnThread, cancelling, callbacks,
                 slotVars, steerVars, askVars>>

\* _confirm_card: a card is sent and the task waits for the verdict.
AskConfirm(m) ==
  /\ Steps(Turn(m), "slash")
  /\ confirms' = confirms \cup {m}
  /\ phase' = [phase EXCEPT ![Turn(m)] = "confirm"]
  /\ UNCHANGED <<loopVars, thread, turnTask, turnThread, cancelling, callbacks,
                 slotVars, steerVars, rows>>

\* _finish_local: the command ends the turn, or seeds an agent turn.
LocalDone(m, to) ==
  /\ Steps(Turn(m), "slash")
  /\ to \in {"agent", "tail"}
  /\ phase' = [phase EXCEPT ![Turn(m)] = to]
  /\ UNCHANGED <<loopVars, thread, turnTask, turnThread, cancelling, callbacks,
                 slotVars, steerVars, askVars>>

\* The driver polls steer_source at an update of the main graph and holds the
\* text until the boundary is settled.
PullSteer(j) ==
  /\ Steps(j, "agent")
  /\ held = None /\ steerSlot # None
  /\ held' = steerSlot
  /\ steerSlot' = None
  /\ UNCHANGED <<loopVars, taskVars, slotVars, steeredInto, askVars>>

InjectSteer(j) ==
  /\ Steps(j, "agent")
  /\ held # None
  /\ steeredInto' = steeredInto \cup {<<held, JobThread(j)>>}
  /\ held' = None
  /\ UNCHANGED <<loopVars, taskVars, slotVars, steerSlot, askVars>>

\* The stream ends: done, error, or an approval parked in the durable map.  The
\* driver, and a steer it still holds, are gone.
EndAgent(j, parks) ==
  /\ Steps(j, "agent")
  /\ parks => IsTurn(j)
  /\ phase' = [phase EXCEPT ![j] = "tail"]
  /\ held' = None
  /\ rows' = IF parks THEN rows \cup {j[2]}
             ELSE IF ~IsTurn(j) THEN rows \ {j[2]} ELSE rows
  /\ UNCHANGED <<loopVars, thread, turnTask, turnThread, cancelling, callbacks,
                 slotVars, steerSlot, steeredInto, confirms>>

\* The coroutine returns, or its CancelledError handler has run.
FinishTask(j) ==
  /\ \/ Steps(j, "tail")
     \/ Live(j) /\ j \in cancelling
  /\ phase' = [phase EXCEPT ![j] = "finished"]
  /\ callbacks' = callbacks \cup {j}
  /\ held' = None
  /\ confirms' = IF IsTurn(j) THEN confirms \ {j[2]} ELSE confirms
  /\ rows' = IF ~IsTurn(j) /\ phase[j] = "agent" THEN rows \ {j[2]} ELSE rows
  /\ UNCHANGED <<loopVars, thread, turnTask, turnThread, cancelling, slotVars,
                 steerSlot, steeredInto>>

\* The second half of _on_turn_done: the queued frame goes to loop.call_soon.
\* Mutant: the slot is left for the next completion to look at.
KickQueued_Forgotten == UNCHANGED <<queuedTurn, kicked, dropped>>
KickQueued ==
  /\ queuedTurn' = NoFrame
  /\ kicked' = IF queuedTurn # NoFrame /\ ~shutdown
                 THEN kicked \cup {queuedTurn} ELSE kicked
  /\ dropped' = IF queuedTurn # NoFrame /\ shutdown
                  THEN dropped \cup {queuedTurn.msg} ELSE dropped

\* _on_turn_done, scheduled with call_soon when the task finished.
OnTurnDone(j) ==
  /\ j \in callbacks
  /\ callbacks' = callbacks \ {j}
  /\ IF IsCurrent(j)
       THEN turnTask' = NoJob /\ turnThread' = NoThread /\ KickQueued
       ELSE UNCHANGED <<turnTask, turnThread, queuedTurn, kicked, dropped>>
  /\ UNCHANGED <<loopVars, phase, thread, cancelling, steerVars, askVars>>

\* _kick: the queued frame goes through _handle_turn again.
Kick(f) ==
  /\ f \in kicked /\ loop # "exited"
  /\ kicked' = kicked \ {f}
  /\ HandleTurn(f)
  /\ UNCHANGED <<loopVars, thread, cancelling, callbacks, held, steeredInto, askVars>>

----------------------------------------------------------------------------

MainLoop ==
  \/ ReadHandshake \/ ReadFatal \/ ReadGarbage \/ ReadTurn \/ ReadSteer \/ ReadCancel
  \/ ReadShutdown \/ ReadVerdict \/ AbortDone

JobStep(j) ==
  \/ \E to \in {"slash", "agent"} : Prepared(j, to)
  \/ PullSteer(j)
  \/ InjectSteer(j)
  \/ \E parks \in BOOLEAN : EndAgent(j, parks)
  \/ FinishTask(j)

LocalStep(m) ==
  \/ AskConfirm(m)
  \/ \E to \in {"agent", "tail"} : LocalDone(m, to)

Env ==
  \/ \E media \in BOOLEAN : SendMsg(media)
  \/ SendSteer
  \/ SendHandshake
  \/ \E f \in ControlFrames : SendControl(f)

Next ==
  \/ Env
  \/ MainLoop
  \/ \E j \in Jobs : JobStep(j)
  \/ \E m \in Msgs : LocalStep(m)
  \/ \E j \in Jobs : OnTurnDone(j)
  \/ \E f \in TurnFrames : Kick(f)

\* The event loop runs every ready callback and the reader every line it gets;
\* a stream ends (provider timeouts bound it), a local command returns.  The
\* daemon and the person tapping the cards are not assumed to do anything.
Fairness ==
  /\ WF_vars(MainLoop)
  /\ \A j \in Jobs :
       /\ WF_vars(\E to \in {"slash", "agent"} : Prepared(j, to))
       /\ WF_vars(\E parks \in BOOLEAN : EndAgent(j, parks))
       /\ WF_vars(FinishTask(j))
       /\ WF_vars(OnTurnDone(j))
  /\ \A m \in Msgs : SF_vars(\E to \in {"agent", "tail"} : LocalDone(m, to))
  /\ \A f \in TurnFrames : WF_vars(Kick(f))

Spec == Init /\ [][Next]_vars /\ Fairness

----------------------------------------------------------------------------
(* Properties. *)

TypeOK ==
  /\ stdin \in Seq(Frames)
  /\ loop \in {"read", "abort", "exited"}
  /\ awaited \in Jobs \cup {NoJob}
  /\ handshaken \in BOOLEAN /\ shutdown \in BOOLEAN
  /\ phase \in [Jobs -> Phases]
  /\ thread \in [Msgs -> Threads]
  /\ turnTask \in Jobs \cup {NoJob}
  /\ turnThread \in Threads \cup {NoThread}
  /\ cancelling \subseteq Jobs /\ callbacks \subseteq Jobs
  /\ queuedTurn \in TurnFrames \cup {NoFrame}
  /\ kicked \subseteq TurnFrames
  /\ steerSlot \in Msgs \cup {None} /\ held \in Msgs \cup {None}
  /\ confirms \subseteq Msgs /\ rows \subseteq Msgs /\ dropped \subseteq Msgs
  /\ steeredInto \subseteq Msgs \X Threads
  /\ sent \in [msgs : 0..MaxMsgs, control : 0..MaxControl]

\* The worker never has two tasks running on its one controller: neither a
\* frame read in the tail of a turn, nor a kicked frame, nor a verdict starts
\* a second one.
OneTurnAtATime ==
  \A i, j \in Jobs : Live(i) /\ Live(j) => i = j

\* Whatever runs is what _turn_task and _turn_thread_id name, so a cancel, a
\* steer or a shutdown always reaches it.  A stale _on_turn_done, run after
\* the next task has been started, must not unbind that task.
LiveIsBound ==
  \A j \in Jobs : Live(j) => turnTask = j /\ turnThread = JobThread(j)

\* Frames that can still start a task: unread, in the queue slot, or kicked.
OnStdin(f)  == \E i \in DOMAIN stdin : stdin[i] = f
Waiting(f)  == OnStdin(f) \/ queuedTurn = f \/ f \in kicked

\* The inductive invariant behind the two above.  A callback is only pending
\* for a task that is over; an unanswered card has its turn waiting on it; and
\* every turn frame, wherever it waits, is in one place only and has not been
\* started yet, so no message is ever run twice.
CallbacksDone == \A j \in callbacks : phase[j] = "finished"
ConfirmsWait  == \A m \in confirms : phase[Turn(m)] = "confirm"
NotStarted ==
  \A f \in TurnFrames : Waiting(f) =>
    phase[Turn(f.msg)] = "none" /\ f.msg <= sent.msgs /\ f.thread = thread[f.msg]
OnceOnStdin ==
  \A i, k \in DOMAIN stdin :
    stdin[i].kind = "turn" /\ stdin[k].kind = "turn" /\ stdin[i].msg = stdin[k].msg => i = k
OneFrameEach ==
  \A f, g \in TurnFrames : Waiting(f) /\ Waiting(g) /\ f.msg = g.msg => f = g
OnePlaceEach ==
  \A f \in TurnFrames :
    /\ OnStdin(f) => queuedTurn # f /\ f \notin kicked
    /\ queuedTurn = f => f \notin kicked
UnsentNotStarted == \A m \in Msgs : m > sent.msgs => phase[Turn(m)] = "none"
FreshTurns ==
  NotStarted /\ OnceOnStdin /\ OneFrameEach /\ OnePlaceEach /\ UnsentNotStarted
FreshVerdicts ==
  /\ \A i \in DOMAIN stdin : stdin[i].kind = "verdict" =>
       /\ \A m \in Msgs : phase[<<stdin[i].id, m>>] = "none"
       /\ stdin[i].id <= sent.control
  /\ \A i, k \in DOMAIN stdin :
       stdin[i].kind = "verdict" /\ stdin[k].kind = "verdict" /\ stdin[i].id = stdin[k].id
         => i = k
  /\ \A n \in 1..MaxControl : n > sent.control =>
       \A m \in Msgs : phase[<<n, m>>] = "none"
WorkerInv ==
  /\ TypeOK /\ LiveIsBound /\ CallbacksDone /\ ConfirmsWait
  /\ FreshTurns /\ FreshVerdicts

\* Once _shutdown is set no task starts, not even a frame that was handed to
\* call_soon before the shutdown was read.
NoStartAfterShutdown ==
  [][shutdown => \A j \in Jobs : phase[j] = "none" => phase'[j] = "none"]_vars

\* A frame put in the queue slot is started, or becomes a steer, or is
\* dropped by a cancel, a shutdown or a later frame, unless the running turn
\* waits for somebody to tap a confirmation card.
QueuedTurnRuns ==
  \A m \in Msgs :
    (queuedTurn # NoFrame /\ queuedTurn.msg = m)
      ~> (phase[Turn(m)] # "none" \/ m = steerSlot \/ m \in dropped
            \/ shutdown \/ confirms # {})

\* A shutdown, an EOF or a protocol error ends the process even when a turn
\* is streaming or waits on a card.
ShutdownExits == shutdown ~> loop = "exited"

\* A text steered into a running turn reaches a turn of its own thread
\* (worker.py _should_steer_busy). TLC refutes it: README, 6.
SteerSameThread ==
  \A p \in steeredInto : p[2] = thread[p[1]]

=============================================================================
