------------------------------- MODULE Gateway -------------------------------
(***************************************************************************)
(* The daemon side of the gateway for one project root: the session        *)
(* router (gateway/sessions.py) and the worker supervisor                  *)
(* (gateway/daemon.py), with the pipes and a coarse worker process.        *)
(*                                                                         *)
(* Two kinds of threads run the router's code: the bot thread, which       *)
(* submits and stops turns, and one reader thread per worker process,      *)
(* which applies the worker's frames and drains the queue.  What happens   *)
(* under one lock is one step.  The n-th worker process and its handle are *)
(* generation n; a chat has one thread on the root, named like the chat.   *)
(***************************************************************************)
EXTENDS Naturals, Sequences, FiniteSets, SequencesExt

CONSTANTS
  Chats,       \* allowlisted chats
  NoChat,      \* nobody
  MaxMsgs,     \* bound: messages submitted
  MaxStops,    \* bound: /stop commands
  MaxDeaths,   \* bound: worker processes that crash
  MaxFails,    \* bound: spawns and handshakes that fail
  BusyMode     \* gateway.telegram.busy_input_mode

ASSUME GatewayAssumption ==
  /\ NoChat \notin Chats
  /\ {MaxMsgs, MaxStops, MaxDeaths, MaxFails} \subseteq Nat
  /\ BusyMode \in {"steer", "queue"}

Msgs  == 1..MaxMsgs
None  == 0
Gens  == 1..(MaxDeaths + MaxFails + 1)
Bot   == 0
Actors == {Bot} \cup Gens
Rest  == [pc |-> "rest", op |-> "none", msg |-> None, gen |-> None, chat |-> NoChat]

VARIABLES
  \* the router
  busy,      \* the root is in _busy_roots
  queue,     \* _queues[root]
  owner,     \* _root_owner[root]
  \* the supervisor
  cur,       \* generation in _workers, or None
  dead,      \* handles with dead = True
  status,    \* [Gens -> {"none", "idle", "turn"}]: the last StatusFrame
  inFlight,  \* [Gens -> thread of in_flight_thread_id, or NoChat]
  \* the threads
  act,       \* [Actors -> program counter and what the thread works on]
  \* the processes and the pipes
  proc,      \* [Gens -> {"none", "up", "ending", "down"}]: an ending process has closed its
             \* pipes and is not reaped yet
  inbox, outbox,
  running, tail, slot,   \* per process: the turn, whether its "done" is out, the queued turn
  \* inputs and history
  chatOf,    \* the chat that sends each message
  msgs, stops, deaths, fails,
  written,   \* messages written to a worker as turns
  steered,   \* messages absorbed as steers
  told,      \* messages whose chat was told they failed
  lost,      \* messages dropped with a log line only
  victim     \* [Gens -> message running when the process crashed]

routerVars  == <<busy, queue, owner>>
handleVars  == <<cur, dead, status, inFlight>>
workerVars  == <<proc, inbox, outbox, running, tail, slot>>
countVars   == <<chatOf, msgs, stops, deaths, fails>>
historyVars == <<written, steered, told, lost, victim>>
vars == <<routerVars, handleVars, act, workerVars, countVars, historyVars>>

Init ==
  /\ busy = FALSE /\ queue = <<>> /\ owner = NoChat
  /\ cur = None /\ dead = {}
  /\ status = [g \in Gens |-> "none"] /\ inFlight = [g \in Gens |-> NoChat]
  /\ act = [a \in Actors |-> Rest]
  /\ proc = [g \in Gens |-> "none"]
  /\ inbox = [g \in Gens |-> <<>>] /\ outbox = [g \in Gens |-> <<>>]
  /\ running = [g \in Gens |-> None] /\ slot = [g \in Gens |-> None]
  /\ tail = [g \in Gens |-> FALSE]
  /\ chatOf \in [Msgs -> Chats]
  /\ msgs = 0 /\ stops = 0 /\ deaths = 0 /\ fails = 0
  /\ written = {} /\ steered = {} /\ told = {} /\ lost = {}
  /\ victim = [g \in Gens |-> None]

\* Mutant: a handle whose worker is in a turn is not reused.
Alive_OnlyIdle(g) == g \notin dead /\ proc[g] = "up" /\ status[g] = "idle"
\* WorkerHandle.alive: not marked dead, and poll() finds no exit code.
Alive(g) == g \notin dead /\ proc[g] \in {"up", "ending"}
\* WorkerHandle.turn_in_flight: it does not look at the process.
TurnInFlight(g) == inFlight[g] # NoChat \/ status[g] = "turn"
\* The busy test of submit_turn and drain_queue.
RootBusy == busy \/ (cur # None /\ TurnInFlight(cur))

Goes(a, pc) == act' = [act EXCEPT ![a].pc = pc]
Rests(a)    == act' = [act EXCEPT ![a] = Rest]
\* The thread's next call is supervisor.send.
Sends(a, op, m, c) ==
  act' = [act EXCEPT ![a] = [pc |-> "ensure", op |-> op, msg |-> m, gen |-> None, chat |-> c]]

----------------------------------------------------------------------------
(* The bot thread. *)

\* The same-thread test of submit_turn, on the handle's in-flight marker.
SameThread(c) == ~(cur # None /\ inFlight[cur] \notin {NoChat, c})

\* Mutant: the chat gets its acknowledgement and the turn is not queued.
Enqueue_Forgotten(m) == queue
Enqueue(m) == Append(queue, m)

\* submit_turn, up to the release of the router lock: queue, steer or claim
\* the root.  Only plain text steers: media and scheduled work are queued.
Submit(plain) ==
  LET m == msgs + 1
      c == chatOf[m]
      steers == BusyMode = "steer" /\ plain /\ SameThread(c)
  IN
  /\ act[Bot] = Rest /\ msgs < MaxMsgs
  /\ msgs' = m
  /\ \/ /\ RootBusy /\ steers
        /\ Sends(Bot, "steer", m, c)
        /\ UNCHANGED routerVars
     \/ /\ RootBusy /\ ~steers
        /\ queue' = Enqueue(m)
        /\ UNCHANGED <<busy, owner, act>>
     \/ /\ ~RootBusy
        /\ busy' = TRUE /\ owner' = c
        /\ Sends(Bot, "turn", m, c)
        /\ UNCHANGED queue
  /\ UNCHANGED <<handleVars, workerVars, chatOf, stops, deaths, fails, historyVars>>

\* The queue without the messages of chat c, in their order: the j-th message
\* that stays is the one with j positions to keep up to its own.
QueueWithout(c) ==
  LET kept == {i \in DOMAIN queue : chatOf[queue[i]] # c}
      rank == [i \in kept |-> Cardinality({k \in kept : k <= i})]
  IN  [j \in 1..Cardinality(kept) |-> queue[CHOOSE i \in kept : rank[i] = j]]

\* cmd_stop: the chat's queued messages go; a turn in flight is cancelled.
Stop(c) ==
  /\ act[Bot] = Rest /\ stops < MaxStops
  /\ stops' = stops + 1
  /\ queue' = QueueWithout(c)
  /\ told' = told \cup {m \in ToSet(queue) : chatOf[m] = c}
  /\ IF cur # None /\ TurnInFlight(cur) THEN Sends(Bot, "cancel", None, c) ELSE UNCHANGED act
  /\ UNCHANGED <<busy, owner, handleVars, workerVars, chatOf, msgs, deaths, fails, written, steered,
                 lost, victim>>

----------------------------------------------------------------------------
(* supervisor.send, run by the bot thread or by a draining reader. *)

\* What follows a send that raised.  A turn's claim of the root is given up,
\* and its chat is told of a held lease or a dead worker; any other error is
\* only logged, by the polling loop or by the reader.
SendFails(a, tells) ==
  LET m == {act[a].msg} \ {None}
      says == tells /\ act[a].op = "turn"
  IN
  /\ busy' = (busy /\ act[a].op # "turn")
  /\ told' = IF says THEN told \cup m ELSE told
  /\ lost' = IF says THEN lost ELSE lost \cup m
  /\ Rests(a)

\* The next process, and _forget_locked on the handle it replaces, which
\* leaves the table marked dead.  A forgotten handle's pipes are closed, what
\* is in them unread.
NextGen == Cardinality({g \in Gens : proc[g] # "none"}) + 1
ForgetCur == dead' = dead \cup ({cur} \ {None})
PipesOpen(g) == cur = g

\* ensure_worker: the live handle, or a new process, whose first status has
\* been read when the spawn returns; its reader still has to run the router's
\* hook for that status.
Ensure(a) ==
  /\ act[a].pc = "ensure"
  /\ IF cur # None /\ Alive(cur)
       THEN /\ act' = [act EXCEPT ![a].pc = "write", ![a].gen = cur]
            /\ UNCHANGED <<cur, dead, status, proc>>
       ELSE /\ NextGen \in Gens
            /\ ForgetCur
            /\ cur' = NextGen
            /\ proc' = [proc EXCEPT ![NextGen] = "up"]
            /\ status' = [status EXCEPT ![NextGen] = "idle"]
            /\ act' = [act EXCEPT ![a].pc = "write", ![a].gen = NextGen,
                                  ![NextGen] = [Rest EXCEPT !.pc = "clear"]]
  /\ UNCHANGED <<routerVars, inFlight, inbox, outbox, running, tail, slot, countVars, historyVars>>

\* The lease is held elsewhere, or no process can be started.
SpawnFails(a, lease) ==
  /\ act[a].pc = "ensure" /\ fails < MaxFails
  /\ ~(cur # None /\ Alive(cur))
  /\ fails' = fails + 1
  /\ ForgetCur
  /\ cur' = None
  /\ SendFails(a, lease)
  /\ UNCHANGED <<queue, owner, status, inFlight, workerVars, chatOf, msgs, stops, deaths, written,
                 steered, victim>>

\* The new process does not say what it should, or ends, or says nothing in
\* time.  Only the last is terminated: the other handles are forgotten, their
\* pipes closed and the lease released, whether the process lives or not.
HandshakeFails(a, left) ==
  /\ act[a].pc = "ensure" /\ fails < MaxFails
  /\ ~(cur # None /\ Alive(cur)) /\ NextGen \in Gens
  /\ fails' = fails + 1
  /\ dead' = dead \cup ({cur, NextGen} \ {None})
  /\ cur' = None
  /\ proc' = [proc EXCEPT ![NextGen] = IF left THEN "up" ELSE "down"]
  /\ SendFails(a, FALSE)
  /\ UNCHANGED <<queue, owner, status, inFlight, inbox, outbox, running, tail, slot, chatOf, msgs,
                 stops, deaths, written, steered, victim>>

Frame(w) == [op |-> w.op, msg |-> w.msg, chat |-> w.chat]

\* _write_frame.  A handle marked dead or a process found dead raises; a pipe
\* that breaks under the write, its process not reaped yet, also marks the
\* handle dead.
Write(a) ==
  LET g == act[a].gen IN
  /\ act[a].pc = "write"
  /\ \/ /\ Alive(g) /\ proc[g] = "up"
        /\ inbox' = [inbox EXCEPT ![g] = Append(@, Frame(act[a]))]
        /\ written' = IF act[a].op = "turn" THEN written \cup {act[a].msg} ELSE written
        /\ Goes(a, "mark")
        /\ UNCHANGED <<dead, busy, told, lost>>
     \/ /\ ~(Alive(g) /\ proc[g] = "up")
        /\ dead' = IF Alive(g) THEN dead \cup {g} ELSE dead
        /\ SendFails(a, TRUE)
        /\ UNCHANGED <<inbox, written>>
  /\ UNCHANGED <<queue, owner, cur, status, inFlight, proc, outbox, running, tail, slot, countVars,
                 steered, victim>>

\* send sets in_flight_thread_id after the write, for a turn.
Marker(w) == w.chat
Mark(a) ==
  /\ act[a].pc = "mark"
  /\ inFlight' = IF act[a].op = "turn" THEN [inFlight EXCEPT ![act[a].gen] = Marker(act[a])]
                 ELSE inFlight
  /\ Rests(a)
  /\ UNCHANGED <<routerVars, cur, dead, status, workerVars, countVars, historyVars>>

----------------------------------------------------------------------------
(* A reader thread. *)

\* _dispatch_outbound: the handle's state, without a lock.
Read(g) ==
  LET f == Head(outbox[g]) IN
  /\ act[g] = Rest /\ outbox[g] # <<>> /\ PipesOpen(g)
  /\ outbox' = [outbox EXCEPT ![g] = Tail(@)]
  /\ status' = IF f.kind = "status"
                 THEN [status EXCEPT ![g] = IF f.turn THEN "turn" ELSE "idle"] ELSE status
  /\ inFlight' = IF \/ f.kind = "status" /\ ~f.turn
                    \/ f.kind = "done" /\ inFlight[g] \in {NoChat, f.chat}
                    \/ f.kind = "error" /\ inFlight[g] = f.chat
                   THEN [inFlight EXCEPT ![g] = NoChat] ELSE inFlight
  /\ act' = CASE f.kind = "status" /\ f.turn  -> act
              [] f.kind = "status" /\ ~f.turn -> [act EXCEPT ![g].pc = "clear"]
              [] OTHER -> [act EXCEPT ![g] = [pc |-> "deliver", op |-> f.kind, msg |-> f.msg,
                                              gen |-> None, chat |-> f.chat]]
  /\ UNCHANGED <<routerVars, cur, dead, proc, inbox, running, tail, slot, countVars, historyVars>>

\* The first half of _handle_outbound: the frame goes to the root's owner.
Deliver(g) ==
  LET w == act[g] IN
  /\ w.pc = "deliver"
  /\ told' = IF w.op = "error" /\ owner = w.chat THEN told \cup ({w.msg} \ {None}) ELSE told
  /\ lost' = IF w.op = "error" /\ owner # w.chat THEN lost \cup ({w.msg} \ {None}) ELSE lost
  /\ act' = [act EXCEPT ![g] = [Rest EXCEPT !.pc = IF w.op = "done" THEN "clear" ELSE "rest"]]
  /\ UNCHANGED <<routerVars, handleVars, workerVars, countVars, written, steered, victim>>

\* _clear_busy_and_drain: the root leaves _busy_roots, and then, in a lock
\* section of its own, the next queued turn is taken.
Clear(g) ==
  /\ act[g].pc = "clear"
  /\ busy' = FALSE
  /\ Goes(g, "drain")
  /\ UNCHANGED <<queue, owner, handleVars, workerVars, countVars, historyVars>>

\* Mutant: the head of the queue is sent and stays in the queue.
TakeNext_Peek == queue
TakeNext == Tail(queue)

\* drain_queue, up to the release of the router lock.  The reader then goes
\* on reading, and finds the end of the stream if its process is gone.
Drain(g) ==
  /\ act[g].pc = "drain"
  /\ IF RootBusy \/ queue = <<>>
       THEN Rests(g) /\ UNCHANGED routerVars
       ELSE /\ queue' = TakeNext
            /\ busy' = TRUE
            /\ owner' = chatOf[Head(queue)]
            /\ Sends(g, "turn", Head(queue), chatOf[Head(queue)])
  /\ UNCHANGED <<handleVars, workerVars, countVars, historyVars>>

\* _mark_dead at the end of the stream, or when the pipes were closed.  A
\* handle already marked dead is left alone, and the reader ends without a
\* word; so does one whose process had nothing in flight and is not reaped
\* within the second that is waited for it.
MarkDead(g) ==
  /\ act[g] = Rest /\ proc[g] # "none"
  /\ (proc[g] \in {"ending", "down"} /\ outbox[g] = <<>>) \/ ~PipesOpen(g)
  /\ dead' = dead \cup {g}
  /\ inFlight' = IF g \in dead THEN inFlight ELSE [inFlight EXCEPT ![g] = NoChat]
  /\ LET notify == \/ inFlight[g] # NoChat
                   \/ status[g] # "none" /\ proc[g] = "down"
     IN  Goes(g, IF g \notin dead /\ notify THEN "death" ELSE "gone")
  /\ UNCHANGED <<routerVars, cur, status, workerVars, countVars, historyVars>>

\* _handle_death: the root is free, its owner is told, the queue goes on.
Death(g) ==
  /\ act[g].pc = "death"
  /\ busy' = FALSE /\ owner' = NoChat
  /\ told' = told \cup {m \in {victim[g]} \ {None} : chatOf[m] = owner}
  /\ Goes(g, "drain")
  /\ UNCHANGED <<queue, handleVars, workerVars, countVars, written, steered, lost, victim>>

----------------------------------------------------------------------------
(* The worker process: module GatewayWorker, in outline. *)

Emit(g, f) == outbox' = [outbox EXCEPT ![g] = Append(@, f)]
ErrorFor(c, m) == [kind |-> "error", chat |-> c, msg |-> m]
DropSlot(g) == lost' = lost \cup ({slot[g]} \ {None})

\* A turn runs, or joins the running turn, or waits in the slot; a steer needs
\* a turn of its thread; a cancel empties the slot and ends the turn of its
\* thread.  Frames about another thread, or none, are answered with an error.
WorkerReads(g) ==
  LET w == Head(inbox[g])
      same == running[g] # None /\ chatOf[running[g]] = w.chat
  IN
  /\ proc[g] = "up" /\ inbox[g] # <<>>
  /\ inbox' = [inbox EXCEPT ![g] = Tail(@)]
  /\ \/ /\ w.op = "turn" /\ running[g] = None
        /\ running' = [running EXCEPT ![g] = w.msg] /\ tail' = [tail EXCEPT ![g] = FALSE]
        /\ UNCHANGED <<slot, outbox, steered, lost>>
     \/ /\ w.op = "turn" /\ same /\ BusyMode = "steer"
        /\ steered' = steered \cup {w.msg}
        /\ UNCHANGED <<running, tail, slot, outbox, lost>>
     \/ /\ w.op = "turn" /\ running[g] # None /\ ~(same /\ BusyMode = "steer")
        /\ slot' = [slot EXCEPT ![g] = w.msg] /\ DropSlot(g)
        /\ UNCHANGED <<running, tail, outbox, steered>>
     \/ /\ w.op = "steer" /\ same
        /\ steered' = steered \cup {w.msg}
        /\ UNCHANGED <<running, tail, slot, outbox, lost>>
     \/ /\ w.op = "steer" /\ ~same
        /\ Emit(g, ErrorFor(w.chat, w.msg))
        /\ UNCHANGED <<running, tail, slot, steered, lost>>
     \/ /\ w.op = "cancel"
        /\ slot' = [slot EXCEPT ![g] = None] /\ DropSlot(g)
        /\ running' = IF same THEN [running EXCEPT ![g] = None] ELSE running
        /\ tail' = IF same THEN [tail EXCEPT ![g] = FALSE] ELSE tail
        /\ IF running[g] = None THEN UNCHANGED outbox
           ELSE Emit(g, ErrorFor(w.chat, IF same THEN running[g] ELSE None))
        /\ UNCHANGED steered
  /\ UNCHANGED <<routerVars, handleVars, act, proc, countVars, written, told, victim>>

\* The turn's last event; the task that ran it ends later.
WorkerDone(g) ==
  /\ proc[g] = "up" /\ running[g] # None /\ ~tail[g]
  /\ Emit(g, [kind |-> "done", chat |-> chatOf[running[g]], msg |-> running[g]])
  /\ tail' = [tail EXCEPT ![g] = TRUE]
  /\ UNCHANGED <<routerVars, handleVars, act, proc, inbox, running, slot, countVars, historyVars>>

WorkerRests(g) ==
  /\ proc[g] = "up" /\ tail[g]
  /\ running' = [running EXCEPT ![g] = slot[g]]
  /\ slot' = [slot EXCEPT ![g] = None] /\ tail' = [tail EXCEPT ![g] = FALSE]
  /\ UNCHANGED <<routerVars, handleVars, act, proc, inbox, outbox, countVars, historyVars>>

\* Mutant: the heartbeat never reports an idle worker.
HeartbeatFrame_AlwaysTurn(g) == [kind |-> "status", turn |-> TRUE]
HeartbeatFrame(g) == [kind |-> "status", turn |-> running[g] # None]
\* The periodic status, written when the last frames have been taken.
Heartbeat(g) ==
  /\ proc[g] = "up" /\ PipesOpen(g) /\ outbox[g] = <<>>
  /\ Emit(g, HeartbeatFrame(g))
  /\ UNCHANGED <<routerVars, handleVars, act, proc, inbox, running, tail, slot, countVars,
                 historyVars>>

\* The process dies: no code of it runs any more and its ends of the pipes are
\* closed.
Crash(g) ==
  /\ proc[g] = "up" /\ deaths < MaxDeaths
  /\ deaths' = deaths + 1
  /\ proc' = [proc EXCEPT ![g] = "ending"]
  /\ victim' = [victim EXCEPT ![g] = IF tail[g] THEN None ELSE running[g]]
  /\ running' = [running EXCEPT ![g] = None] /\ slot' = [slot EXCEPT ![g] = None]
  /\ tail' = [tail EXCEPT ![g] = FALSE]
  /\ inbox' = [inbox EXCEPT ![g] = <<>>]
  /\ lost' = lost \cup (({slot[g]} \cup {f.msg : f \in ToSet(inbox[g])}) \ {None})
  /\ UNCHANGED <<routerVars, handleVars, act, outbox, chatOf, msgs, stops, fails, written, steered,
                 told>>

\* poll() finds an exit code: of a dead process, or of one that was forgotten
\* alive and has come to the end of its closed stdin.
Exits(g) ==
  /\ proc[g] = "ending" \/ (proc[g] = "up" /\ ~PipesOpen(g))
  /\ proc' = [proc EXCEPT ![g] = "down"]
  /\ UNCHANGED <<routerVars, handleVars, act, inbox, outbox, running, tail, slot, countVars,
                 historyVars>>

----------------------------------------------------------------------------

Thread(a) == Ensure(a) \/ Write(a) \/ Mark(a)
Reader(g) == Read(g) \/ Deliver(g) \/ Clear(g) \/ Drain(g) \/ MarkDead(g) \/ Death(g)
Turn(g)   == WorkerDone(g) \/ WorkerRests(g)

Next ==
  \/ \E plain \in BOOLEAN : Submit(plain)
  \/ \E c \in Chats : Stop(c)
  \/ \E a \in Actors : Thread(a)
  \/ \E a \in Actors, lease \in BOOLEAN : SpawnFails(a, lease)
  \/ \E a \in Actors, left \in BOOLEAN : HandshakeFails(a, left)
  \/ \E g \in Gens : Reader(g)
  \/ \E g \in Gens : WorkerReads(g) \/ Turn(g) \/ Heartbeat(g) \/ Crash(g) \/ Exits(g)

\* Threads run, turns end, heartbeats come, dying processes are reaped; messages, stops, crashes and
\* failed spawns need not.
Fairness ==
  /\ \A a \in Actors : WF_vars(Thread(a))
  /\ \A g \in Gens : /\ WF_vars(Reader(g))
                     /\ WF_vars(WorkerReads(g)) /\ WF_vars(Turn(g)) /\ WF_vars(Heartbeat(g))
                     /\ WF_vars(Exits(g))

Spec == Init /\ [][Next]_vars /\ Fairness

----------------------------------------------------------------------------
(* Properties. *)

\* What the pipes carry to and from a worker.
Frames  == [op : {"turn", "steer", "cancel"}, msg : Msgs \cup {None}, chat : Chats \cup {NoChat}]
Replies == [kind : {"status"}, turn : BOOLEAN]
             \cup [kind : {"done", "error"}, msg : Msgs \cup {None}, chat : Chats \cup {NoChat}]
Calls   == [pc : {"rest", "ensure", "write", "mark", "deliver", "clear", "drain", "death", "gone"},
            op : {"none", "turn", "steer", "cancel", "done", "error"},
            msg : Msgs \cup {None}, gen : Gens \cup {None}, chat : Chats \cup {NoChat}]

TypeOK ==
  /\ busy \in BOOLEAN /\ queue \in Seq(Msgs) /\ owner \in Chats \cup {NoChat}
  /\ cur \in Gens \cup {None} /\ dead \subseteq Gens
  /\ status \in [Gens -> {"none", "idle", "turn"}]
  /\ inFlight \in [Gens -> Chats \cup {NoChat}]
  /\ act \in [Actors -> Calls]
  /\ proc \in [Gens -> {"none", "up", "ending", "down"}]
  /\ inbox \in [Gens -> Seq(Frames)] /\ outbox \in [Gens -> Seq(Replies)]
  /\ running \in [Gens -> Msgs \cup {None}] /\ slot \in [Gens -> Msgs \cup {None}]
  /\ tail \in [Gens -> BOOLEAN]
  /\ chatOf \in [Msgs -> Chats] /\ msgs \in 0..MaxMsgs
  /\ victim \in [Gens -> Msgs \cup {None}]

\* A worker process has a turn to run or frames to read.
Work(g) == inbox[g] # <<>> \/ running[g] # None \/ slot[g] # None

\* One worker process at a time works on the root, and it is the one the
\* supervisor's table holds, although the bot and every reader call
\* ensure_worker, handles are marked dead before their process is reaped and
\* a failed handshake forgets a process that lives.
OneWorker == \A g \in Gens : Work(g) => cur = g

\* daemon.py:3: "One long-lived worker subprocess per project root".  TLC
\* refutes it: README, 6.
OneProcess == Cardinality({g \in Gens : proc[g] = "up"}) <= 1

InHand  == {act[a].msg : a \in {b \in Actors : act[b].pc \in {"ensure", "write", "deliver"}}}
InPipes == {m \in Msgs : \E g \in Gens : \/ \E f \in ToSet(inbox[g]) : f.msg = m
                                         \/ \E f \in ToSet(outbox[g]) : f.kind = "error" /\ f.msg = m}

\* A message does not vanish between the bot, the queue, the readers and the
\* pipes: it waits in the queue, a thread or a pipe holds it, a worker has
\* had it, or its chat was told or the log says that it was dropped.
Accounted ==
  \A m \in 1..msgs :
    \/ m \in ToSet(queue) \cup InHand \cup InPipes
    \/ m \in written \cup steered \cup told \cup lost

\* A message given to a worker is neither queued nor sent again: no replay,
\* also when the worker dies.
NoReplay ==
  \A a \in Actors : \A m \in written :
    /\ m \notin ToSet(queue)
    /\ ~(act[a].op = "turn" /\ act[a].msg = m /\ act[a].pc \in {"ensure", "write"})

\* Processes come up in the order of their generations; before its process, a
\* generation has no reader.
GenerationsInOrder ==
  /\ \A g, h \in Gens : h < g /\ proc[g] # "none" => proc[h] # "none"
  /\ \A g \in Gens : proc[g] = "none" => act[g] = Rest /\ outbox[g] = <<>>
  /\ cur # None => proc[cur] # "none"
  /\ \A a \in Actors : act[a].pc \in {"write", "mark"} =>
       act[a].gen \in Gens /\ proc[act[a].gen] # "none"

\* A live process that the table does not hold was forgotten; only a live
\* process whose handle is good has work.
WorkIsHeld ==
  \A g \in Gens :
    /\ proc[g] = "up" => cur = g \/ g \in dead
    /\ Work(g) => proc[g] = "up" /\ g \notin dead

\* A thread carries a message that is to become a turn.
Carries(a) == act[a].op = "turn" /\ act[a].pc \in {"ensure", "write"}

\* A turn that was not written yet is in one place only: at one position of
\* the queue, or carried by one thread.
OnePlaceEach ==
  /\ written \subseteq 1..msgs
  /\ \A i \in DOMAIN queue : queue[i] \in (1..msgs) \ written
  /\ \A i, k \in DOMAIN queue : queue[i] = queue[k] => i = k
  /\ \A a \in Actors : Carries(a) => act[a].msg \in (1..msgs) \ (written \cup ToSet(queue))
  /\ \A a, b \in Actors : Carries(a) /\ Carries(b) /\ act[a].msg = act[b].msg => a = b

\* What a worker has, and what it says it is done with, was written to it; a
\* cancel carries no message.
TurnsWritten == \A g \in Gens : {running[g], slot[g]} \subseteq written \cup {None}
InboxWritten ==
  \A g \in Gens : \A i \in DOMAIN inbox[g] :
    /\ inbox[g][i].op = "turn" => inbox[g][i].msg \in written
    /\ inbox[g][i].op = "cancel" => inbox[g][i].msg = None
OutboxWritten ==
  \A g \in Gens : \A i \in DOMAIN outbox[g] :
    outbox[g][i].kind = "done" => outbox[g][i].msg \in written
CallsWritten ==
  \A a \in Actors :
    /\ act[a].pc = "deliver" =>
         act[a].op = "error" \/ (act[a].op = "done" /\ act[a].msg \in written)
    /\ act[a].pc \in {"ensure", "write"} =>
         act[a].op \in {"turn", "steer"} \/ (act[a].op = "cancel" /\ act[a].msg = None)
WorkerHasWritten == TurnsWritten /\ InboxWritten /\ OutboxWritten /\ CallsWritten

\* What every step of the bot, the readers and the workers preserves.
GatewayInv ==
  TypeOK /\ GenerationsInOrder /\ WorkIsHeld /\ OnePlaceEach /\ WorkerHasWritten /\ Accounted

\* While the worker lives, a queued message is eventually taken out of the
\* queue to be sent, or dropped by /stop: no done event, heartbeat or stop
\* ordering leaves the root busy for good.
QueueContinues == \A m \in Msgs : (m \in ToSet(queue)) ~> (m \notin ToSet(queue))

=============================================================================
