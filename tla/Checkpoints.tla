----------------------------- MODULE Checkpoints -----------------------------
(***************************************************************************)
(* Auto-checkpoints (agent/checkpoint.py) with the turns that take them    *)
(* (agent/session.py) and the commands that use them: /undo, /redo, /abort *)
(* and /rewind (controller/async_ops.py, controller/core.py).              *)
(*                                                                         *)
(* Several sessions, each a process with its event loop and its snapshot   *)
(* threads, work on one repository.  A working tree is a number; every     *)
(* edit makes a new one.  The two stacks are git refs that are written one *)
(* at a time: an operation under the checkpoint lock queues its writes in  *)
(* todo, and a process may die between two of them.                        *)
(***************************************************************************)
EXTENDS Integers, Sequences, FiniteSets, SequencesExt

CONSTANTS
  Sessions,
  None,         \* no snapshot, nobody
  MaxStack,     \* CheckpointManager.max_stack
  MaxEdits,     \* bound: edits of the working tree
  MaxBuilds,    \* bound: snapshot commits built and kept
  MaxTurns,     \* bound: turns, of all sessions
  MaxForks,     \* bound: rewinds of one session
  MaxOps,       \* bound: commands and cancellations
  MaxFaults     \* bound: processes that die and git commands that fail

Trees   == 0..(MaxEdits + MaxFaults)
\* The trees that a restore leaves which git stopped half-way.
HalfTrees == (MaxEdits + 1)..(MaxEdits + MaxFaults)
\* A session's thread is named by the session and the number of its rewinds.
Threads == Sessions \X Nat
NoThread == <<>>
\* A snapshot commit: its tree, the tag in its subject and its place in the
\* order of creation.  kind tells a turn's snapshot from the ones undo, redo
\* and rewind build.
Snapshots ==
  [tree : Trees, owner : Threads \cup {NoThread}, turn : Nat, kind : {"turn", "pre"}, n : Nat]
Stacks  == {"undo", "redo"}
\* A crash before the prune leaves one entry too many.
Indexes == 0..(MaxStack + MaxFaults)
Runs    == 1..MaxTurns

ASSUME CheckpointsAssumption ==
  /\ None \notin Sessions \cup Snapshots
  /\ MaxStack \in Nat \ {0}
  /\ {MaxEdits, MaxBuilds, MaxTurns, MaxForks, MaxOps, MaxFaults} \subseteq Nat

NoOp   == [kind |-> "none", pc |-> "none", target |-> None, tree |-> -1, turn |-> 0]
NoLock == [sess |-> None, job |-> 0, kind |-> "none", phase |-> "none", pre |-> None,
           target |-> None, start |-> <<>>]
OffTask == [pc |-> "none", held |-> "none", snap |-> None, owner |-> NoThread, turn |-> 0]

VARIABLES
  \* the repository
  tree,     \* the working tree
  refs,     \* [Stacks -> [Indexes -> snapshot or None]]
  snaps,    \* the stable refs of snapshots
  lock,     \* the operation that holds the checkpoint lock, or NoLock
  todo,     \* the ref writes it has still to do
  \* the sessions
  fork,     \* [Sessions -> rewinds so far]: the session's thread
  kept,     \* [Sessions -> [1..MaxForks -> turns the fork kept]]
  humans,   \* [Sessions -> user messages in the thread]
  ran,      \* [Sessions -> turns started]
  turn,     \* [Sessions -> where the turn is]
  task,     \* [Sessions -> [Runs -> the snapshot thread of the turn]]
  op,       \* [Sessions -> the command in progress]
  \* bounds and history
  edits, builds, ops, faults,
  torn,     \* how the last torn operation was torn apart, or "no"
  captured, \* [Sessions -> the tree the turn began with]
  clean,    \* [Sessions -> nothing but this turn touched the stacks]
  replaced, \* trees that a restore replaced
  excused,  \* the ones it may lose
  half      \* of these, the ones a restore that failed took apart

repoVars    == <<tree, refs, snaps>>
lockVars    == <<lock, todo>>
threadVars  == <<fork, kept, humans, ran>>
sessionVars == <<turn, task, op>>
boundVars   == <<edits, builds, ops, faults>>
historyVars == <<torn, captured, clean, replaced, excused, half>>
vars == <<repoVars, lockVars, threadVars, sessionVars, boundVars, historyVars>>

Thread(p) == <<p, fork[p]>>

Init ==
  /\ tree = 0 /\ refs = [st \in Stacks |-> [i \in Indexes |-> None]] /\ snaps = {}
  /\ lock = NoLock /\ todo = <<>>
  /\ fork = [p \in Sessions |-> 0] /\ kept = [p \in Sessions |-> [k \in 1..MaxForks |-> 0]]
  /\ humans = [p \in Sessions |-> 0] /\ ran = [p \in Sessions |-> 0]
  /\ turn = [p \in Sessions |-> "none"]
  /\ task = [p \in Sessions |-> [k \in Runs |-> OffTask]]
  /\ op = [p \in Sessions |-> NoOp]
  /\ edits = 0 /\ builds = 0 /\ ops = 0 /\ faults = 0
  /\ torn = "no" /\ captured = [p \in Sessions |-> 0] /\ clean = [p \in Sessions |-> TRUE]
  /\ replaced = {} /\ excused = {} /\ half = {}

----------------------------------------------------------------------------
(* The stacks: refs <prefix>0 (the top), <prefix>1, ... *)

Present(f) == {i \in Indexes : f[i] # None}
\* The length of the unbroken run of refs from index a on.
RunFrom(f, a) ==
  CHOOSE n \in 0..Cardinality(Indexes) :
    /\ a + n \notin Indexes \/ f[a + n] = None
    /\ \A i \in a..(a + n - 1) : i \in Indexes /\ f[i] # None

\* _stack_read: it stops at the first missing ref.
Read(f) == [i \in 1..RunFrom(f, 0) |-> f[i - 1]]

Write(st, i, s) == [st |-> st, i |-> i, snap |-> s]
Delete(st, i)   == Write(st, i, None)
\* _update_ref of the snapshot's stable ref.
Store(s) == Write("snap", 0, s)

\* Mutant: the entries are shifted from the top down, each over the next.
PushWrites_TopFirst(st, f, s) ==
  [i \in 1..RunFrom(f, 0) |-> Write(st, i, f[0])] \o <<Write(st, 0, s)>>
\* _stack_push: the entries move one down, deepest first, then the new top.
PushWrites(st, f, s) ==
  LET n == RunFrom(f, 0)
  IN  [i \in 1..n |-> Write(st, n - i + 1, f[n - i])] \o <<Write(st, 0, s)>>

\* Mutant: the entries below the top stay where they are.
PopWrites_NoShift(st, f) == <<Delete(st, 0)>>
\* _stack_pop: the top goes, then every entry moves one up.
PopWrites(st, f) ==
  <<Delete(st, 0)>>
    \o [j \in 1..2 * (RunFrom(f, 0) - 1) |->
          LET i == (j + 1) \div 2
          IN  IF j % 2 = 1 THEN Write(st, i - 1, f[i]) ELSE Delete(st, i)]

\* _stack_clear and _prune_stack: the unbroken run from an index on goes.
DropWrites(st, f, from) == [i \in 1..RunFrom(f, from) |-> Delete(st, from + i - 1)]

WrittenTo(r, w) == IF w.st = "snap" THEN r ELSE [r EXCEPT ![w.st][w.i] = w.snap]
\* The stack f once the writes ws are done: the last write to a ref counts.
LastTo(ws, st, i) ==
  CHOOSE j \in 0..Len(ws) :
    /\ j > 0 => ws[j].st = st /\ ws[j].i = i
    /\ \A l \in (j + 1)..Len(ws) : ~(ws[l].st = st /\ ws[l].i = i)
After(st, f, ws) ==
  IF ws = <<>> THEN f
  ELSE [i \in Indexes |-> LET j == LastTo(ws, st, i) IN IF j = 0 THEN f[i] ELSE ws[j].snap]

\* Push and prune.
SaveWrites(st, f, s) ==
  LET push == PushWrites(st, f, s)
  IN  <<Store(s)>> \o push \o DropWrites(st, After(st, f, push), MaxStack)

\* Mutant: a snapshot leaves the redo stack as it is.
SnapshotWrites_KeepsRedo(r, s) == SaveWrites("undo", r["undo"], s)
\* CheckpointManager.snapshot under the lock: store, push, clear redo, prune.
SnapshotWrites(r, s) ==
  LET push == PushWrites("undo", r["undo"], s)
  IN  <<Store(s)>> \o push \o DropWrites("redo", r["redo"], 0)
        \o DropWrites("undo", After("undo", r["undo"], push), MaxStack)

\* The trees that a stable ref keeps.
Saved == {s.tree : s \in snaps}

----------------------------------------------------------------------------
(* The working tree, snapshots and the lock. *)

\* A commit of the current tree (_build_snapshot); the tag is left out when
\* there is no thread.
Built(owner, k, kind) ==
  [tree |-> tree, owner |-> owner, turn |-> k, kind |-> kind, n |-> builds + 1]
CanBuild == builds < MaxBuilds

\* A git command fails, or a process dies.
Fault == faults < MaxFaults /\ faults' = faults + 1

Issued == ops < MaxOps /\ ops' = ops + 1

\* Somebody changes a file.  An edit made while an operation holds the lock
\* may come between its capture and its restore: nothing can save that one.
Edits ==
  /\ edits < MaxEdits
  /\ edits' = edits + 1 /\ tree' = edits + 1
  /\ excused' = IF lock # NoLock THEN excused \cup {edits + 1} ELSE excused

Free == lock = NoLock
Unlocks == lock' = NoLock /\ todo' = <<>>
\* The other sessions' turns no longer find the stacks as they left them.
Disturbs(p) == clean' = [q \in Sessions |-> clean[q] /\ q = p]

UserEdit ==
  /\ Edits
  /\ UNCHANGED <<refs, snaps, lockVars, threadVars, sessionVars, builds, ops, faults, torn,
                 captured, clean, replaced, half>>

\* One ref of the operation in progress is written.
WriteRef ==
  /\ todo # <<>>
  /\ LET w == Head(todo) IN
       /\ refs' = WrittenTo(refs, w)
       /\ snaps' = IF w.st = "snap" THEN snaps \cup {w.snap} ELSE snaps
  /\ todo' = Tail(todo)
  /\ UNCHANGED <<tree, lock, threadVars, sessionVars, boundVars, historyVars>>

\* The tree that the restore in progress replaced and has not stored yet.
Unsaved ==
  {lock.pre.tree : w \in {v \in ToSet(todo) : lock.kind # "snapshot" /\ v.st = "snap"}}

\* git refuses a ref.  A snapshot gives up when its stable ref or its place on
\* the stack cannot be written; everything else goes on.
WriteFails ==
  /\ todo # <<>> /\ Fault
  /\ LET w == Head(todo)
         gives == lock.kind = "snapshot" /\ w.snap = lock.pre
     IN  todo' = IF gives THEN <<>> ELSE Tail(todo)
  /\ torn' = "ref"
  /\ excused' = excused \cup Unsaved
  /\ clean' = [p \in Sessions |-> FALSE]
  /\ UNCHANGED <<repoVars, lock, threadVars, sessionVars, edits, builds, ops, captured,
                 replaced, half>>

----------------------------------------------------------------------------
(* A turn (SessionDriver.run_turn) and its snapshot thread. *)

Running(t) == t # OffTask
\* The snapshot task of the current turn.
Slot(p) == task[p][ran[p]]
TaskTo(p, k, t) == task' = [task EXCEPT ![p][k] = t]
\* settle_snapshot: the slot's task and the detached ones are waited for.
Settled(p) == \A k \in Runs : ~(Running(task[p][k]) /\ task[p][k].held # "orphan")

\* The turn is over: its history is not needed any more.
Forgets(p) ==
  captured' = [captured EXCEPT ![p] = 0] /\ clean' = [clean EXCEPT ![p] = TRUE]

StartTurn(p) ==
  /\ turn[p] = "none" /\ op[p] = NoOp
  /\ ran[p] + 1 \in Runs /\ MapThenSumSet(LAMBDA q : ran[q], Sessions) < MaxTurns
  /\ turn' = [turn EXCEPT ![p] = "start"]
  /\ ran' = [ran EXCEPT ![p] = @ + 1]
  /\ captured' = [captured EXCEPT ![p] = tree]
  /\ clean' = [clean EXCEPT ![p] = torn = "no" /\ Free /\ \A k \in Runs : ~Running(task[p][k])]
  /\ UNCHANGED <<repoVars, lockVars, fork, kept, humans, task, op, boundVars, torn, replaced,
                 excused, half>>

\* The turn index is read, the snapshot starts in a worker thread, and the
\* model's answer is streamed.
StartSnapshot(p) ==
  /\ turn[p] = "start"
  /\ turn' = [turn EXCEPT ![p] = "stream"]
  /\ TaskTo(p, ran[p], [pc |-> "build", held |-> "slot", snap |-> None, owner |-> Thread(p),
                       turn |-> humans[p]])
  /\ humans' = [humans EXCEPT ![p] = @ + 1]
  /\ UNCHANGED <<repoVars, lockVars, fork, kept, ran, op, boundVars, historyVars>>

\* The stream comes to the mutation gate, or to the end of the turn: both
\* wait for the snapshot (_ensure_snapshot).
Await(p, where) ==
  /\ turn[p] \in {"stream", "edited"}
  /\ turn' = [turn EXCEPT ![p] = where]
  /\ UNCHANGED <<repoVars, lockVars, threadVars, task, op, boundVars, historyVars>>

GateOpen(p) == ~Running(Slot(p))

\* Past the gate the approved tool changes the working tree.
Mutate(p) ==
  /\ turn[p] = "gate" /\ GateOpen(p) /\ Edits
  /\ turn' = [turn EXCEPT ![p] = "edited"]
  /\ UNCHANGED <<refs, snaps, lockVars, threadVars, task, op, builds, ops, faults, torn,
                 captured, clean, replaced, half>>

FinishTurn(p) ==
  /\ turn[p] = "end" /\ ~Running(Slot(p))
  /\ turn' = [turn EXCEPT ![p] = "none"]
  /\ Forgets(p)
  /\ UNCHANGED <<repoVars, lockVars, threadVars, task, op, boundVars, torn, replaced, excused,
                 half>>

\* The turn's task is cancelled (Esc, or /abort).  A snapshot it was waiting
\* for is cancelled with it: the thread runs on and nobody knows of it any
\* more.  A snapshot it was not waiting for is detached.
Waits(p) == turn[p] \in {"gate", "end"}
Cancelled(p) ==
  LET left == IF Waits(p) THEN "orphan" ELSE "detached" IN
  /\ turn[p] # "none" /\ Issued
  /\ turn' = [turn EXCEPT ![p] = "none"]
  /\ IF Running(Slot(p)) /\ Slot(p).held = "slot"
     THEN TaskTo(p, ran[p], [Slot(p) EXCEPT !.held = left])
     ELSE UNCHANGED task

Cancel(p) ==
  /\ Cancelled(p) /\ Forgets(p)
  /\ UNCHANGED <<repoVars, lockVars, threadVars, op, edits, builds, faults, torn, replaced,
                 excused, half>>

\* The snapshot thread captures the tree; a failure ends it.
BuildSnapshot(p, k) ==
  LET t == task[p][k] IN
  /\ t.pc = "build"
  /\ \/ /\ CanBuild
        /\ TaskTo(p, k, [t EXCEPT !.pc = "compare", !.snap = Built(t.owner, t.turn, "turn")])
        /\ builds' = builds + 1
        /\ captured' = IF k = ran[p] /\ turn[p] # "edited" THEN [captured EXCEPT ![p] = tree]
                        ELSE captured
        /\ UNCHANGED <<faults, clean>>
     \/ /\ Fault
        /\ TaskTo(p, k, OffTask)
        /\ clean' = [clean EXCEPT ![p] = FALSE]
        /\ UNCHANGED <<builds, captured>>
  /\ UNCHANGED <<repoVars, lockVars, threadVars, turn, op, edits, ops, torn, replaced,
                 excused, half>>

\* A tree that the top of the undo stack already holds is not saved again.
\* The stack is read without the lock.
CompareSnapshot(p, k) ==
  LET t == task[p][k]
      same == refs["undo"][0] # None /\ refs["undo"][0].tree = t.snap.tree
  IN
  /\ t.pc = "compare"
  /\ TaskTo(p, k, IF same THEN OffTask ELSE [t EXCEPT !.pc = "push"])
  /\ UNCHANGED <<repoVars, lockVars, threadVars, turn, op, boundVars, historyVars>>

PushSnapshot(p, k) ==
  LET t == task[p][k] IN
  /\ t.pc = "push" /\ Free
  /\ lock' = [NoLock EXCEPT !.sess = p, !.job = k, !.kind = "snapshot", !.phase = "finish",
                            !.pre = t.snap]
  /\ todo' = SnapshotWrites(refs, t.snap)
  /\ TaskTo(p, k, [t EXCEPT !.pc = "write"])
  /\ Disturbs(p)
  /\ UNCHANGED <<repoVars, threadVars, turn, op, boundVars, torn, captured, replaced, excused,
                 half>>

\* The snapshot function returns once it has pushed and released the lock.
SnapshotDone ==
  /\ lock.kind = "snapshot" /\ todo = <<>>
  /\ Unlocks
  /\ task' = [task EXCEPT ![lock.sess][lock.job] = OffTask]
  /\ UNCHANGED <<repoVars, threadVars, turn, op, boundVars, historyVars>>

----------------------------------------------------------------------------
(* The commands. *)

Idle(p) == turn[p] = "none" /\ op[p] = NoOp
OpTo(p, o) == op' = [op EXCEPT ![p] = o]

\* Controller.undo and Controller.redo.
Command(p, kind) ==
  /\ Idle(p) /\ Issued
  /\ OpTo(p, [NoOp EXCEPT !.kind = kind, !.pc = "settle"])
  /\ UNCHANGED <<repoVars, lockVars, threadVars, turn, task, edits, builds, faults, historyVars>>

\* Controller.abort with a turn running: cancel it, then roll back.
Abort(p) ==
  /\ op[p] = NoOp /\ Cancelled(p)
  /\ clean' = [clean EXCEPT ![p] = /\ @ /\ turn[p] # "start"
                                  /\ ~(Waits(p) /\ Running(Slot(p)))]
  /\ OpTo(p, [NoOp EXCEPT !.kind = "abort", !.pc = "settle"])
  /\ UNCHANGED <<repoVars, lockVars, threadVars, edits, builds, faults, torn, captured,
                 replaced, excused, half>>

\* find_for_turn: the newest snapshot tagged with the turn on the session's
\* thread or, as long as the forks kept that turn, on the thread it was
\* forked from.
TaggedOn(p, f, k) == {s \in snaps : s.owner = <<p, f>> /\ s.turn = k}
Lineage(p, k) == {f \in 0..fork[p] : \A g \in (f + 1)..fork[p] : k < kept[p][g]}
FindForTurn(p, k) ==
  LET hits == {f \in Lineage(p, k) : TaggedOn(p, f, k) # {}}
      near == CHOOSE f \in hits : \A g \in hits : g <= f
  IN  IF hits = {} THEN None
      ELSE CHOOSE s \in TaggedOn(p, near, k) : \A z \in TaggedOn(p, near, k) : z.n <= s.n

\* The thread is forked: the alias is registered, k turns are kept.
Forks(p, k) ==
  /\ fork' = [fork EXCEPT ![p] = @ + 1]
  /\ kept' = [kept EXCEPT ![p][fork[p] + 1] = k]
  /\ humans' = [humans EXCEPT ![p] = k]
  /\ UNCHANGED ran

\* fork_to_turn with restore_files.  A turn without a snapshot rewinds the
\* conversation only.
StartRewind(p, k) ==
  /\ Idle(p) /\ Issued /\ fork[p] < MaxForks /\ k < humans[p]
  /\ IF FindForTurn(p, k) = None
     THEN Forks(p, k) /\ UNCHANGED op
     ELSE /\ OpTo(p, [NoOp EXCEPT !.kind = "rewind", !.pc = "settle",
                                  !.target = FindForTurn(p, k), !.turn = k])
          /\ UNCHANGED threadVars
  /\ UNCHANGED <<repoVars, lockVars, turn, task, edits, builds, faults, historyVars>>

\* Mutant: a command does not wait for the snapshots in flight.
MaySettle_AtOnce(p) == TRUE
MaySettle(p) == Settled(p)

Settle(p) ==
  /\ op[p].pc = "settle" /\ MaySettle(p)
  /\ OpTo(p, [op[p] EXCEPT !.pc = IF op[p].kind = "undo" THEN "preview" ELSE "want"])
  /\ UNCHANGED <<repoVars, lockVars, threadVars, turn, task, boundVars, historyVars>>

\* _foreign_owner_error.
Foreign(p, s) == s.owner \notin {NoThread, Thread(p)}

GivesUp(p) ==
  /\ OpTo(p, NoOp)
  /\ UNCHANGED <<repoVars, lockVars, threadVars, turn, task, edits, builds, ops, historyVars>>

\* preview_undo: the target and the tree the user is shown.
Preview(p) ==
  LET top == refs["undo"][0] IN
  /\ op[p].pc = "preview" /\ Free
  /\ IF top = None \/ Foreign(p, top)
     THEN GivesUp(p) /\ UNCHANGED faults
     ELSE \/ /\ OpTo(p, [op[p] EXCEPT !.pc = "confirm", !.target = top, !.tree = tree])
             /\ UNCHANGED <<repoVars, lockVars, threadVars, turn, task, boundVars, historyVars>>
          \/ Fault /\ GivesUp(p)

Confirm(p) ==
  /\ op[p].pc = "confirm"
  /\ OpTo(p, [op[p] EXCEPT !.pc = "want"])
  /\ UNCHANGED <<repoVars, lockVars, threadVars, turn, task, boundVars, historyVars>>

Decline(p) == op[p].pc = "confirm" /\ GivesUp(p) /\ UNCHANGED faults

\* CheckpointManager.undo and redo, up to the capture of what they replace.
\* An undo the user confirmed is refused when the target or the tree is not
\* what the preview showed.
Pops(kind) == IF kind = "redo" THEN "redo" ELSE "undo"
Accepted(p) ==
  LET top == refs[Pops(op[p].kind)][0] IN
  /\ top # None /\ ~Foreign(p, top)
  /\ op[p].kind = "undo" => top = op[p].target /\ tree = op[p].tree

\* git cannot read HEAD: an abort, which has nothing to compare, goes on and
\* captures nothing (_build_redo_point); undo and redo are refused.
BeginRestore(p) ==
  LET o == op[p]
      st == Pops(o.kind)
      locked(s) == [NoLock EXCEPT !.sess = p, !.kind = o.kind, !.phase = "pop", !.pre = s,
                                  !.target = refs[st][0], !.start = refs]
  IN
  /\ o.pc = "want" /\ o.kind # "rewind" /\ Free
  /\ \/ ~Accepted(p) /\ GivesUp(p) /\ UNCHANGED faults
     \/ Accepted(p) /\ Fault /\ GivesUp(p)
     \/ /\ Accepted(p)
        /\ \/ /\ CanBuild /\ builds' = builds + 1
              /\ lock' = locked(Built(Thread(p), 0, "pre"))
              /\ UNCHANGED <<faults, excused>>
           \/ /\ o.kind = "abort" /\ Fault
              /\ lock' = locked(None)
              /\ excused' = excused \cup {tree}
              /\ UNCHANGED builds
        /\ todo' = PopWrites(st, refs[st])
        /\ OpTo(p, [o EXCEPT !.pc = "run"])
        /\ Disturbs(p)
        /\ UNCHANGED <<repoVars, threadVars, turn, task, edits, ops, torn, captured, replaced,
                       half>>

\* restore_to captures the tree without a tag, and goes on when it cannot.
BeginRewind(p) ==
  LET o == op[p]
      locked(s) == [NoLock EXCEPT !.sess = p, !.kind = "rewind", !.phase = "pop", !.pre = s,
                                  !.target = o.target, !.start = refs]
  IN
  /\ o.pc = "want" /\ o.kind = "rewind" /\ Free
  /\ \/ /\ CanBuild /\ builds' = builds + 1
        /\ lock' = locked(Built(NoThread, 0, "pre"))
        /\ UNCHANGED <<faults, excused>>
     \/ /\ Fault
        /\ lock' = locked(None)
        /\ excused' = excused \cup {tree}
        /\ UNCHANGED builds
  /\ OpTo(p, [o EXCEPT !.pc = "run"])
  /\ Disturbs(p)
  /\ UNCHANGED <<repoVars, todo, threadVars, turn, task, edits, ops, torn, captured, replaced,
                 half>>

\* Mutant: what is replaced is put on its stack, and not stored.
KeptWrites_StackOnly(r, kind, s) ==
  LET st == IF kind = "redo" THEN "undo" ELSE "redo" IN PushWrites(st, r[st], s)
\* What the operation writes once the tree is restored; what it could not
\* capture it cannot store.
KeptOn(st, r, s) == IF s = None THEN <<>> ELSE SaveWrites(st, r[st], s)
KeptWrites(r, kind, s) ==
  CASE kind \in {"undo", "abort"} -> KeptOn("redo", r, s)
    [] kind = "redo" -> KeptOn("undo", r, s)
    [] kind = "rewind" -> KeptOn("undo", r, s) \o DropWrites("redo", r["redo"], 0)

\* _apply_snapshot: the working tree becomes the target's.  When git restore
\* fails, before its first file or after some of them, what was popped is put
\* back; what was captured is not stored.
Apply ==
  /\ lock.phase = "pop" /\ todo = <<>>
  /\ lock' = [lock EXCEPT !.phase = "finish", !.start = <<>>]
  /\ \/ /\ tree' = lock.target.tree
        /\ replaced' = replaced \cup {tree}
        /\ todo' = KeptWrites(refs, lock.kind, lock.pre)
        /\ UNCHANGED <<faults, excused, half>>
     \/ /\ Fault
        /\ todo' = IF lock.kind = "rewind" THEN <<>>
                   ELSE PushWrites(Pops(lock.kind), refs[Pops(lock.kind)], lock.target)
        /\ \/ UNCHANGED <<tree, replaced, excused, half>>
           \/ /\ tree # lock.target.tree
              /\ tree' \in HalfTrees
              /\ replaced' = replaced \cup {tree}
              /\ excused' = excused \cup {tree}
              /\ half' = half \cup {tree}
  /\ UNCHANGED <<refs, snaps, threadVars, sessionVars, edits, builds, ops, torn, captured, clean>>

\* The lock is released.  A rewind forks the thread, whatever became of the
\* files.
EndRestore ==
  LET p == lock.sess IN
  /\ lock.kind \in {"undo", "abort", "redo", "rewind"} /\ lock.phase = "finish" /\ todo = <<>>
  /\ Unlocks /\ Forgets(p)
  /\ OpTo(p, NoOp)
  /\ IF lock.kind = "rewind" THEN Forks(p, op[p].turn) ELSE UNCHANGED threadVars
  /\ UNCHANGED <<repoVars, turn, task, boundVars, torn, replaced, excused, half>>

\* The process dies, with its threads and its aliases, and is started again
\* on its thread.
\* The operating system releases its lock.
Crash(p) ==
  /\ Fault
  /\ turn' = [turn EXCEPT ![p] = "none"]
  /\ task' = [task EXCEPT ![p] = [k \in Runs |-> OffTask]]
  /\ OpTo(p, NoOp)
  /\ IF lock.sess = p
     THEN Unlocks /\ torn' = "crash" /\ excused' = excused \cup Unsaved
     ELSE UNCHANGED <<lockVars, torn, excused>>
  /\ clean' = [q \in Sessions |-> FALSE]
  /\ kept' = [kept EXCEPT ![p] = [k \in 1..MaxForks |-> 0]]
  /\ UNCHANGED <<repoVars, fork, humans, ran, edits, builds, ops, captured, replaced, half>>

----------------------------------------------------------------------------

Next ==
  \/ UserEdit \/ WriteRef \/ WriteFails \/ SnapshotDone \/ Apply \/ EndRestore
  \/ \E p \in Sessions :
       \/ StartTurn(p) \/ StartSnapshot(p) \/ Mutate(p) \/ FinishTurn(p)
       \/ Await(p, "gate") \/ Await(p, "end") \/ Cancel(p) \/ Abort(p)
       \/ Command(p, "undo") \/ Command(p, "redo")
       \/ Settle(p) \/ Preview(p) \/ Confirm(p) \/ Decline(p)
       \/ BeginRestore(p) \/ BeginRewind(p) \/ Crash(p)
       \/ \E k \in Runs : BuildSnapshot(p, k) \/ CompareSnapshot(p, k) \/ PushSnapshot(p, k)
       \/ \E k \in 0..(MaxTurns - 1) : StartRewind(p, k)

Spec == Init /\ [][Next]_vars

----------------------------------------------------------------------------
(* Properties. *)

Entries == Snapshots \cup {None}
Kinds   == {"none", "undo", "redo", "abort", "rewind"}
Refs    == [Indexes -> Entries]
Writes  == [st : Stacks \cup {"snap"}, i : Nat, snap : Entries]
Locks   == [sess : Sessions \cup {None}, job : Nat, kind : Kinds \cup {"snapshot"},
            phase : {"none", "pop", "finish"}, pre : Entries, target : Entries,
            start : {<<>>} \cup [Stacks -> Refs]]
Tasks   == [pc : {"none", "build", "compare", "push", "write"},
            held : {"none", "slot", "detached", "orphan"}, snap : Entries,
            owner : Threads \cup {NoThread}, turn : Nat]
Commands == [kind : Kinds, pc : {"none", "settle", "preview", "confirm", "want", "run"},
             target : Entries, tree : Trees \cup {-1}, turn : Nat]

TypeOK ==
  /\ tree \in Trees /\ refs \in [Stacks -> Refs] /\ snaps \subseteq Snapshots
  /\ lock \in Locks /\ todo \in Seq(Writes)
  /\ fork \in [Sessions -> Nat] /\ humans \in [Sessions -> Nat]
  /\ turn \in [Sessions -> {"none", "start", "stream", "edited", "gate", "end"}]
  /\ task \in [Sessions -> [Runs -> Tasks]] /\ op \in [Sessions -> Commands]
  /\ edits \in 0..MaxEdits /\ builds \in 0..MaxBuilds
  /\ torn \in {"no", "ref", "crash"}

\* Between two operations the stacks are whole, whatever several sessions and
\* their snapshot threads did: no hole, no entry twice, at most max_stack
\* entries, each with its stable ref.  (Until an operation is torn apart.)
StacksWhole ==
  Free /\ torn = "no" =>
    \A st \in Stacks :
      /\ Present(refs[st]) = 0..(Cardinality(Present(refs[st])) - 1)
      /\ Cardinality(Present(refs[st])) <= MaxStack
      /\ \A i, j \in Present(refs[st]) : refs[st][i] = refs[st][j] => i = j
      /\ \A i \in Present(refs[st]) : refs[st][i] \in snaps

\* A restore loses no work: every tree it replaced keeps a stable ref.  The
\* exceptions are the ones named at excused: an edit made while the restore
\* was running, a rewind or an abort that could not capture the tree, a process
\* that died, or a ref that git refused, before the capture was stored, and a
\* restore that git stopped half-way.
NoWorkLost == Free => replaced \subseteq Saved \cup excused

\* The docstring of checkpoint.py: when git fails the working tree is never
\* half-applied, and no uncommitted work is ever lost.  A tree that a failed
\* restore took apart would at least keep a stable ref.  TLC refutes it:
\* README, 6.
HalfAppliedIsKept == Free => half \subseteq Saved

\* A process may die in any step of a push or a pop: every entry of the
\* stack but the one that moves is in some ref at all times.
StepKeepsEntries ==
  [][ \A st \in Stacks, i \in Indexes :
        \/ refs[st][i] = None
        \/ \E j \in Indexes : refs'[st][j] = refs[st][i]
        \/ refs[st][i] = lock.target /\ lock.phase = "pop"
        \/ i >= MaxStack
        \/ torn = "ref"
        \/ st = "redo" /\ lock.kind \in {"snapshot", "rewind"} ]_vars

\* An abort whose turn had the stacks for itself, and was not waiting for its
\* snapshot, goes back to the tree the turn began with.
CleanAbortRestores ==
  lock.kind = "abort" /\ lock.phase = "pop" /\ clean[lock.sess] =>
    lock.target.tree = captured[lock.sess]

\* The docstring of abort_rollback: the turn-start snapshot sits on top. TLC
\* refutes it: README, 6.
AbortRestoresTurnStart ==
  lock.kind = "abort" /\ lock.phase = "pop" => lock.target.tree = captured[lock.sess]

\* The comment in redo: /rewind never resolves the points that undo and redo
\* capture. TLC refutes it: README, 6.
RewindFindsTurnStart ==
  \A p \in Sessions : op[p].kind = "rewind" => op[p].target.kind = "turn"

\* The stacks as an operation that is under way will leave them; an undo or
\* redo counts from the moment the tree is restored.
Settling(st) == IF lock.phase = "pop" THEN Read(lock.start[st]) ELSE Read(After(st, refs[st], todo))
UndoHere == Settling("undo")
RedoHere == Settling("redo")
IsTorn   == torn # "no"
\* The snapshots that have a stable ref or are about to get one.
Storing == snaps \cup {w.snap : w \in {v \in ToSet(todo) : v.st = "snap"}}

History == INSTANCE UndoHistory
  WITH undo <- UndoHere, redo <- RedoHere, saved <- Storing, Depth <- MaxStack, torn <- IsTorn

\* Until an operation is torn apart, the refs behave as two histories whose
\* operations happen at once (the promise of UndoHistory).
ImplementsHistory == History!Spec

(* The rest is what the proofs need to know between two steps of an operation. *)

\* A stack without holes or repetitions, of stored snapshots.
Whole(f, stored) ==
  /\ \E n \in 0..MaxStack : \A i \in Indexes : f[i] # None <=> i < n
  /\ \A i, j \in Present(f) : f[i] = f[j] => i = j
  /\ \A i \in Present(f) : f[i] \in stored

Popped(f) == [i \in Indexes |-> IF i + 1 \in Indexes THEN f[i + 1] ELSE None]

\* The lock is held by an operation of a session; only what it captured is
\* about to be stored, and the captured tree is still there when it restores.
LockInv ==
  /\ Free => todo = <<>>
  /\ ~Free => lock.sess \in Sessions /\ lock.kind # "none" /\ lock.phase # "none"
  /\ lock.phase = "pop" =>
       /\ lock.kind \in {"undo", "redo", "abort", "rewind"}
       /\ lock.target \in Snapshots /\ lock.start \in [Stacks -> Refs]
       /\ lock.pre = None => lock.kind \in {"rewind", "abort"}
       /\ tree \in excused \/ (lock.pre # None /\ tree = lock.pre.tree)
  /\ \A j \in DOMAIN todo : todo[j].st = "snap" =>
       lock.phase = "finish" /\ todo[j].snap = lock.pre /\ lock.pre # None

\* What a rewind goes back to is stored; only an undo is previewed.
CommandInv ==
  \A p \in Sessions :
    /\ op[p].kind = "rewind" => op[p].target \in snaps
    /\ op[p].pc \in {"preview", "confirm"} => op[p].kind = "undo"
    /\ op[p].kind = "none" => op[p].pc = "none"

\* A snapshot that somebody has built and not stored yet is nobody else's, and
\* no stored one.
Building(p, k) == task[p][k].pc \in {"compare", "push"}
FreshInv ==
  /\ \A s \in Storing : s.n <= builds
  /\ lock.pre # None => lock.pre.n <= builds
  /\ lock.phase = "pop" => lock.pre \notin Storing
  /\ \A p \in Sessions, k \in Runs : Building(p, k) =>
       /\ task[p][k].snap \in Snapshots \ Storing /\ task[p][k].snap.n <= builds
       /\ lock.phase = "pop" => task[p][k].snap # lock.pre
  /\ \A p, q \in Sessions, k, l \in Runs :
       Building(p, k) /\ Building(q, l) /\ task[p][k].snap = task[q][l].snap => p = q /\ k = l

\* What a restore replaced is stored, about to be stored, or excused.
WorkInv == replaced \subseteq Saved \cup excused \cup Unsaved

\* The stacks an operation found are whole, and so are those it will leave.
StackInv ==
  torn = "no" =>
    IF lock.phase = "pop"
    THEN /\ \A st \in Stacks :
              /\ Whole(lock.start[st], snaps)
              /\ After(st, refs[st], todo) =
                   IF lock.kind # "rewind" /\ st = Pops(lock.kind) THEN Popped(lock.start[st])
                   ELSE lock.start[st]
         /\ IF lock.kind = "rewind" THEN lock.target \in snaps
            ELSE lock.target = lock.start[Pops(lock.kind)][0]
    ELSE \A st \in Stacks : Whole(After(st, refs[st], todo), Storing)

\* The inductive invariant of the checkpoints.
CheckpointInv == TypeOK /\ LockInv /\ CommandInv /\ FreshInv /\ WorkInv /\ StackInv

\* The write w of the operation l keeps what it overwrites in the stack f, or
\* may cost it.
Keeps(l, f, w) ==
  \/ w.i \notin Indexes \/ f[w.i] = None \/ w.i >= MaxStack
  \/ \E i \in Indexes : [f EXCEPT ![w.i] = w.snap][i] = f[w.i]
  \/ f[w.i] = l.target /\ l.phase = "pop"
  \/ w.st = "redo" /\ l.kind \in {"snapshot", "rewind"}

\* So does each of the writes ws when those before it are done.
KeepsAll(l, st, f, ws) ==
  \A j \in 1..Len(ws) : ws[j].st = st => Keeps(l, After(st, f, SubSeq(ws, 1, j - 1)), ws[j])
KeepInv == torn # "ref" => \A st \in Stacks : KeepsAll(lock, st, refs[st], todo)

HistoryOK ==
  /\ ran \in [Sessions -> Nat] /\ captured \in [Sessions -> Trees]
  /\ clean \in [Sessions -> BOOLEAN]

\* A session has a turn or a command; a turn has a slot of its own, and its
\* edits come after its snapshot.
SlotOK(p) ==
  /\ \A k \in Runs : k > ran[p] \/ (k = ran[p] /\ turn[p] = "start") => ~Running(task[p][k])
  /\ op[p].kind # "none" => turn[p] = "none"
  /\ turn[p] # "none" \/ op[p].kind = "abort" => ran[p] \in Runs
  /\ turn[p] # "none" /\ Running(Slot(p)) => Slot(p).held = "slot"
  /\ turn[p] = "edited" => ~Running(Slot(p))
\* A lock that is held has its thread or its command.
OwnerOK ==
  /\ lock.kind = "snapshot" => lock.job \in Runs /\ task[lock.sess][lock.job].pc = "write"
  /\ lock.kind \in Kinds \ {"none"} => op[lock.sess].kind = lock.kind /\ op[lock.sess].pc = "run"

\* The snapshot of a turn that has the stacks for itself, from its capture to
\* the top of the undo stack, and to the abort that takes it from there.
Holds(e, p) == e # None /\ e.tree = captured[p]
CaptureOK(p) ==
  clean[p] /\ (turn[p] # "none" \/ op[p].kind = "abort") =>
    /\ torn = "no" /\ (Free \/ lock.sess = p)
    /\ \A k \in Runs \ {ran[p]} : ~Running(task[p][k])
    /\ turn[p] = "none" /\ Running(Slot(p)) => Slot(p).held # "orphan" /\ op[p].pc = "settle"
    /\ Slot(p).pc \in {"compare", "push"} => Slot(p).snap.tree = captured[p]
    /\ Slot(p).pc = "write" =>
         lock.kind = "snapshot" /\ Holds(After("undo", refs["undo"], todo)[0], p)
    /\ ~Running(Slot(p)) /\ turn[p] # "start" =>
         IF lock.phase = "pop" THEN lock.target.tree = captured[p]
         ELSE Free => Holds(refs["undo"][0], p)

\* The inductive invariant of turns, their aborts and the single ref writes.
TurnStepInv ==
  /\ CheckpointInv /\ KeepInv /\ HistoryOK /\ OwnerOK
  /\ \A p \in Sessions : SlotOK(p) /\ CaptureOK(p)

=============================================================================
