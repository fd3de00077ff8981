----------------------------- MODULE UndoHistory -----------------------------
(***************************************************************************)
(* What the checkpoint manager promises its users: a working tree with an  *)
(* undo and a redo history of snapshots, each step of which happens at     *)
(* once, over a store that forgets no snapshot.                            *)
(*                                                                         *)
(* An operation that was torn apart (a process that dies, a ref git        *)
(* refuses to write) ends the promise: from then on the histories are      *)
(* unconstrained here, and what still holds of them is stated by the       *)
(* detailed specification.                                                 *)
(***************************************************************************)
EXTENDS Naturals, Sequences

CONSTANT Depth   \* entries a history keeps

VARIABLES
  tree,         \* the working tree
  undo, redo,   \* snapshots, newest first
  saved,        \* the store of snapshots
  torn

vars == <<tree, undo, redo, saved, torn>>

\* h with the snapshot s on top, cut to its newest Depth entries.
Push(s, h) == SubSeq(<<s>> \o h, 1, IF Len(h) < Depth THEN Len(h) + 1 ELSE Depth)

\* A snapshot is stored and put on top of a history.
PushedOn(h, new) ==
  /\ new # <<>>
  /\ new = Push(Head(new), h)
  /\ saved' = saved \cup {Head(new)}

Init == undo = <<>> /\ redo = <<>> /\ saved = {} /\ torn = FALSE

\* Anybody edits files.
Edit == tree' # tree /\ UNCHANGED <<undo, redo, saved>>

\* A turn's snapshot: what was undone can no longer be redone.
Save == PushedOn(undo, undo') /\ redo' = <<>> /\ UNCHANGED tree

\* The newest entry is restored, and what it replaces can be redone, unless
\* that could not be captured.
Undo ==
  /\ undo # <<>>
  /\ tree' = Head(undo).tree /\ undo' = Tail(undo)
  /\ PushedOn(redo, redo') \/ UNCHANGED <<redo, saved>>

Redo ==
  /\ redo # <<>>
  /\ tree' = Head(redo).tree /\ redo' = Tail(redo) /\ PushedOn(undo, undo')

\* A stored snapshot of any age is restored.  Undo brings back what it
\* replaced, unless that could not be captured.
Rewind ==
  /\ \E s \in saved : tree' = s.tree
  /\ redo' = <<>>
  /\ PushedOn(undo, undo') \/ UNCHANGED <<undo, saved>>

Tear == torn' = TRUE

Next ==
  \/ /\ ~torn /\ torn' = FALSE
     /\ Edit \/ Save \/ Undo \/ Redo \/ Rewind
  \/ Tear

Spec == Init /\ [][Next]_vars

=============================================================================
