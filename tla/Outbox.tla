------------------------------- MODULE Outbox -------------------------------
(***************************************************************************)
(* The Telegram outbox of one chat (src/jarn/telegram/outbox.py) and the   *)
(* tasks that feed it (src/jarn/telegram/backend.py).  Every frame of a    *)
(* worker and every answer to a command is delivered by a task of its own; *)
(* the tasks share one event loop and interleave where they wait for       *)
(* Telegram or for the draft request that is in flight.  Requests may      *)
(* fail, with or without having been served.                               *)
(***************************************************************************)
EXTENDS Integers, Sequences, FiniteSets

CONSTANTS
  BufMax,     \* chunks of prose that fit a message (TELEGRAM_MESSAGE_MAX)
  MaxTurns, MaxTexts,
  MaxExtras,  \* notices, tool events, acknowledgements and status frames
  MaxFaults,
  None

ASSUME OutboxAssumption ==
  /\ BufMax \in Nat \ {0}
  /\ {MaxTurns, MaxTexts, MaxExtras, MaxFaults} \subseteq Nat
  /\ None \notin Nat

VARIABLES
  draft,     \* the live draft: alive, gen, buf, sent, pending, fresh, inflight
  flights,   \* sendMessageDraft requests on their way
  tasks,     \* suspended deliveries
  bubble,    \* _progress_id
  progress,  \* what the bubble should show, and what was sent last
  turn,      \* whether the worker is in a turn
  chat,      \* history: how often a chunk was posted, and the bubbles that exist
  dropped,   \* history: chunks given up by a notice, a failure or the size limit
  again,     \* history: chunks taken by a second delivery while the first waited
  turns, texts, extras, faults

counters == <<turns, texts, extras, faults>>
vars == <<draft, flights, tasks, bubble, progress, turn, chat, dropped, again, counters>>

Chunks(s) == {s[i] : i \in DOMAIN s}

(* A number no task and no bubble has *)
Unused ==
  LET used == {t.n : t \in tasks} \cup {t.gen : t \in tasks} \cup chat.bubbles
  IN CHOOSE i \in 1 .. Cardinality(used) + 1 : i \notin used

NoProgress == [rows |-> 0, ack |-> FALSE, beat |-> FALSE]

Init ==
  /\ draft = [alive |-> FALSE, gen |-> 0, buf |-> <<>>, sent |-> 0,
              pending |-> FALSE, fresh |-> TRUE, inflight |-> FALSE]
  /\ flights = {} /\ tasks = {}
  /\ bubble = None
  /\ progress = [now |-> NoProgress, last |-> NoProgress]
  /\ turn = FALSE
  /\ chat = [prose |-> [c \in 1 .. MaxTexts |-> 0], bubbles |-> {}]
  /\ dropped = {} /\ again = {}
  /\ turns = 0 /\ texts = 0 /\ extras = 0 /\ faults = 0

-----------------------------------------------------------------------------
(* The draft *)

(* _next_draft_id *)
NextDraft(d) == [d EXCEPT !.alive = TRUE, !.gen = @ + 1, !.buf = <<>>, !.sent = 0,
                          !.pending = FALSE, !.fresh = TRUE]

(* restart_draft *)
Restarted(d) == [d EXCEPT !.alive = FALSE, !.buf = <<>>, !.sent = 0,
                          !.pending = FALSE, !.fresh = TRUE]

(* Only the tail of a long reply is kept *)
Trim(s) == IF Len(s) > BufMax THEN SubSeq(s, Len(s) - BufMax + 1, Len(s)) ELSE s

(* One request at a time *)
MayStart(d) == ~d.inflight

(* _should_flush_now; the clock and the size of the chunk decide *)
FlushChoices(d) ==
  IF Len(d.buf) <= d.sent THEN {FALSE} ELSE IF d.fresh THEN {TRUE} ELSE BOOLEAN

(* _run_flush up to its request *)
Request(d) == [gen |-> d.gen, buf |-> d.buf]

(* _append_draft *)
Text ==
  /\ turn /\ texts < MaxTexts
  /\ texts' = texts + 1
  /\ LET c == texts + 1
         d == IF draft.alive THEN draft ELSE NextDraft(draft)
         e == [d EXCEPT !.buf = Trim(Append(@, c))]
     IN /\ dropped' = dropped \cup (Chunks(d.buf) \ Chunks(e.buf))
        /\ \/ /\ ~MayStart(e)
              /\ draft' = [e EXCEPT !.pending = TRUE]
              /\ UNCHANGED flights
           \/ /\ MayStart(e)
              /\ \E flush \in FlushChoices(e) :
                   /\ draft' = [e EXCEPT !.inflight = flush]
                   /\ flights' = IF flush THEN flights \cup {Request(e)} ELSE flights
  /\ UNCHANGED <<tasks, bubble, progress, turn, chat, again,
                 turns, extras, faults>>

(* keepalive_draft *)
KeepAlive(d) ==
  IF ~d.alive THEN draft' = d /\ UNCHANGED flights
  ELSE IF MayStart(d)
    THEN draft' = [d EXCEPT !.inflight = TRUE] /\ flights' = flights \cup {Request(d)}
  ELSE draft' = [d EXCEPT !.pending = TRUE] /\ UNCHANGED flights

(* A chunk or a keepalive came while the request was on its way *)
Trails(d) == d.alive /\ d.pending

Wakes_OnSuccess(ok) == ok

(* The idle event is set in a finally *)
Wakes(ok) == TRUE

Woken == {[t EXCEPT !.pc = IF t.pc = "wait" THEN "woken" ELSE @] : t \in tasks}

(* The request returns or fails.  What it sent is noted even if the draft was
   replaced meanwhile. *)
FlushEnds(f, ok) ==
  /\ f \in flights
  /\ ok \/ faults < MaxFaults
  /\ faults' = IF ok THEN faults ELSE faults + 1
  /\ LET d == IF ok THEN [draft EXCEPT !.sent = Len(f.buf), !.fresh = FALSE] ELSE draft
     IN IF Trails(d)
          THEN /\ draft' = [d EXCEPT !.pending = FALSE]
               /\ flights' = (flights \ {f}) \cup {Request(d)}
               /\ UNCHANGED tasks
          ELSE /\ draft' = [d EXCEPT !.inflight = FALSE]
               /\ flights' = flights \ {f}
               /\ tasks' = IF Wakes(ok) THEN Woken ELSE tasks
  /\ UNCHANGED <<bubble, progress, turn, chat, dropped, again,
                 turns, texts, extras>>

-----------------------------------------------------------------------------
(* The progress bubble *)

Shown(p) == p # NoProgress

(* _upsert_progress_bubble: nothing to show, or what was sent last, sends
   nothing; without an id a message is created, otherwise it is edited *)
Upsert(p, others, kind) ==
  /\ progress' = [now |-> p, last |-> IF Shown(p) THEN p ELSE progress.last]
  /\ tasks' = IF Shown(p) /\ p # progress.last
                THEN others \cup {[n |-> Unused, kind |-> kind, gen |-> 0, buf |-> <<>>,
                                   pc |-> IF bubble = None THEN "create" ELSE "edit"]}
                ELSE others

(* tool_start, tool_end *)
ToolEvent ==
  /\ turn /\ extras < MaxExtras
  /\ extras' = extras + 1
  /\ Upsert([progress.now EXCEPT !.rows = @ + 1], tasks, "tool")
  /\ UNCHANGED <<draft, flights, bubble, turn, chat, dropped, again,
                 turns, texts, faults>>

(* ack_busy *)
BusyAck ==
  /\ turn /\ extras < MaxExtras
  /\ extras' = extras + 1
  /\ Upsert([progress.now EXCEPT !.ack = TRUE], tasks, "ack")
  /\ UNCHANGED <<draft, flights, bubble, turn, chat, dropped, again,
                 turns, texts, faults>>

(* A status frame: the heartbeat of a quiet turn first, then the keepalive *)
Status(quiet) ==
  /\ extras < MaxExtras
  /\ extras' = extras + 1
  /\ IF ~turn
       THEN /\ progress' = [progress EXCEPT !.now.beat = FALSE]
            /\ UNCHANGED <<draft, flights, tasks>>
       ELSE LET p == [progress.now EXCEPT !.beat = @ \/ quiet]
            IN IF quiet /\ ~progress.now.beat
                 THEN Upsert(p, tasks, "status") /\ UNCHANGED <<draft, flights>>
                 ELSE KeepAlive(draft) /\ UNCHANGED <<progress, tasks>>
  /\ UNCHANGED <<bubble, turn, chat, dropped, again, turns, texts, faults>>

(* The request of a bubble task ends.  A failed edit is only logged. *)
BubbleEnds(t, ok, served) ==
  /\ t \in tasks /\ t.pc \in {"create", "edit"}
  /\ ok => served
  /\ ok \/ faults < MaxFaults
  /\ faults' = IF ok THEN faults ELSE faults + 1
  /\ chat' = IF t.pc = "create" /\ served
               THEN [chat EXCEPT !.bubbles = @ \cup {t.n}] ELSE chat
  /\ bubble' = IF t.pc = "create" /\ ok THEN t.n ELSE bubble
  /\ tasks' = tasks \ {t}
  /\ IF t.kind = "status" /\ (ok \/ t.pc = "edit")
       THEN KeepAlive(draft) ELSE UNCHANGED <<draft, flights>>
  /\ UNCHANGED <<progress, turn, dropped, again, turns, texts, extras>>

-----------------------------------------------------------------------------
(* Real messages: done finalizes, an approval card persists the prose first,
   a notice drops it *)

(* _cleanup_progress and the end of finalize *)
Cleanup(others, t) ==
  /\ progress' = [now |-> NoProgress, last |-> NoProgress]
  /\ bubble' = None
  /\ tasks' = IF bubble = None THEN others
              ELSE others \cup {[t EXCEPT !.pc = "tidy", !.gen = bubble]}

(* What a delivery does once the draft is out of its way *)
Continue(others, t) ==
  IF t.kind # "notice" /\ t.buf # <<>>
    THEN tasks' = others \cup {[t EXCEPT !.pc = "prose"]} /\ UNCHANGED <<progress, bubble>>
  ELSE IF t.kind = "done" THEN Cleanup(others, t)
  ELSE tasks' = others \cup {[t EXCEPT !.pc = "post"]} /\ UNCHANGED <<progress, bubble>>

Waits_Never(d) == FALSE

(* _await_inflight: the idle event is clear *)
Waits(d) == d.inflight

Held == UNION {Chunks(t.buf) : t \in {u \in tasks : u.pc \in {"wait", "woken"}}}

(* _commit_draft and _invalidate_draft up to the wait *)
Deliver(kind) ==
  /\ LET d == [draft EXCEPT !.alive = FALSE, !.pending = FALSE]
         t == [n |-> Unused, kind |-> kind, gen |-> draft.gen, pc |-> "wait",
               buf |-> IF kind = "notice" THEN <<>> ELSE draft.buf]
     IN /\ dropped' = IF kind = "notice" THEN dropped \cup Chunks(draft.buf) ELSE dropped
        /\ again' = again \cup (Chunks(t.buf) \cap Held)
        /\ IF Waits(d)
             THEN /\ draft' = d
                  /\ tasks' = tasks \cup {t}
                  /\ UNCHANGED <<progress, bubble>>
             ELSE draft' = Restarted(d) /\ Continue(tasks, t)
  /\ UNCHANGED <<flights, chat>>

(* The worker's last frame of a turn *)
Finish(kind) ==
  /\ turn
  /\ turn' = FALSE
  /\ Deliver(kind)
  /\ UNCHANGED <<turns, texts, extras, faults>>

(* A notice of the worker or the answer to a command *)
Notice ==
  /\ extras < MaxExtras
  /\ extras' = extras + 1
  /\ Deliver("notice")
  /\ UNCHANGED <<turn, turns, texts, faults>>

MayRestart_AnyDraft(d, t) == TRUE

(* Not if a newer draft was begun during the wait *)
MayRestart(d, t) == d.gen = t.gen

Resume(t) ==
  /\ t \in tasks /\ t.pc = "woken"
  /\ draft' = IF MayRestart(draft, t) THEN Restarted(draft) ELSE draft
  /\ Continue(tasks \ {t}, t)
  /\ UNCHANGED <<flights, turn, chat, dropped, again, counters>>

(* The prose, the message itself, or the deletion of the bubble.  A card or a
   notice that fails ends its task like one that is sent. *)
PostEnds(t, ok, served) ==
  /\ t \in tasks /\ t.pc \in {"prose", "post", "tidy"}
  /\ ok => served
  /\ ok \/ (faults < MaxFaults /\ t.pc # "post")
  /\ faults' = IF ok THEN faults ELSE faults + 1
  /\ chat' = IF ~served \/ t.pc = "post" THEN chat
             ELSE IF t.pc = "prose" THEN [chat EXCEPT !.prose =
                                    [c \in 1 .. MaxTexts |-> IF c \in Chunks(t.buf) THEN @[c] + 1 ELSE @[c]]]
             ELSE [chat EXCEPT !.bubbles = @ \ {t.gen}]
  /\ dropped' = IF t.pc = "prose" /\ ~served THEN dropped \cup Chunks(t.buf) ELSE dropped
  /\ IF ok /\ t.pc = "prose"
       THEN Continue(tasks \ {t}, [t EXCEPT !.buf = <<>>])
       ELSE tasks' = tasks \ {t} /\ UNCHANGED <<progress, bubble>>
  /\ UNCHANGED <<draft, flights, turn, again, turns, texts, extras>>

StartTurn ==
  /\ ~turn /\ turns < MaxTurns
  /\ turn' = TRUE
  /\ turns' = turns + 1
  /\ UNCHANGED <<draft, flights, tasks, bubble, progress, chat, dropped, again,
                 texts, extras, faults>>

Requests ==
  \/ \E f \in flights, ok \in BOOLEAN : FlushEnds(f, ok)
  \/ \E t \in tasks, ok, served \in BOOLEAN : BubbleEnds(t, ok, served) \/ PostEnds(t, ok, served)
  \/ \E t \in tasks : Resume(t)

Next ==
  \/ StartTurn \/ Text \/ ToolEvent \/ BusyAck \/ Notice
  \/ \E quiet \in BOOLEAN : Status(quiet)
  \/ \E kind \in {"done", "card", "notice"} : Finish(kind)
  \/ Requests

(* Telegram answers or the request times out, and the loop runs what is ready *)
Spec == Init /\ [][Next]_vars /\ WF_vars(Requests)

-----------------------------------------------------------------------------
(* Properties *)

Prose == Seq(1 .. MaxTexts)

Draft == [alive : BOOLEAN, gen : 0 .. MaxTexts, buf : Prose, sent : 0 .. BufMax,
          pending : BOOLEAN, fresh : BOOLEAN, inflight : BOOLEAN]
Flight == [gen : 1 .. MaxTexts, buf : Prose]
Task == [n : Nat, kind : {"tool", "ack", "status", "done", "card", "notice"},
         gen : Nat, buf : Prose,
         pc : {"create", "edit", "wait", "woken", "prose", "post", "tidy"}]

(* Every variable keeps its type; in particular a request carries no more
   prose than a message may hold, and the bubble in use exists. *)
TypeOK ==
  /\ draft \in Draft /\ Len(draft.buf) <= BufMax
  /\ flights \subseteq Flight /\ \A f \in flights : Len(f.buf) <= BufMax
  /\ tasks \subseteq Task /\ IsFiniteSet(tasks)
  /\ chat \in [prose : [1 .. MaxTexts -> Nat], bubbles : SUBSET Nat] /\ IsFiniteSet(chat.bubbles)
  /\ bubble \in chat.bubbles \cup {None}
  /\ texts \in 0 .. MaxTexts
  /\ dropped \cup again \subseteq 1 .. MaxTexts

(* However deliveries overlap, one sendMessageDraft is in flight at a time. *)
OneFlight == Cardinality(flights) <= 1

(* Prose is posted as a message only once no draft request that carries it is
   on its way: the draft cannot reappear below its own final message. *)
NoGhostDraft ==
  \A t \in tasks, f \in flights : t.pc = "prose" => f.gen # t.gen

(* A chunk that came while a request was in flight does not wait for the next
   event: the flag is only up while a request will still end and see it. *)
NoStrandedFlush == draft.pending => draft.inflight

(* What every step preserves about the draft: one request, seen by every chunk
   it keeps waiting, and settled before the prose it carries is posted. *)
DraftInv == TypeOK /\ OneFlight /\ NoStrandedFlush /\ NoGhostDraft

(* Every chunk of prose is in the live draft, in the hands of a delivery, or in
   the chat once, unless a notice, a failed request or the size limit took it: a
   delivery that waits does not clear the draft of the next turn.  The exception
   is a second delivery that takes the draft while the first still waits for the
   request in flight: both post it. *)
ProseOnce ==
  \A c \in 1 .. texts :
    /\ \/ c \in Chunks(draft.buf) \cup dropped
       \/ chat.prose[c] > 0
       \/ \E t \in tasks : c \in Chunks(t.buf)
    /\ chat.prose[c] > 1 => c \in again

(* The steps of a delivery that still has its draft's generation *)
Delivering == {"wait", "woken", "prose"}

(* One request, up while the draft says so; a chunk waits for it only while the
   draft lives. *)
FlightInv ==
  /\ draft.inflight <=> flights # {}
  /\ \A f, g \in flights : f = g
  /\ draft.pending => draft.alive /\ draft.inflight
  /\ draft.alive => draft.gen > 0
  /\ draft.gen <= texts

(* A delivery is behind the draft that lives, and behind the request in flight
   once its wait is over. *)
DeliveryInv ==
  \A t \in tasks : t.pc \in Delivering =>
    /\ t.gen <= draft.gen
    /\ draft.alive => t.gen < draft.gen
    /\ t.pc # "wait" => \A f \in flights : t.gen < f.gen

(* Tasks are told apart by their numbers, and no number that is about to become
   a bubble is one already, or one about to be deleted. *)
NumbersInv ==
  /\ \A t, u \in tasks : t.n = u.n => t = u
  /\ \A t \in tasks : t.pc = "create" => t.n \notin chat.bubbles
  /\ \A t \in tasks : t.pc = "tidy" =>
       t.gen # bubble /\ \A u \in tasks : u.pc = "create" => u.n # t.gen

Holds(t, c) == c \in Chunks(t.buf)

(* Where a chunk of prose is: only deliveries hold any, what a dead draft still
   shows is in other hands, and what was taken once is in one place. *)
ProseInv ==
  /\ \A t \in tasks : t.pc \notin Delivering \/ t.kind = "notice" => t.buf = <<>>
  /\ \A c \in 1 .. MaxTexts :
       /\ c > texts => /\ chat.prose[c] = 0 /\ c \notin Chunks(draft.buf)
                       /\ \A t \in tasks : ~Holds(t, c)
       /\ ~draft.alive /\ c \in Chunks(draft.buf) =>
            c \in dropped \/ chat.prose[c] > 0 \/ \E t \in tasks : Holds(t, c)
       /\ c \notin again =>
            /\ chat.prose[c] <= 1
            /\ \A t, u \in tasks : Holds(t, c) /\ Holds(u, c) => t = u
            /\ \A t \in tasks : Holds(t, c) => chat.prose[c] = 0
            /\ c \in Chunks(draft.buf) =>
                 /\ chat.prose[c] = 0
                 /\ \A t \in tasks : Holds(t, c) =>
                      ~draft.alive /\ t.gen = draft.gen /\ t.pc \in {"wait", "woken"}

(* What every step preserves about the outbox. *)
OutboxInv == TypeOK /\ FlightInv /\ DeliveryInv /\ NumbersInv /\ ProseInv /\ ProseOnce

(* Every delivery comes to an end: none waits for an idle event nobody sets. *)
Settles == []<>(tasks = {} /\ flights = {})

(* Tools, acknowledgements and heartbeats share one message: "Create or edit
   the single progress bubble" (src/jarn/telegram/outbox.py:814). TLC refutes
   it: README, 6. *)
OneBubble == Cardinality(chat.bubbles) <= 1
=============================================================================
