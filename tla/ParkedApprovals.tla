--------------------------- MODULE ParkedApprovals ---------------------------
(***************************************************************************)
(* Durable approvals of the gateway: a gated tool call suspends its turn   *)
(* in the LangGraph checkpoint of its thread, the worker records a routing *)
(* row and releases the turn, a card is shown in the chat, and a tap on    *)
(* the card resumes the thread later, perhaps in another process           *)
(* (gateway/approvals.py, agent/session.py, gateway/worker.py,             *)
(* telegram/backend.py, telegram/bot.py).                                  *)
(*                                                                         *)
(* One project root, one chat.  An ask is one gated tool call for which    *)
(* the permission engine answers ASK; one interrupt of the graph may hold  *)
(* several of them.  Asks, tokens and prompts are numbered in the order    *)
(* they come up.                                                           *)
(***************************************************************************)
EXTENDS Naturals, FiniteSets

CONSTANTS
  Threads,     \* conversation ids of the root
  MaxPrompts,  \* bound: prompts sent
  MaxAsks,     \* bound: gated calls made by the model
  MaxTaps,     \* bound: taps on cards, duplicates included
  MaxFaults,   \* bound: worker deaths and gateway restarts
  MaxTokens    \* bound: rows ever written

ASSUME ApprovalsAssumption ==
  /\ Threads # {}
  /\ {MaxPrompts, MaxAsks, MaxTaps, MaxFaults, MaxTokens} \subseteq Nat

Asks    == 1..MaxAsks
Tokens  == 1..MaxTokens
None    == 0

Idle == [kind |-> "idle"]

VARIABLES
  pending,    \* [Threads -> SUBSET Asks]: interrupts in the checkpoint
  rows,       \* PendingApprovalMap: [token, thread]
  cards,      \* tokens whose card is displayed in the chat
  busy,       \* the root is in the router's _busy_roots
  wire,       \* verdict frames written to the worker and not read yet
  job,        \* the worker's task, or Idle
  up,         \* the root has a worker process
  active,     \* the chat's thread
  askThread,  \* [Asks -> Threads]: the thread that made the call
  asked,      \* gated calls made so far
  minted,     \* tokens minted so far
  prompted,   \* prompts sent so far
  ran,        \* [Asks -> Nat]: executions of the call
  okTaps,     \* [Threads -> Nat]: approving taps on cards of the thread
  seen,       \* history: <<token, approved>> verdicts that reached the worker
  answered,   \* history: <<ask, token>>, the ask was answered by that verdict
  later,      \* history: <<ask, token>>, the ask came up in the resume of that verdict
  cutShort,   \* history: threads on which a job was cut short
  abandoned,  \* history: threads left with /new
  taps, faults

durable == <<pending, rows, cards, askThread, asked, minted>>
routing == <<busy, wire, job, up, active>>
history == <<ran, okTaps, seen, answered, later, cutShort, abandoned>>
counts  == <<prompted, taps, faults>>
vars == <<durable, routing, history, counts>>

Init ==
  /\ pending = [t \in Threads |-> {}]
  /\ rows = {} /\ cards = {} /\ busy = FALSE /\ wire = {} /\ job = Idle /\ up = FALSE
  /\ active \in Threads
  /\ askThread = [a \in Asks |-> active]
  /\ asked = 0 /\ minted = 0 /\ prompted = 0
  /\ ran = [a \in Asks |-> 0] /\ okTaps = [t \in Threads |-> 0]
  /\ seen = {} /\ answered = {} /\ later = {}
  /\ cutShort = {} /\ abandoned = {}
  /\ taps = 0 /\ faults = 0

RowOf(k) == CHOOSE r \in rows : r.token = k
HasRow(k) == \E r \in rows : r.token = k
DeleteRow(k) == rows' = {r \in rows : r.token # k}

----------------------------------------------------------------------------
(* The chat. *)

\* A prompt on an idle root becomes a turn of the active thread.  (A prompt
\* on a busy root is queued or steered: module Gateway.)
Prompt ==
  /\ prompted < MaxPrompts
  /\ ~busy /\ job = Idle /\ wire = {}
  /\ prompted' = prompted + 1
  /\ busy' = TRUE /\ up' = TRUE
  /\ job' = [kind |-> "turn", thread |-> active, stage |-> "inspect",
             token |-> None, ok |-> FALSE]
  /\ UNCHANGED <<durable, wire, active, history, taps, faults>>

\* /new gives the chat another thread; it looks at nothing else.
NewThread ==
  /\ prompted < MaxPrompts
  /\ \E t \in Threads \ ({active} \cup abandoned) :
       active' = t
  /\ abandoned' = abandoned \cup {active}
  /\ UNCHANGED <<durable, busy, wire, job, up, ran, okTaps, seen, answered, later, cutShort,
                 counts>>

\* claim_approval_resume refuses a root that is in _busy_roots.
ClaimRefused == busy

\* A tap on a card, or a second delivery of a tap: the card is removed before
\* the verdict is looked at; an unknown token and a busy root are refused;
\* otherwise the chat is moved to the row's thread, the root is claimed and
\* the verdict goes to the worker, which is started if there is none.
Tap(k, ok) ==
  /\ taps < MaxTaps
  /\ k \in cards \/ \E v \in seen : v[1] = k
  /\ taps' = taps + 1
  /\ cards' = cards \ {k}
  /\ \/ /\ ~HasRow(k)
        /\ UNCHANGED <<busy, wire, up, active, okTaps>>
     \/ /\ HasRow(k) /\ ClaimRefused
        /\ UNCHANGED <<busy, wire, up, active, okTaps>>
     \/ /\ HasRow(k) /\ ~ClaimRefused
        /\ busy' = TRUE /\ up' = TRUE
        /\ active' = RowOf(k).thread
        /\ wire' = wire \cup {[token |-> k, ok |-> ok]}
        /\ okTaps' = IF ok THEN [okTaps EXCEPT ![RowOf(k).thread] = @ + 1] ELSE okTaps
  /\ UNCHANGED <<pending, rows, askThread, asked, minted, job, ran, seen, answered,
                 later, cutShort, abandoned, prompted, faults>>

----------------------------------------------------------------------------
(* The worker. *)

\* _handle_approval_verdict: refused while a task is in flight, or when the
\* token is unknown; the router is not told either way.
ReadVerdict(v) ==
  /\ v \in wire
  /\ wire' = wire \ {v}
  /\ seen' = seen \cup {<<v.token, v.ok>>}
  /\ job' = IF job = Idle /\ HasRow(v.token)
              THEN [kind |-> "resume", thread |-> RowOf(v.token).thread, stage |-> "inspect",
                    token |-> v.token, ok |-> v.ok]
              ELSE job
  /\ UNCHANGED <<durable, busy, up, active, ran, okTaps, answered, later, cutShort,
                 abandoned, counts>>

\* The task is over: its last event, or for a task that emits none the next
\* heartbeat, takes the root out of _busy_roots.
Over == job' = Idle

\* resume_parked_approval's finally: the row goes however the resume ended.
DropRow == IF job.kind = "resume" THEN DeleteRow(job.token) ELSE UNCHANGED rows

\* run_turn (or resume_pending_approval) reads the checkpoint.
Inspect ==
  /\ job # Idle /\ job.stage = "inspect"
  /\ \/ /\ pending[job.thread] # {}
        /\ job' = [job EXCEPT !.stage = "resolve"]
        /\ UNCHANGED <<rows, busy>>
     \/ /\ pending[job.thread] = {} /\ job.kind = "turn"
        /\ job' = [job EXCEPT !.stage = "model"]
        /\ UNCHANGED <<rows, busy>>
     \/ \* Nothing to resume: the generator ends without an event.
        /\ pending[job.thread] = {} /\ job.kind = "resume"
        /\ Over /\ DropRow
        /\ UNCHANGED busy
  /\ UNCHANGED <<pending, cards, askThread, asked, minted, wire, up, active, ran, okTaps,
                 seen, answered, later, cutShort, abandoned, counts>>

\* Mutant: the turn is released without its row.
RecordRow_Skipped == UNCHANGED rows
RecordRow ==
  rows' = rows \cup {[token |-> minted + 1, thread |-> job.thread]}

\* The approver of a turn parks: the row is written first, then the ask frame.
\* One row, one card, for the first call of the interrupt.
Park ==
  /\ job # Idle /\ job.kind = "turn" /\ job.stage = "resolve"
  /\ minted < MaxTokens
  /\ minted' = minted + 1
  /\ RecordRow
  /\ job' = [job EXCEPT !.stage = "parked", !.token = minted + 1]
  /\ UNCHANGED <<pending, cards, askThread, asked, busy, wire, up, active, history, counts>>

\* The ask frame reaches the daemon: the root is free again and the card is
\* sent.  ApprovalParked then unwinds the turn; its prompt, if it had not been
\* submitted, goes with it.
EmitAsk ==
  /\ job # Idle /\ job.stage = "parked"
  /\ cards' = cards \cup {job.token}
  /\ busy' = FALSE
  /\ job' = [job EXCEPT !.stage = "tail"]
  /\ UNCHANGED <<pending, rows, askThread, asked, minted, wire, up, active, ran, okTaps,
                 seen, answered, later, cutShort, abandoned, counts>>

TailEnds ==
  /\ job # Idle /\ job.stage = "tail"
  /\ Over
  /\ UNCHANGED <<durable, busy, wire, up, active, history, counts>>

\* The verdict approver answers every ask of the interrupt, then the Command is
\* delivered: an approved call runs, a rejected one does not.
\* Mutant: the verdict is not looked at.
Approves_Always == TRUE
Approves == job.ok

Answer ==
  /\ job # Idle /\ job.kind = "resume" /\ job.stage = "resolve"
  /\ answered' = answered \cup {<<a, job.token>> : a \in pending[job.thread]}
  /\ ran' = [a \in Asks |-> IF a \in pending[job.thread] /\ Approves THEN ran[a] + 1 ELSE ran[a]]
  /\ job' = [job EXCEPT !.stage = "tools"]
  /\ UNCHANGED <<durable, busy, wire, up, active, okTaps, seen, later, cutShort, abandoned,
                 counts>>

\* The graph commits the tool results: the interrupt is gone, the model goes on.
CommitTools ==
  /\ job # Idle /\ job.stage = "tools"
  /\ pending' = [pending EXCEPT ![job.thread] = {}]
  /\ job' = [job EXCEPT !.stage = "model"]
  /\ UNCHANGED <<rows, cards, askThread, asked, minted, busy, wire, up, active, history,
                 counts>>

\* The model makes n gated calls: the graph suspends, and the approver of the
\* job (park for a turn, the fixed verdict for a resume) is asked about them.
ModelAsks(n) ==
  LET calls == (asked + 1)..(asked + n) IN
  /\ job # Idle /\ job.stage = "model"
  /\ asked + n <= MaxAsks
  /\ askThread' = [a \in Asks |-> IF a \in calls THEN job.thread ELSE askThread[a]]
  /\ later' = IF job.kind = "resume" THEN later \cup {<<a, job.token>> : a \in calls} ELSE later
  /\ pending' = [pending EXCEPT ![job.thread] = calls]
  /\ asked' = asked + n
  /\ job' = [job EXCEPT !.stage = "resolve"]
  /\ UNCHANGED <<rows, cards, minted, busy, wire, up, active, ran, okTaps, seen, answered,
                 cutShort, abandoned, counts>>

\* The stream ends: "done" frees the root.
ModelDone ==
  /\ job # Idle /\ job.stage = "model"
  /\ Over /\ DropRow
  /\ busy' = FALSE
  /\ UNCHANGED <<pending, cards, askThread, asked, minted, wire, up, active, history, counts>>

\* An error, or a cancel, ends the job wherever it is; the chat is told.  An
\* error event frees the root, an error frame leaves that to the heartbeat.
CutShort ==
  /\ job # Idle /\ job.stage # "tail"
  /\ Over /\ DropRow
  /\ busy' \in {FALSE, busy}
  /\ cutShort' = cutShort \cup {job.thread}
  /\ UNCHANGED <<pending, cards, askThread, asked, minted, wire, up, active, ran, okTaps,
                 seen, answered, later, abandoned, counts>>

\* A heartbeat of an idle worker clears the root, also while a verdict is on
\* its way to the worker.
Heartbeat_Silent == FALSE /\ UNCHANGED vars  \* mutant: status frames free nothing
Heartbeat ==
  /\ busy /\ job = Idle /\ up
  /\ busy' = FALSE
  /\ UNCHANGED <<durable, wire, job, up, active, history, counts>>

----------------------------------------------------------------------------
(* Faults. *)

Cut == IF job = Idle THEN cutShort ELSE cutShort \cup {job.thread}

\* The worker dies: no finally runs, what it had not read is gone.  The death hook frees the root,
\* unless it is skipped: a write that found the pipe broken has marked the handle already, or no
\* turn is in flight (a verdict never sets the marker) and the process exited with 0 or was not
\* reaped within the second _mark_dead waits for it.
WorkerDies ==
  /\ faults < MaxFaults /\ up
  /\ faults' = faults + 1
  /\ job' = Idle /\ wire' = {} /\ up' = FALSE
  /\ busy' \in {FALSE, busy}
  /\ cutShort' = Cut
  /\ UNCHANGED <<durable, active, ran, okTaps, seen, answered, later, abandoned,
                 prompted, taps>>

\* The gateway restarts: its workers end with it, and the durable rows are shown again.
GatewayRestarts ==
  /\ faults < MaxFaults
  /\ faults' = faults + 1
  /\ job' = Idle /\ wire' = {} /\ busy' = FALSE /\ up' = FALSE
  /\ cards' = cards \cup {r.token : r \in rows}
  /\ cutShort' = Cut
  /\ UNCHANGED <<pending, rows, askThread, asked, minted, active, ran, okTaps, seen,
                 answered, later, abandoned, prompted, taps>>

----------------------------------------------------------------------------

Worker ==
  \/ \E v \in wire : ReadVerdict(v)
  \/ Inspect \/ Park \/ EmitAsk \/ TailEnds \/ Answer \/ CommitTools
  \/ \E n \in 1..2 : ModelAsks(n)
  \/ ModelDone \/ CutShort

Next ==
  \/ Prompt \/ NewThread
  \/ \E k \in Tokens, ok \in BOOLEAN : Tap(k, ok)
  \/ Worker \/ Heartbeat
  \/ WorkerDies \/ GatewayRestarts

\* The worker's task and its heartbeat keep running; taps, prompts and faults
\* need not happen.
Spec == Init /\ [][Next]_vars /\ WF_vars(Worker) /\ WF_vars(Heartbeat)

----------------------------------------------------------------------------
(* Properties. *)

Rows == [token : Tokens, thread : Threads]

TypeOK ==
  /\ pending \in [Threads -> SUBSET Asks]
  /\ rows \subseteq Rows
  /\ cards \subseteq Tokens
  /\ busy \in BOOLEAN /\ up \in BOOLEAN
  /\ wire \subseteq [token : Tokens, ok : BOOLEAN]
  /\ \/ job = Idle
     \/ job \in [kind : {"turn", "resume"}, thread : Threads,
                 stage : {"inspect", "resolve", "parked", "tail", "tools", "model"},
                 token : Tokens \cup {None}, ok : BOOLEAN]
  /\ active \in Threads
  /\ ran \in [Asks -> Nat] /\ okTaps \in [Threads -> Nat]

\* A gated call never runs without an approving tap on a card of its thread,
\* and never more often than such taps were made: not on a deny, not on
\* silence, not because a row is found again after a crash or a restart.
RunsNeedTaps == \A a \in Asks : ran[a] <= okTaps[askThread[a]]

\* While no job works on a thread, a call suspended in its checkpoint has a
\* row to answer it by, unless a job on the thread was cut short.
SuspendedHasRow ==
  \A t \in Threads :
    (pending[t] # {} /\ (job = Idle \/ job.thread # t))
      => t \in cutShort \/ \E r \in rows : r.thread = t

\* Rows have tokens of their own, and no verdict names a token that was not minted.
TokensFresh ==
  /\ IsFiniteSet(wire)
  /\ minted \in 0..MaxTokens /\ asked \in 0..MaxAsks
  /\ \A r \in rows : r.token <= minted
  /\ \A q, r \in rows : q.token = r.token => q = r
  /\ \A v \in wire : v.token <= minted

\* Calls are numbered in the order they come up: what has not come up is not
\* pending and has not run, and a pending call belongs to its thread.
CallsInOrder ==
  /\ \A a \in Asks : a > asked => ran[a] = 0
  /\ \A t \in Threads : \A a \in pending[t] : a <= asked /\ askThread[a] = t

\* What the job's stage says about the checkpoint and the rows: the model
\* streams only with no call suspended, a parked turn has its row, and the row
\* of a resume is of the job's thread.
JobInv ==
  job # Idle =>
    /\ job.stage = "model" => pending[job.thread] = {}
    /\ job.stage \in {"parked", "tail"} =>
         /\ job.kind = "turn"
         /\ \E r \in rows : r.token = job.token /\ r.thread = job.thread
    /\ job.kind = "resume" => \A r \in rows : r.token = job.token => r.thread = job.thread

\* The approving verdicts of a thread that are on their way, and the one in
\* the hands of the job.
OnTheWire(t) == {v \in wire : v.ok /\ \E r \in rows : r.token = v.token /\ r.thread = t}
Resumes(t) == job # Idle /\ job.kind = "resume" /\ job.ok /\ job.thread = t
Unspent(a, t) == Resumes(t) /\ job.stage \in {"inspect", "resolve"} /\ a \in pending[t]

\* Taps pay for runs: the taps of a thread cover its verdicts under way, and
\* for each call also the runs it had and the one the job may still start.
TapsCover ==
  \A t \in Threads :
    /\ Cardinality(OnTheWire(t)) + (IF Resumes(t) THEN 1 ELSE 0) <= okTaps[t]
    /\ \A a \in Asks :
         askThread[a] = t =>
           ran[a] + Cardinality(OnTheWire(t)) + (IF Unspent(a, t) THEN 1 ELSE 0) <= okTaps[t]

\* What every step of the chat, the worker and the faults preserves.
ApprovalInv ==
  /\ TypeOK /\ askThread \in [Asks -> Threads]
  /\ TokensFresh /\ CallsInOrder /\ JobInv /\ TapsCover /\ SuspendedHasRow

\* A claimed root is freed again: also when the verdict is refused by the
\* worker or finds nothing to resume, and no event is sent for it.  Only a
\* worker that is gone without a word to the router may leave it claimed.
BusyClears == busy ~> (~busy \/ ~up)

\* A gated call that comes up in the stream of a resume parks again instead of
\* being answered by the verdict that started the resume.
LaterAskParksAgain == answered \cap later = {}

=============================================================================
