----------------------------- MODULE AgentTurn -----------------------------
(***************************************************************************)
(* One controller running turns on one thread: run_agent_turn with its     *)
(* retry policy (src/jarn/agent/turn_runner.py), SessionDriver.run_turn    *)
(* and its stream loop (src/jarn/agent/session.py), the budget of the cost *)
(* tracker, and the graph's checkpointed thread as the code uses it.  A    *)
(* turn may fail at any model call, wait for a verdict, be parked,         *)
(* cancelled, steered, verified and repaired, and leave its tool calls     *)
(* unanswered for the next turn to find: not asked about yet, asked about, *)
(* or approved with its tools still running.                               *)
(***************************************************************************)
EXTENDS Integers, Sequences, FiniteSets

CONSTANTS
  Candidates,       \* the length of the fallback chain, the primary being 1
  Provider,         \* the provider of each candidate
  HasKey,           \* the candidates whose key can be resolved
  Usages,           \* token counts <<input, output>> a model call may report
  Limit,            \* the session budget, a hard stop
  MaxRepairRounds,  \* verify.max_repair_rounds, with verify.gate auto
  MaxDiagRounds,    \* verify.diagnostics_max_rounds, with diagnostics auto
  MaxPrompts, MaxRounds, MaxSteers, MaxCancels,
  None

(* How a model call or a turn fails, and how a turn ends *)
Errors == {"retryable", "auth", "image", "fatal", "budget"}
Outcomes == {"done", "error", "parked", "cancelled"}

ASSUME TurnAssumption ==
  /\ Candidates \in Nat \ {0} /\ HasKey \subseteq 1 .. Candidates
  /\ DOMAIN Provider = 1 .. Candidates
  /\ Usages \subseteq Nat \X Nat
  /\ {Limit, MaxRepairRounds, MaxDiagRounds, MaxPrompts, MaxRounds,
      MaxSteers, MaxCancels} \subseteq Nat
  /\ None \notin Nat \cup Errors \cup Outcomes

VARIABLES
  pc,         \* what the turn does next
  thread,     \* the checkpointed messages
  call,       \* how far the tool call at the end of the thread has come
  candidate,  \* _candidate_idx
  att,        \* locals of run_agent_turn for the current attempt
  drv,        \* the SessionDriver of the current attempt
  slot,       \* the controller's steer slot
  spent,      \* what the tracker counted
  uncounted,  \* history: a call was charged for less than it reported
  chain,      \* _diag_chain_round
  followup,   \* a diagnostics follow-up waits in the input queue
  imagesOff,  \* inline_images_disabled
  outcome,    \* how the last turn ended
  edited,     \* history: edits that no verification has seen yet
  taken,      \* history: steers this turn took from the slot
  prompts, rounds, steers, cancels, followups

session == <<slot, chain, followup, imagesOff>>
counters == <<prompts, rounds, steers, cancels, followups>>
history == <<uncounted, edited, taken>>
vars == <<pc, thread, call, candidate, att, drv, session, spent, outcome, history, counters>>

-----------------------------------------------------------------------------
(* The thread *)

Msg(k, n) == [k |-> k, n |-> n]
Tag(k) == Msg(k, 0)
Ends(k) == thread # <<>> /\ thread[Len(thread)].k = k

(* The graph's own progress with the last tool call: no call waits for its
   result, its interrupt was not raised, it waits for a verdict, or its tools
   are to run *)
CallStates == {"none", "new", "asked", "approved"}

(* _pending_interrupts finds the interrupt of the last call *)
Pending == call = "asked"

(* _messages_settled refuses a thread that ends in a call, asked about or not *)
Unsettled == Ends("calls")

Positions(k) == {i \in DOMAIN thread : thread[i].k = k}

(* A call without its result *)
Open(i) == thread[i].k = "calls" /\ (i = Len(thread) \/ thread[i + 1].k # "result")

(* The driver's record of a fresh attempt *)
NewDriver(round) == [resumes |-> FALSE, dirty |-> FALSE, edits |-> FALSE, repairs |-> 0,
              held |-> FALSE, last |-> None, round |-> round]

NoAttempt == [resume |-> FALSE, pendingOnly |-> FALSE, image |-> FALSE, sent |-> FALSE,
              imageDone |-> FALSE, produced |-> FALSE, error |-> None,
              retried |-> FALSE, id |-> 0]

Init ==
  /\ pc = "idle" /\ thread = <<>> /\ call = "none" /\ candidate = 1
  /\ att = NoAttempt /\ drv = NewDriver(0)
  /\ slot = FALSE /\ spent = 0 /\ uncounted = FALSE
  /\ chain = 0 /\ followup = FALSE /\ imagesOff = FALSE
  /\ outcome = None /\ edited = "none" /\ taken = 0
  /\ prompts = 0 /\ rounds = 0 /\ steers = 0 /\ cancels = 0 /\ followups = 0

-----------------------------------------------------------------------------
(* The budget *)

(* CostTracker.should_stop, hard_stop configured *)
ShouldStop(s) == s >= Limit

Total(u) == u[1] + u[2]

(* record_usage: totals that did not shrink since the last report of the same
   stream are taken for a continuation of the same call *)
Charged(u) ==
  IF drv.last # None /\ (u[1] >= drv.last[1] /\ u[2] >= drv.last[2])
    THEN Total(u) - Total(drv.last)
    ELSE Total(u)

-----------------------------------------------------------------------------
(* run_agent_turn: a user line, a diagnostics follow-up, or the resumption of
   a parked call *)

Begin(a) ==
  /\ pc = "idle"
  /\ pc' = "attempt"
  /\ att' = a
  /\ outcome' = None
  /\ taken' = 0
  /\ UNCHANGED <<thread, call, candidate, drv, spent, imagesOff, uncounted, edited,
                 rounds, steers, cancels>>

SubmitLine(image) ==
  /\ ~slot /\ prompts < MaxPrompts
  /\ Begin([NoAttempt EXCEPT !.image = image, !.id = prompts + 1])
  /\ prompts' = prompts + 1
  /\ chain' = 0 /\ followup' = FALSE /\ followups' = 0
  /\ UNCHANGED slot

(* A steer that the turn did not take is the next prompt *)
RunLeftover ==
  /\ slot /\ prompts < MaxPrompts
  /\ Begin([NoAttempt EXCEPT !.id = prompts + 1])
  /\ prompts' = prompts + 1
  /\ slot' = FALSE
  /\ UNCHANGED <<chain, followup, followups>>

RunFollowup ==
  /\ ~slot /\ followup /\ prompts < MaxPrompts
  /\ Begin([NoAttempt EXCEPT !.id = prompts + 1])
  /\ prompts' = prompts + 1
  /\ followup' = FALSE /\ followups' = followups + 1
  /\ UNCHANGED <<slot, chain>>

ResumeParked ==
  /\ outcome = "parked"
  /\ Begin([NoAttempt EXCEPT !.pendingOnly = TRUE])
  /\ UNCHANGED <<slot, chain, followup, prompts, followups>>

(* run_agent_turn returns or is left by an exception; its driver is dropped,
   with what it still held *)
End(how) ==
  /\ pc' = "idle"
  /\ outcome' = how
  /\ drv' = NewDriver(0)
  /\ att' = [NoAttempt EXCEPT !.id = att.id, !.retried = att.retried]
  /\ edited' = IF how = "parked" /\ edited = "now" THEN "parked"
               ELSE IF how \in {"done", "parked"} THEN edited ELSE "none"

(* make_driver and the head of run_turn; an exhausted budget raises *)
Attempt ==
  /\ pc = "attempt"
  /\ IF ShouldStop(spent)
       THEN End("error")
       ELSE /\ drv' = NewDriver(chain)
            /\ att' = [att EXCEPT !.produced = FALSE, !.error = None,
                                  !.sent = att.image /\ ~att.resume /\ ~imagesOff]
            /\ pc' = "inspect" /\ UNCHANGED <<outcome, edited>>
  /\ UNCHANGED <<thread, call, candidate, session, spent, uncounted, taken, counters>>

Fails(e) == att' = [att EXCEPT !.error = e]

(* _pending_interrupts: what is parked is resolved before anything is sent *)
Inspect ==
  /\ pc = "inspect"
  /\ \/ Fails("fatal") /\ pc' = "policy" /\ UNCHANGED drv
     \/ /\ Pending
        /\ pc' = "gate" /\ drv' = [drv EXCEPT !.resumes = TRUE] /\ UNCHANGED att
     \/ /\ ~Pending
        /\ pc' = IF att.pendingOnly THEN "policy" ELSE "prompt"
        /\ UNCHANGED <<att, drv>>
  /\ UNCHANGED <<thread, call, candidate, session, spent, outcome, history, counters>>

(* The graph's input: nothing on a fallback retry, whose message is there.  It
   goes behind a call that has no result and no interrupt, and the graph then
   has nothing more to do for that call *)
Prompt ==
  /\ pc = "prompt"
  /\ thread' = IF att.resume THEN thread
               ELSE Append(thread, Msg(IF att.sent THEN "image" ELSE "human", att.id))
  /\ call' = IF att.resume THEN call ELSE "none"
  /\ pc' = "patch"
  /\ UNCHANGED <<candidate, att, drv, session, spent, outcome, history, counters>>

(* PatchToolCallsMiddleware of the graph, before the model sees the thread: a
   call without a result gets one.  The two are one message here, "patched" *)
PatchCalls ==
  /\ pc = "patch"
  /\ thread' = [i \in DOMAIN thread |-> IF Open(i) THEN Tag("patched") ELSE thread[i]]
  /\ call' = "none"
  /\ pc' = "stream"
  /\ UNCHANGED <<candidate, att, drv, session, spent, outcome, history, counters>>

-----------------------------------------------------------------------------
(* _stream_turn: the stream is in a model step unless a call is unanswered *)

(* Where the end of the stream leads *)
Over == IF drv.resumes /\ ~att.resume /\ ~att.pendingOnly THEN "after" ELSE "policy"

(* An updates chunk of the main graph: the driver takes a waiting steer *)
TakesSteer(b) ==
  /\ b => slot /\ ~drv.held
  /\ slot' = (slot /\ ~b)
  /\ taken' = IF b THEN taken + 1 ELSE taken

(* The provider fails, or a tool under way, before or after something was
   shown; an update of a node before that may have taken a steer already *)
ModelFails(e, shown, took) ==
  /\ pc = "stream"
  /\ TakesSteer(took)
  /\ drv' = [drv EXCEPT !.held = drv.held \/ took]
  /\ att' = [att EXCEPT !.error = e, !.produced = att.produced \/ shown]
  /\ pc' = Over
  /\ UNCHANGED <<thread, call, candidate, spent, chain, followup, imagesOff, outcome,
                 uncounted, edited, counters>>

Charge(u) ==
  /\ spent' = spent + Charged(u)
  /\ uncounted' = (uncounted \/ Charged(u) < Total(u))

StopsNow_AtTurnStart(s) == FALSE

(* The check after every message of the stream *)
StopsNow(s) == ShouldStop(s)

(* The budget is reached by this call: the stream is abandoned, and its step
   may not have been checkpointed, or may have, with its interrupt or without *)
ModelOverBudget(u, k, kept) ==
  /\ pc = "stream" /\ call = "none"
  /\ k = "text" => kept # "asked"
  /\ Charge(u) /\ StopsNow(spent + Charged(u))
  /\ thread' = IF kept = "none" THEN thread ELSE Append(thread, Tag(k))
  /\ call' = IF k = "calls" THEN kept ELSE "none"
  /\ drv' = [drv EXCEPT !.last = u]
  /\ att' = [att EXCEPT !.error = "budget", !.produced = TRUE]
  /\ pc' = Over
  /\ UNCHANGED <<candidate, session, outcome, edited, taken, counters>>

(* A model step completes and no steer waits *)
ModelReplies(u, k) ==
  /\ pc = "stream" /\ call = "none"
  /\ ~slot /\ ~drv.held
  /\ k = "calls" => rounds < MaxRounds
  /\ Charge(u) /\ ~StopsNow(spent + Charged(u))
  /\ rounds' = IF k = "calls" THEN rounds + 1 ELSE rounds
  /\ thread' = Append(thread, Tag(k))
  /\ call' = IF k = "calls" THEN "new" ELSE "none"
  /\ drv' = [drv EXCEPT !.last = u]
  /\ att' = [att EXCEPT !.produced = TRUE]
  /\ pc' = IF k = "calls" THEN "stream" ELSE "verify"
  /\ UNCHANGED <<candidate, session, outcome, edited, taken, prompts, steers, cancels, followups>>

HeldAfter_Dropped(settled) == FALSE

(* An unsettled boundary keeps the steer for the next model step *)
HeldAfter(settled) == ~settled

SteerSettled_Always(lagging) == TRUE

(* _steer_boundary_settled on the committed checkpoint, which may still miss
   the last tool results *)
SteerSettled(lagging) == ~lagging

(* A model step completes and a steer waits: the stream is closed, the step
   rolled back to the committed checkpoint, and the steer appended if that is a
   settled boundary.  Tools whose results were missing run again *)
ModelSteered(u, k, lagging) ==
  /\ pc = "stream" /\ call = "none"
  /\ slot \/ drv.held
  /\ lagging => Ends("result") /\ rounds < MaxRounds
  /\ Charge(u) /\ ~StopsNow(spent + Charged(u))
  /\ TakesSteer(slot /\ ~drv.held)
  /\ rounds' = IF lagging THEN rounds + 1 ELSE rounds
  /\ LET committed == IF lagging THEN SubSeq(thread, 1, Len(thread) - 1) ELSE thread IN
       thread' = IF SteerSettled(lagging) THEN Append(committed, Tag("steer")) ELSE committed
  /\ call' = IF lagging THEN "approved" ELSE "none"
  /\ drv' = [drv EXCEPT !.held = HeldAfter(SteerSettled(lagging)), !.last = u]
  /\ att' = [att EXCEPT !.produced = TRUE]
  /\ pc' = "stream"
  /\ UNCHANGED <<candidate, chain, followup, imagesOff, outcome, edited,
                 prompts, steers, cancels, followups>>

(* The middleware's update carries the whole thread: with a reply in it, it is
   taken for a model step, and a waiting steer goes behind the prompt before
   the call is patched *)
PatchSteered ==
  /\ pc = "patch"
  /\ slot \/ drv.held
  /\ \E k \in {"calls", "patched", "text"} : Positions(k) # {}
  /\ TakesSteer(slot /\ ~drv.held)
  /\ thread' = IF Unsettled THEN thread ELSE Append(thread, Tag("steer"))
  /\ drv' = [drv EXCEPT !.held = HeldAfter(~Unsettled)]
  /\ att' = [att EXCEPT !.produced = @ \/ ~Unsettled]
  /\ UNCHANGED <<pc, call, candidate, spent, chain, followup, imagesOff, outcome,
                 uncounted, edited, counters>>

(* A new call of a gated tool raises its interrupt, and the stream ends *)
Interrupted(took) ==
  /\ pc = "stream" /\ call = "new"
  /\ TakesSteer(took)
  /\ drv' = [drv EXCEPT !.held = drv.held \/ took]
  /\ call' = "asked"
  /\ pc' = "gate"
  /\ UNCHANGED <<thread, candidate, att, spent, chain, followup, imagesOff, outcome,
                 uncounted, edited, counters>>

(* resolve_interrupts and the resume, with or without something to show *)
Approve(shown) ==
  /\ pc = "gate"
  /\ call' = "approved"
  /\ att' = [att EXCEPT !.produced = @ \/ shown]
  /\ pc' = "stream"
  /\ UNCHANGED <<thread, candidate, drv, session, spent, outcome, history, counters>>

Reject(took) ==
  /\ pc = "gate"
  /\ TakesSteer(took)
  /\ drv' = [drv EXCEPT !.held = drv.held \/ took]
  /\ thread' = Append(thread, Tag("result"))
  /\ call' = "none"
  /\ att' = [att EXCEPT !.produced = TRUE]
  /\ pc' = "stream"
  /\ UNCHANGED <<candidate, spent, chain, followup, imagesOff, outcome, uncounted, edited,
                 counters>>

(* The tools of an approved call, or of one that needs no approval, end and
   their result is committed; write_file and edit_file, which are always asked
   about, mark the turn for verification *)
RunTools(edit, took) ==
  /\ pc = "stream"
  /\ call = "approved" \/ (call = "new" /\ ~edit)
  /\ TakesSteer(took)
  /\ drv' = [drv EXCEPT !.held = drv.held \/ took,
                        !.dirty = drv.dirty \/ edit, !.edits = drv.edits \/ edit]
  /\ thread' = Append(thread, Tag("result"))
  /\ call' = "none"
  /\ att' = [att EXCEPT !.produced = TRUE]
  /\ edited' = IF edit THEN "now" ELSE edited
  /\ UNCHANGED <<pc, candidate, spent, chain, followup, imagesOff, outcome, uncounted, counters>>

(* ApprovalParked leaves run_turn *)
Park ==
  /\ pc = "gate"
  /\ End("parked")
  /\ UNCHANGED <<thread, call, candidate, session, spent, uncounted, taken, counters>>

-----------------------------------------------------------------------------
(* A reply without tool calls: verification, repair, diagnostics, DONE *)

MayRepair(d) == d.repairs < MaxRepairRounds

DirtyAfterRepair_Reset(d) == FALSE

(* Verified again even if the repair edits nothing *)
DirtyAfterRepair(d) == TRUE

(* verify_after_edit: passed, failed, or not run because it was refused.  A
   project without a verification command counts as passed *)
VerifyPasses ==
  /\ pc = "verify" /\ drv.dirty
  /\ drv' = [drv EXCEPT !.dirty = FALSE]
  /\ edited' = "none"
  /\ UNCHANGED <<pc, thread, call, candidate, att, session, spent, outcome, uncounted, taken, counters>>

VerifyFails(refused) ==
  /\ pc = "verify" /\ drv.dirty
  /\ IF ~refused /\ MayRepair(drv)
       THEN /\ drv' = [drv EXCEPT !.repairs = @ + 1,
                                 !.dirty = DirtyAfterRepair(drv)]
            /\ thread' = Append(thread, Tag("repair"))
            /\ pc' = "stream" /\ UNCHANGED att
       ELSE /\ drv' = [drv EXCEPT !.dirty = FALSE]
            /\ Fails("fatal") /\ pc' = Over /\ UNCHANGED thread
  /\ UNCHANGED <<call, candidate, session, spent, outcome, history, counters>>

(* The round counter moves before the follow-up runs *)
Bumped(c) == c + 1

Done(errors) ==
  /\ pc = "verify" /\ ~drv.dirty
  /\ errors => drv.edits
  /\ IF errors /\ drv.round < MaxDiagRounds
       THEN chain' = Bumped(chain) /\ followup' = TRUE
       ELSE UNCHANGED <<chain, followup>>
  /\ pc' = Over
  /\ UNCHANGED <<thread, call, candidate, att, drv, slot, imagesOff, spent, outcome, history, counters>>

(* After a resumed approval the typed prompt follows, unless a call is still
   pending or the state cannot be read *)
After ==
  /\ pc = "after"
  /\ \/ Fails("fatal") /\ pc' = "policy" /\ UNCHANGED drv
     \/ /\ ~Pending
        /\ drv' = [NewDriver(drv.round) EXCEPT !.held = drv.held]
        /\ pc' = "prompt" /\ UNCHANGED att
  /\ UNCHANGED <<thread, call, candidate, session, spent, outcome, history, counters>>

-----------------------------------------------------------------------------
(* The policy of run_agent_turn once the driver is done *)

Succeed ==
  /\ pc = "policy" /\ att.error = None
  /\ candidate' = 1
  /\ End("done")
  /\ UNCHANGED <<thread, call, session, spent, uncounted, taken, counters>>

LastPrompt == CHOOSE i \in Positions("image") : \A j \in Positions("image") : j <= i

RetriesTextOnly == att.sent /\ ~att.imageDone /\ ~att.produced /\ att.error = "image"

(* The image is refused: the message is removed if that can be done, and the
   text sent again; images stay off for the session.  A message that could not
   be removed is marked as refused, for the properties only. *)
RetryTextOnly(removed) ==
  /\ pc = "policy" /\ RetriesTextOnly
  /\ imagesOff' = TRUE
  /\ thread' = IF removed
                 THEN [i \in 1 .. Len(thread) - 1 |->
                         thread[IF i < LastPrompt THEN i ELSE i + 1]]
                 ELSE [thread EXCEPT ![LastPrompt].k = "refused"]
  /\ att' = [att EXCEPT !.imageDone = TRUE, !.resume = FALSE, !.retried = TRUE]
  /\ pc' = "attempt"
  /\ UNCHANGED <<call, candidate, drv, slot, chain, followup, spent, outcome, history, counters>>

(* Later candidates on a different provider with a key *)
Viable == {c \in HasKey : c > candidate /\ Provider[c] # Provider[candidate]}

NextCandidates_Wraps ==
  IF att.error = "retryable" THEN {(candidate % Candidates) + 1} ELSE {}

(* rotate_to_fallback, rotate_to_keyed_fallback: where the cursor may go *)
NextCandidates ==
  IF att.error = "retryable" THEN {candidate + 1} \cap (1 .. Candidates)
  ELSE IF att.error = "auth"
    THEN {c \in Viable : \A d \in Viable : c <= d}
  ELSE {}

ResumesRetry_Never == FALSE
ResumesRetry == TRUE

(* Rotation; the runtime of the new model may fail to build *)
RetryOnFallback(builds) ==
  /\ pc = "policy" /\ att.error # None /\ ~RetriesTextOnly /\ ~att.produced
  /\ \E c \in NextCandidates : candidate' = c
  /\ IF builds
       THEN /\ att' = [att EXCEPT !.resume = ResumesRetry, !.retried = TRUE]
            /\ pc' = "attempt" /\ UNCHANGED <<drv, outcome, edited>>
       ELSE End("error")
  /\ UNCHANGED <<thread, call, session, spent, uncounted, taken, counters>>

GiveUp ==
  /\ pc = "policy" /\ att.error # None /\ ~RetriesTextOnly
  /\ ~(~att.produced /\ NextCandidates # {})
  /\ End("error")
  /\ UNCHANGED <<thread, call, candidate, session, spent, uncounted, taken, counters>>

(* The task is cancelled at any await, and a waiting steer dropped *)
Cancel ==
  /\ pc # "idle" /\ cancels < MaxCancels
  /\ cancels' = cancels + 1
  /\ slot' = FALSE
  /\ End("cancelled")
  /\ UNCHANGED <<thread, call, candidate, chain, followup, imagesOff, spent, uncounted, taken,
                 prompts, rounds, steers, followups>>

(* A line typed while the turn runs, in steer mode; it replaces one that waits *)
Steer ==
  /\ pc # "idle" /\ steers < MaxSteers
  /\ slot' = TRUE
  /\ steers' = steers + 1
  /\ UNCHANGED <<pc, thread, call, candidate, att, drv, chain, followup, imagesOff, spent,
                 outcome, history, prompts, rounds, cancels, followups>>

ModelStep ==
  /\ pc = "stream"
  /\ \/ \E e \in {"retryable", "auth", "image", "fatal"}, shown, took \in BOOLEAN :
          ModelFails(e, shown, took)
     \/ \E u \in Usages, k \in {"calls", "text"} :
          \/ \E kept \in {"none", "new", "asked"} : ModelOverBudget(u, k, kept)
          \/ ModelReplies(u, k)
          \/ \E lagging \in BOOLEAN : ModelSteered(u, k, lagging)

TurnStep ==
  \/ Attempt \/ Inspect \/ Prompt \/ PatchCalls \/ PatchSteered \/ ModelStep
  \/ \E b \in BOOLEAN : Interrupted(b) \/ Approve(b) \/ Reject(b)
  \/ \E edit, took \in BOOLEAN : RunTools(edit, took)
  \/ Park \/ VerifyPasses
  \/ \E b \in BOOLEAN : VerifyFails(b) \/ Done(b) \/ RetryTextOnly(b) \/ RetryOnFallback(b)
  \/ After \/ Succeed \/ GiveUp

Next ==
  \/ \E image \in BOOLEAN : SubmitLine(image)
  \/ RunLeftover \/ RunFollowup \/ ResumeParked \/ TurnStep \/ Cancel \/ Steer

(* The event loop keeps running the turn, and a card is answered *)
Spec == Init /\ [][Next]_vars /\ WF_vars(TurnStep)

-----------------------------------------------------------------------------
(* Properties *)

Kinds == {"human", "image", "refused", "calls", "patched", "text", "result", "steer", "repair"}

Messages == [k : Kinds, n : 0 .. MaxPrompts]

Attempts == [resume : BOOLEAN, pendingOnly : BOOLEAN, image : BOOLEAN, sent : BOOLEAN,
             imageDone : BOOLEAN, produced : BOOLEAN, error : Errors \cup {None},
             retried : BOOLEAN, id : 0 .. MaxPrompts]

Drivers == [resumes : BOOLEAN, dirty : BOOLEAN, edits : BOOLEAN,
            repairs : 0 .. MaxRepairRounds, held : BOOLEAN, last : Usages \cup {None},
            round : Nat]

(* Every variable keeps its type; in particular the fallback cursor stays
   within the chain. *)
TypeOK ==
  /\ pc \in {"idle", "attempt", "inspect", "prompt", "patch", "stream", "gate", "verify",
             "after", "policy"}
  /\ thread \in Seq(Messages) /\ call \in CallStates
  /\ candidate \in 1 .. Candidates
  /\ att \in Attempts /\ drv \in Drivers
  /\ {slot, followup, imagesOff, uncounted} \subseteq BOOLEAN
  /\ spent \in Nat /\ chain \in Nat /\ taken \in Nat
  /\ outcome \in Outcomes \cup {None}
  /\ edited \in {"none", "now", "parked"}
  /\ prompts \in 0 .. MaxPrompts /\ followups \in Nat
  /\ rounds \in Nat /\ steers \in Nat /\ cancels \in Nat

Copies(n) == {i \in Positions("human") \cup Positions("image") : thread[i].n = n}

(* Whatever failed and was retried, on the same model without its images or
   on other models, a prompt is in the thread at most once, and exactly once
   when its turn succeeds.  A refused image message that could not be removed
   is not counted. *)
PromptOnce ==
  /\ \A n \in 1 .. prompts : Cardinality(Copies(n)) <= 1
  /\ (pc = "idle" /\ outcome = "done" /\ att.id # 0) => Copies(att.id) # {}

(* No model call sees a tool call without its result, and no steer or repair
   request is put between the two, also when the checkpoint at which the stream
   was closed still missed the results (_steer_boundary_settled).  A prompt is
   never put over a call that waits for a verdict (_pending_interrupts).  It
   does go behind a call whose turn was cancelled or failed before its interrupt
   was raised or while its tools ran; there the graph's middleware answers the
   call before the model runs. *)
CallsAnswered ==
  /\ \A i \in DOMAIN thread :
       (thread[i].k = "calls" /\ i < Len(thread)) => thread[i + 1].k \in {"result", "human", "image"}
  /\ (pc = "stream" /\ call = "none") => \A i \in DOMAIN thread : ~Open(i)
  /\ pc = "prompt" => ~Pending

(* verify.gate auto is a completion contract: a turn that reports success has
   passed a verification after its last edit, repairs included, or the project
   has no verification command.  Edits of a turn that was parked in between are
   the exception: the driver that resumes it does not know of them. *)
DoneIsVerified == (pc = "idle" /\ outcome = "done") => edited # "now"

(* A steer the driver took from the slot is in the thread when the turn
   reports success, also when its boundary was not settled at first.  The
   exception is a turn that was retried on another driver. *)
SteerKept ==
  (pc = "idle" /\ outcome = "done" /\ ~att.retried /\ taken > 0) =>
     Cardinality(Positions("steer")) >= taken

(* A line of the user is followed by no more automatic fix rounds than
   diagnostics_max_rounds, also when the rounds find new errors. *)
DiagBounded == followups + (IF followup THEN 1 ELSE 0) <= MaxDiagRounds

(* No model call starts once the tracker has reached a hard budget, in the
   middle of a turn as at its start.  The exception is the typed prompt after
   a resumed approval that ran into the budget: run_turn sends it. *)
HardStop ==
  (pc = "stream" /\ call = "none" /\ ShouldStop(spent)) => att.error = "budget"

(* What every step preserves: the types and the two limits, on rounds and on
   spending, that a turn may not pass. *)
TurnInv == TypeOK /\ DiagBounded /\ HardStop

(* The rest of this section is what the proofs need to know between the steps
   of a turn. *)

Prompted == Positions("human") \cup Positions("image")

(* The driver works, or its stream is over *)
Streaming == pc \in {"patch", "stream", "gate", "verify"}

(* The prompt of this turn was not given to the graph yet: its driver has not
   come to it, or first resumes a parked call *)
Unsent ==
  /\ ~att.resume /\ ~att.pendingOnly
  /\ \/ pc \in {"attempt", "inspect", "prompt", "after"}
     \/ Streaming /\ drv.resumes

(* It was, and a retry or a success may rely on it *)
Delivered ==
  /\ ~att.pendingOnly
  /\ \/ pc \in {"attempt", "inspect", "prompt"} /\ att.resume
     \/ Streaming /\ (att.resume \/ ~drv.resumes)
     \/ pc = "policy" /\ att.error # "fatal"

(* Prompts are in the thread in the order of their numbers *)
PromptsOrdered ==
  /\ \A i, j \in Prompted : i < j => thread[i].n < thread[j].n
  /\ \A i \in Prompted : thread[i].n <= prompts

(* What is known of the prompt of the turn, and of its driver on the way to it *)
PromptInv ==
  /\ PromptsOrdered
  /\ pc # "idle" /\ ~att.pendingOnly => att.id = prompts
  /\ pc # "idle" /\ att.pendingOnly => att.id = 0 /\ ~att.image /\ ~att.sent
  /\ pc \in {"inspect", "prompt", "patch"} => ~drv.resumes
  /\ pc \in {"prompt", "patch"} => ~att.pendingOnly
  /\ pc = "after" => drv.resumes /\ ~att.resume /\ ~att.pendingOnly
  /\ Unsent => \A i \in Prompted : thread[i].n # att.id
  /\ Delivered =>
       \E i \in Prompted : thread[i].n = att.id /\ (att.sent => thread[i].k = "image")
  /\ pc = "idle" /\ outcome = "done" /\ att.id # 0 => \E i \in Prompted : thread[i].n = att.id

(* Every call but the last message has its result *)
Answered == \A i \in DOMAIN thread : i < Len(thread) => ~Open(i)

(* A result is behind its call *)
ResultsFollow == \A i \in Positions("result") : i > 1 /\ thread[i - 1].k = "calls"

(* The thread ends in a call as long as the graph has to do with it; calls
   without a result are patched before anything else happens to the thread *)
ThreadInv ==
  /\ CallsAnswered /\ ResultsFollow
  /\ Unsettled <=> call # "none"
  /\ pc = "gate" => Pending
  /\ pc \in {"stream", "gate", "verify", "after"} \/ call # "none" => Answered
  /\ pc = "policy" /\ att.error = "image" => Answered
  /\ pc = "inspect" => att.error = None
  /\ pc = "verify" => call = "none"

(* An edit nobody verified is in the driver's mind, or the turn has failed and
   cannot be retried *)
EditInv ==
  edited = "now" =>
    /\ pc \notin {"idle", "attempt", "inspect"} /\ att.produced
    /\ att.error # None \/ (Streaming /\ drv.dirty)

(* The steers taken are in the thread, but for one the driver still holds *)
SteerInv ==
  /\ pc # "idle" /\ ~att.retried =>
       taken <= Cardinality(Positions("steer")) + (IF drv.held THEN 1 ELSE 0)
  /\ pc = "attempt" /\ ~att.retried => taken = 0
  /\ drv.held => pc \in {"idle", "attempt", "patch", "stream", "gate"} \/ att.error # None
  /\ pc \in {"inspect", "verify"} => ~drv.held
  /\ SteerKept

(* A driver that starts or resumes has not reached the budget; one that has
   knows it *)
BudgetInv ==
  /\ pc = "inspect" \/ (Streaming /\ drv.resumes) => ~ShouldStop(spent)
  /\ (pc \in {"prompt", "after"} \/ Streaming) /\ ShouldStop(spent) => att.error = "budget"

(* The round of the driver is not behind the follow-ups that were run *)
RoundInv ==
  /\ followups + (IF followup THEN 1 ELSE 0) <= chain
  /\ pc \notin {"idle", "attempt"} => followups <= drv.round
  /\ DiagBounded

(* The inductive invariant of a turn *)
AgentInv ==
  TypeOK /\ PromptInv /\ ThreadInv /\ EditInv /\ SteerInv /\ BudgetInv /\ RoundInv

(* Every turn ends: retries, repairs, steers and re-raised interrupts do not
   go round for ever. *)
TurnEnds == []<>(pc = "idle")

(* The tracker counts what the calls cost: it "accumulates usage across the
   main loop and all subagents" (src/jarn/cost/tracker.py:3). TLC refutes it: README, 6. *)
UsageCounted == ~uncounted
=============================================================================
