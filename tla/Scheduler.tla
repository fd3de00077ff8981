----------------------------- MODULE Scheduler -----------------------------
(***************************************************************************)
(* The gateway's scheduled jobs (src/jarn/gateway/scheduler.py): the job   *)
(* store, the schedule_task tool that edits it from the worker processes,  *)
(* the tick that turns due jobs into turns in the daemon, and the          *)
(* active-delivery file that tells a worker which chat its turn belongs    *)
(* to.  Every access to the two files is under a file lock and is one      *)
(* step; the clock is read before the lock is taken and is a step of its   *)
(* own.  Time is counted in seconds; the calendar is given by constants so *)
(* that its fields roll over within a short run.                           *)
(***************************************************************************)
EXTENDS Integers, Sequences, FiniteSetsExt

CONSTANTS Chats, Roots, JobIds,
          Personal,           \* the root a job runs on unless it names another
          Crons,              \* the cron expressions that are asked for
          Delays,             \* distances into the future of one-shot jobs
          SecondsPerMinute, MinutesPerHour, HoursPerDay, DaysPerMonth,
          MonthsPerYear, DaysPerWeek,
          SearchLimit,        \* minutes next_cron_after looks ahead (two years)
          MaxTime, MaxTurns, MaxAsks, MaxFaults,
          None

ASSUME CalendarAssumption ==
  /\ {SecondsPerMinute, MinutesPerHour, HoursPerDay, DaysPerMonth,
      MonthsPerYear, DaysPerWeek} \subseteq (Nat \ {0})
  /\ SearchLimit \in Nat /\ MaxTime \in Nat /\ MaxTurns \in Nat
  /\ MaxAsks \in Nat /\ MaxFaults \in Nat
  /\ Delays \subseteq Nat
  /\ Personal \in Roots
  /\ None \notin Chats \cup Crons \cup Nat

VARIABLES
  clock,      \* what utcnow() returns
  jobs,       \* jobs.json: the row of each job id, or None
  minted,     \* the ids mint_job_id has returned
  delivery,   \* active_delivery.json: the chat of each root, or None
  turn,       \* the turn on each root: _busy_roots and _root_owner, or None
  queue,      \* _queues: the chats of the turns waiting for each root
  reader,     \* where the reader thread of each root is in _clear_busy_and_drain
  parked,     \* the schedule_task call of each root that waits for a verdict
  call,       \* the tool call on each root between reading the clock and the lock
  tick,       \* the clock read of a running run_due, or None
  due,        \* works run_due returned that are not submitted yet
  turns,      \* user messages sent so far
  asks,       \* schedule_task calls proposed so far
  faults,     \* crashes and failed submissions so far
  rearmed     \* history: jobs enabled with a clock read before their last run

vars == <<clock, jobs, minted, delivery, turn, queue, reader, parked, call,
          tick, due, turns, asks, faults, rearmed>>
router == <<delivery, turn, queue, reader, parked>>

-----------------------------------------------------------------------------
(* The calendar and the cron expressions *)

Minute(n) == n % MinutesPerHour
Hour(n) == (n \div MinutesPerHour) % HoursPerDay
DayNumber(n) == n \div (MinutesPerHour * HoursPerDay)
Day(n) == 1 + (DayNumber(n) % DaysPerMonth)
Month(n) == 1 + ((DayNumber(n) \div DaysPerMonth) % MonthsPerYear)
Weekday(n) == DayNumber(n) % DaysPerWeek

(* CronExpr.matches: both day fields restricted means either may match *)
Matches(cron, n) ==
  LET anyDay == cron.day = 1 .. DaysPerMonth
      anyWeekday == cron.dow = 0 .. DaysPerWeek
      dayOk == Day(n) \in cron.day
      weekdayOk == \/ Weekday(n) \in cron.dow
                   \/ Weekday(n) = 0 /\ DaysPerWeek \in cron.dow
  IN  /\ Minute(n) \in cron.minute
      /\ Hour(n) \in cron.hour
      /\ Month(n) \in cron.month
      /\ IF anyDay \/ anyWeekday
           THEN (anyDay \/ dayOk) /\ (anyWeekday \/ weekdayOk)
           ELSE dayOk \/ weekdayOk

FirstMinute(after) == 1 + (after \div SecondsPerMinute)

(* next_cron_after: the first match among the minutes after `after`, or none
   within the search *)
NextCron(cron, after) ==
  LET hits == {k \in 0 .. SearchLimit - 1 : Matches(cron, FirstMinute(after) + k)}
  IN  IF hits = {} THEN None
      ELSE (FirstMinute(after) + Min(hits)) * SecondsPerMinute

NoPlan == [cron |-> None, at |-> None]

(* compute_next_run: None for a one-shot in the past and for a failed search *)
NextRun(plan, after) ==
  IF plan.cron # None THEN NextCron(plan.cron, after)
  ELSE IF plan.at > after THEN plan.at ELSE None

Plans == {[cron |-> c, at |-> None] : c \in Crons}
         \cup {[cron |-> None, at |-> clock + d] : d \in Delays}

-----------------------------------------------------------------------------
(* The delivery hint and the turns on the roots *)

Hinted == {r \in Roots : delivery[r] # None}

(* get_active_delivery(default_root), then get_active_delivery() *)
Hint(r) ==
  IF delivery[r] # None THEN delivery[r]
  ELSE IF Cardinality(Hinted) = 1 THEN delivery[CHOOSE q \in Hinted : TRUE]
  ELSE None

Busy(r) == turn[r] # None

(* _dispatch: the hint is written, then the frame is sent *)
Dispatch(r, c) ==
  /\ turn' = [turn EXCEPT ![r] = [chat |-> c, asks |-> None, resumed |-> FALSE]]
  /\ delivery' = [delivery EXCEPT ![r] = c]

(* submit_turn in queue mode *)
Submit(r, c) ==
  IF Busy(r)
    THEN queue' = [queue EXCEPT ![r] = Append(@, c)] /\ UNCHANGED <<turn, delivery>>
    ELSE Dispatch(r, c) /\ UNCHANGED queue

(* _clear_busy_and_drain, first lock section *)
Release(r) ==
  /\ turn' = [turn EXCEPT ![r] = None]
  /\ reader' = [reader EXCEPT ![r] = IF queue[r] = <<>> THEN "clear" ELSE "drain"]

Init ==
  /\ clock = 0
  /\ jobs = [j \in JobIds |-> None]
  /\ minted = {}
  /\ delivery = [r \in Roots |-> None]
  /\ turn = [r \in Roots |-> None]
  /\ queue = [r \in Roots |-> <<>>]
  /\ reader = [r \in Roots |-> "idle"]
  /\ parked = [r \in Roots |-> None]
  /\ call = [r \in Roots |-> None]
  /\ tick = None /\ due = {}
  /\ turns = 0 /\ asks = 0 /\ faults = 0
  /\ rearmed = {}

Advance ==
  /\ clock < MaxTime
  /\ clock' = clock + 1
  /\ UNCHANGED <<jobs, minted, router, call, tick, due, turns, asks, faults, rearmed>>

Message(r, c) ==
  /\ turns < MaxTurns
  /\ turns' = turns + 1
  /\ Submit(r, c)
  /\ UNCHANGED <<clock, jobs, minted, reader, parked, call, tick, due, asks, faults, rearmed>>

(* The model calls schedule_task to create, remove, enable or disable a job.
   The call is never allowed silently: the gateway's approver parks it, and
   the ask releases the root.  (A resumed turn is answered by its verdict and
   does not park again.) *)
Ask(r, what) ==
  /\ Busy(r) /\ ~turn[r].resumed
  /\ parked[r] = None /\ reader[r] = "idle"
  /\ asks < MaxAsks
  /\ asks' = asks + 1
  /\ parked' = [parked EXCEPT ![r] = [chat |-> turn[r].chat, what |-> what]]
  /\ Release(r)
  /\ UNCHANGED <<clock, jobs, minted, delivery, queue, call, tick, due, turns, faults, rearmed>>

(* claim_approval_resume and the resumed turn; a declined call just ends *)
Approve(r) ==
  /\ parked[r] # None /\ ~Busy(r)
  /\ turn' = [turn EXCEPT ![r] =
       [chat |-> parked[r].chat, asks |-> parked[r].what, resumed |-> TRUE]]
  /\ parked' = [parked EXCEPT ![r] = None]
  /\ UNCHANGED <<clock, jobs, minted, delivery, queue, reader, call, tick, due, turns, asks, faults, rearmed>>

Finish(r) ==
  /\ Busy(r) /\ call[r] = None /\ turn[r].asks = None
  /\ reader[r] = "idle"
  /\ Release(r)
  /\ UNCHANGED <<clock, jobs, minted, delivery, queue, parked, call, tick, due, turns, asks, faults, rearmed>>

(* The rest of _clear_busy_and_drain: the hint goes if nothing was queued at
   the release, then drain_queue sends the next turn if the root is free *)
ClearAndDrain(r) ==
  /\ reader[r] # "idle"
  /\ reader' = [reader EXCEPT ![r] = "idle"]
  /\ IF Busy(r) \/ queue[r] = <<>>
       THEN /\ delivery' = [delivery EXCEPT ![r] = IF reader[r] = "clear" THEN None ELSE @]
            /\ UNCHANGED <<turn, queue>>
       ELSE /\ Dispatch(r, Head(queue[r]))
            /\ queue' = [queue EXCEPT ![r] = Tail(@)]
  /\ UNCHANGED <<clock, jobs, minted, parked, call, tick, due, turns, asks, faults, rearmed>>

-----------------------------------------------------------------------------
(* The tool call in the worker.  It reads the hint and the clock first. *)

Answered(r) == [turn EXCEPT ![r].asks = None]

(* No chat to deliver to, or no time to run at *)
Refused(r, next) == Hint(r) = None \/ next = None

(* schedule_tool_call create up to the lock in add: without a chat, or with a
   plan that has no next run, the call ends with an error *)
BeginCreate(r) ==
  /\ Busy(r) /\ call[r] = None
  /\ turn[r].asks # None /\ turn[r].asks.op = "create"
  /\ LET plan == turn[r].asks.plan
         next == NextRun(plan, clock)
     IN  IF Refused(r, next)
           THEN turn' = Answered(r) /\ UNCHANGED <<call, minted>>
           ELSE \E j \in JobIds \ minted :
                  /\ minted' = minted \cup {j}
                  /\ call' = [call EXCEPT ![r] =
                       [op |-> "create", id |-> j, stamp |-> clock,
                        row |-> [plan |-> plan, chat |-> Hint(r), enabled |-> TRUE,
                                 last |-> None, next |-> next,
                                 home |-> turn[r].chat]]]
                  /\ UNCHANGED turn
  /\ UNCHANGED <<clock, jobs, delivery, queue, reader, parked, tick, due, turns, asks, faults, rearmed>>

BeginChange(r) ==
  /\ Busy(r) /\ call[r] = None
  /\ turn[r].asks # None /\ turn[r].asks.op # "create"
  /\ call' = [call EXCEPT ![r] = [op |-> turn[r].asks.op, id |-> turn[r].asks.id,
                                  stamp |-> clock, row |-> None]]
  /\ UNCHANGED <<clock, jobs, minted, router, tick, due, turns, asks, faults, rearmed>>

(* enable: recomputed from the clock read before the lock; a one-shot that is
   past by then is an error and changes nothing *)
Enabled(row, stamp) ==
  LET next == NextRun(row.plan, stamp)
  IN  IF next = None THEN row
      ELSE [row EXCEPT !.enabled = TRUE, !.next = next]

(* The row a call leaves behind *)
Edited(c) ==
  IF c.op = "create" THEN c.row
  ELSE IF jobs[c.id] = None \/ c.op = "remove" THEN None
  ELSE IF c.op = "disable" THEN [jobs[c.id] EXCEPT !.enabled = FALSE]
  ELSE Enabled(jobs[c.id], c.stamp)

(* The locked section of add, remove and enable *)
Commit(r) ==
  /\ call[r] # None
  /\ jobs' = [jobs EXCEPT ![call[r].id] = Edited(call[r])]
  /\ rearmed' = IF /\ call[r].op = "enable"
                   /\ jobs[call[r].id] # None
                   /\ jobs[call[r].id].last # None
                   /\ call[r].stamp < jobs[call[r].id].last
                  THEN rearmed \cup {call[r].id} ELSE rearmed
  /\ call' = [call EXCEPT ![r] = None]
  /\ turn' = Answered(r)
  /\ UNCHANGED <<clock, minted, delivery, queue, reader, parked, tick, due, turns, asks, faults>>

-----------------------------------------------------------------------------
(* The tick in the daemon *)

IsDue(row, stamp) ==
  row # None /\ (row.enabled /\ row.next # None /\ row.next <= stamp)

TickStart ==
  /\ tick = None /\ due = {}
  /\ tick' = clock
  /\ UNCHANGED <<clock, jobs, minted, router, call, due, turns, asks, faults, rearmed>>

Fired_FromSlot(row, stamp) ==
  IF row.plan.cron # None
    THEN [row EXCEPT !.last = stamp, !.next = NextRun(row.plan, row.next)]
    ELSE [row EXCEPT !.last = stamp, !.next = None, !.enabled = FALSE]

(* What run_due writes back for a job that fires *)
Fired(row, stamp) ==
  IF row.plan.cron # None
    THEN [row EXCEPT !.last = stamp, !.next = NextRun(row.plan, stamp)]
    ELSE [row EXCEPT !.last = stamp, !.next = None, !.enabled = FALSE]

DueJobs(stamp) == {j \in JobIds : IsDue(jobs[j], stamp)}

(* A due cron job whose next run cannot be found raises out of run_due *)
Raises(stamp) ==
  \E j \in DueJobs(stamp) :
     jobs[j].plan.cron # None /\ NextRun(jobs[j].plan, stamp) = None

Works_First(js) ==
  IF js = {} THEN {} ELSE {LET j == CHOOSE j \in js : TRUE IN [id |-> j, chat |-> jobs[j].chat]}

(* One DueWork for each job, with the chat it delivers to *)
Works(js) == {[id |-> j, chat |-> jobs[j].chat] : j \in js}

(* run_due under the lock; an exception leaves the store as it was *)
RunDue ==
  /\ tick # None
  /\ tick' = None
  /\ IF Raises(tick)
       THEN UNCHANGED <<jobs, due>>
       ELSE /\ jobs' = [j \in JobIds |-> IF j \in DueJobs(tick)
                                           THEN Fired(jobs[j], tick) ELSE jobs[j]]
            /\ due' = Works(DueJobs(tick))
  /\ UNCHANGED <<clock, minted, router, call, turns, asks, faults, rearmed>>

(* dispatch_due: one submission; the rows are in the order of their random
   ids, so any work may be first.  The job runs
   on the root it was stored with, here always the default one. *)
SubmitDue(w) ==
  /\ w \in due
  /\ due' = due \ {w}
  /\ Submit(Personal, w.chat)
  /\ UNCHANGED <<clock, jobs, minted, reader, parked, call, tick, turns, asks, faults, rearmed>>

(* The worker of the root cannot be started: the hint is already written, the
   exception leaves dispatch_due, and the works behind this one are dropped *)
SubmitFails(w) ==
  /\ faults < MaxFaults
  /\ faults' = faults + 1
  /\ w \in due /\ ~Busy(Personal)
  /\ due' = {}
  /\ delivery' = [delivery EXCEPT ![Personal] = w.chat]
  /\ UNCHANGED <<clock, jobs, minted, turn, queue, reader, parked, call, tick, turns, asks, rearmed>>

(* The worker of a root dies: its call is gone, the hint stays *)
WorkerDies(r) ==
  /\ faults < MaxFaults
  /\ faults' = faults + 1
  /\ Busy(r) /\ reader[r] = "idle"
  /\ turn' = [turn EXCEPT ![r] = None]
  /\ call' = [call EXCEPT ![r] = None]
  /\ reader' = [reader EXCEPT ![r] = "drain"]
  /\ UNCHANGED <<clock, jobs, minted, delivery, queue, parked, tick, due, turns, asks, rearmed>>

(* The gateway dies and starts again: the two files and the parked calls are
   what is left *)
Restart ==
  /\ faults < MaxFaults
  /\ faults' = faults + 1
  /\ turn' = [r \in Roots |-> None]
  /\ queue' = [r \in Roots |-> <<>>]
  /\ reader' = [r \in Roots |-> "idle"]
  /\ call' = [r \in Roots |-> None]
  /\ tick' = None /\ due' = {}
  /\ UNCHANGED <<clock, jobs, minted, delivery, parked, turns, asks, rearmed>>

Proposals ==
  {[op |-> "create", plan |-> p, id |-> None] : p \in Plans}
  \cup {[op |-> o, plan |-> NoPlan, id |-> j] :
          o \in {"remove", "enable", "disable"}, j \in minted}

Next ==
  \/ Advance \/ TickStart \/ RunDue \/ Restart
  \/ \E r \in Roots :
       \/ \E c \in Chats : Message(r, c)
       \/ \E p \in Proposals : Ask(r, p)
       \/ Approve(r) \/ Finish(r) \/ ClearAndDrain(r)
       \/ BeginCreate(r) \/ BeginChange(r) \/ Commit(r)
       \/ WorkerDies(r)
  \/ \E w \in due : SubmitDue(w) \/ SubmitFails(w)

Spec == Init /\ [][Next]_vars

-----------------------------------------------------------------------------
(* Properties *)

Plan == [cron : Crons \cup {None}, at : Nat \cup {None}]
Row == [plan : Plan, chat : Chats, home : Chats, enabled : BOOLEAN,
        last : Nat \cup {None}, next : Nat \cup {None}]
Proposal == [op : {"create", "remove", "enable", "disable"}, plan : Plan,
             id : JobIds \cup {None}]

(* A plan a job can have: a cron expression or a time *)
Runnable(plan) == plan.cron = None => plan.at # None

(* A schedule_task call a turn may make: a new plan, or an id that was minted *)
Proposable(what) ==
  /\ what \in Proposal
  /\ IF what.op = "create" THEN Runnable(what.plan) ELSE what.id \in minted

Turn == [chat : Chats, asks : Proposal \cup {None}, resumed : BOOLEAN]

(* The turn, the parked call and the tool call of a root *)
TurnTyped(t) ==
  t # None => t \in Turn /\ (t.asks # None => t.resumed /\ Proposable(t.asks))
ParkedTyped(p) ==
  p # None => p \in [chat : Chats, what : Proposal] /\ Proposable(p.what)
CallTyped(c) ==
  c # None => /\ c.op \in {"create", "remove", "enable", "disable"}
              /\ c.id \in minted /\ c.stamp \in Nat
              /\ c.op = "create" => c.row \in Row /\ Runnable(c.row.plan)

StoreTyped ==
  /\ minted \subseteq JobIds
  /\ jobs \in [JobIds -> Row \cup {None}]
  /\ \A j \in JobIds : jobs[j] # None => j \in minted /\ Runnable(jobs[j].plan)
RouterTyped ==
  /\ delivery \in [Roots -> Chats \cup {None}]
  /\ queue \in [Roots -> Seq(Chats)]
  /\ reader \in [Roots -> {"idle", "clear", "drain"}]
CallsTyped ==
  /\ DOMAIN turn = Roots /\ DOMAIN parked = Roots /\ DOMAIN call = Roots
  /\ \A r \in Roots : /\ TurnTyped(turn[r]) /\ ParkedTyped(parked[r]) /\ CallTyped(call[r])
                      /\ call[r] # None => turn[r] # None /\ turn[r].resumed

(* Every variable keeps its type; in particular a row is only ever written
   with a chat, also when the hint it came from was missing, and a tool call
   runs in a resumed turn. *)
TypeOK ==
  /\ StoreTyped /\ RouterTyped /\ CallsTyped
  /\ clock \in Nat /\ tick \in Nat \cup {None}
  /\ due \subseteq [id : minted, chat : Chats]
  /\ rearmed \subseteq JobIds

(* A time the plan names *)
OnSlot(plan, t) ==
  IF plan.cron # None
    THEN t % SecondsPerMinute = 0 /\ Matches(plan.cron, t \div SecondsPerMinute)
    ELSE t = plan.at

(* A slot of the plan lies after `from` and not after `to` *)
SlotBetween(plan, from, to) == \E t \in (from + 1) .. to : OnSlot(plan, t)

(* The next run of a row is a slot of its plan after its last run; a row on
   its way into the store never ran. *)
NextIsAhead(row) ==
  row.next # None => OnSlot(row.plan, row.next)
                     /\ (row.last # None => row.last < row.next)

(* What every step preserves about the store: the type invariant, and
   rows whose next run is ahead unless an enable re-armed them from an earlier
   clock read (Scheduler.add, enable, run_due). *)
ScheduleInv ==
  /\ TypeOK
  /\ \A j \in JobIds : jobs[j] # None /\ j \notin rearmed => NextIsAhead(jobs[j])
  /\ \A r \in Roots : call[r] # None /\ call[r].op = "create" =>
       call[r].row.last = None /\ NextIsAhead(call[r].row)

(* Catch-up happens once: whenever run_due fires a job that ran before, a slot
   of the job lies between the two runs, however many slots were missed, late
   clock reads, restarts and edits of the row included.  The exception is a
   job that an enable re-armed with a clock read before its last run. *)
FiresOncePerSlot ==
  [][\A j \in JobIds :
       (/\ \E w \in due' \ due : w.id = j
        /\ jobs[j].last # None
        /\ j \notin rearmed)
       => SlotBetween(jobs[j].plan, jobs[j].last, tick)]_vars

(* A job that is due stays due until a tick hands it out as work or a tool
   call edits its row: no other step, and no tick that fails half-way,
   advances a job past a slot nobody got to see.  (What becomes of a work that
   was handed out is not its matter: a restart or a failed submission drops
   it.) *)
NoFiringSkipped ==
  [][\A j \in JobIds :
       IsDue(jobs[j], clock) =>
         \/ IsDue(jobs'[j], clock)
         \/ \E w \in due' : w.id = j
         \/ \E r \in Roots : call[r] # None /\ call'[r] = None /\ call[r].id = j]_vars

(* A job created from a turn delivers to the chat that turn belongs to: "Jobs
   default to the personal root and deliver results to the originating chat"
   (src/jarn/agent/builtin_tools.py:147).  The chat is the hint's, and a turn
   that was resumed after an approval has no hint of its own.  TLC refutes it:
   README, 6. *)
JobsGoHome ==
  \A j \in JobIds : jobs[j] # None => jobs[j].chat = jobs[j].home

(* What run_due says of itself: "For each enabled job with next_run <= now,
   emit one DueWork" (src/jarn/gateway/scheduler.py:518), here of the jobs that
   can be advanced.  TLC refutes it: README, 6. *)
EachDueIsEmitted ==
  [][RunDue => \A j \in DueJobs(tick) :
       jobs[j].plan.cron = None \/ NextRun(jobs[j].plan, tick) # None
       => \E w \in due' : w.id = j]_vars
=============================================================================
