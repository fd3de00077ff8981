----------------------------- MODULE BackgroundJobs -----------------------------
(***************************************************************************)
(* The registry of background processes (agent/background.py): tools that *)
(* start, inspect, list and kill jobs from worker threads, the monitor     *)
(* thread that reaps exited children and ends those past their lifetime,  *)
(* the children themselves, and the shutdown at exit.                      *)
(*                                                                         *)
(* A block under the registry lock is one step. What runs outside it is a *)
(* step of its own: the lifetime checks, the terminations, which wait, the *)
(* exit listener and the two looks status takes at a job's output.         *)
(***************************************************************************)
EXTENDS Integers, Sequences, FiniteSets

CONSTANTS
  Threads,       \* the worker threads that run tools
  Monitor,       \* the monitor thread
  MaxConcurrent, \* max_concurrent
  RetainMax,     \* _RETAIN_MAX
  MaxStarts,     \* bound on jobs started
  MaxExtras      \* bound on other calls, outputs, expiries, agings and a signal, together

ASSUME BackgroundAssumption ==
  /\ Monitor \notin Threads
  /\ IsFiniteSet(Threads) /\ Threads # {}
  /\ MaxConcurrent \in Nat \ {0}
  /\ RetainMax \in Nat /\ MaxStarts \in Nat /\ MaxExtras \in Nat

VARIABLES
  jobs,    \* what is known of job 1, 2, ...: its child, its directory, its record
  procs,   \* _procs: the registered ids, in the order of registration
  done,    \* those with a finished_at, in its order
  counter, \* _counter
  th,      \* the threads
  stop,    \* _stop is set
  hears,   \* the exit listener is registered
  main,    \* the main thread, from the session to the end of the process
  extras   \* those so far

jobsVars == <<jobs, procs, done, counter, th, stop, hears, main, extras>>

Ids == 1 .. MaxStarts
Actors == Threads \cup {Monitor}

\* out: the child wrote something; dir: its temporary directory is there; tail: final_tail;
\* old: past max_lifetime_secs; killed: killed_reason; told: calls of the exit listener; raced: its
\* start overlapped with another one that had counted the slots and not yet registered.
NoJob == [child |-> "none", out |-> FALSE, dir |-> FALSE, tail |-> "none", old |-> FALSE,
          killed |-> FALSE, aged |-> FALSE, told |-> 0, raced |-> FALSE]

\* todo: jobs whose limits are still to be checked; tell: reaped jobs still to be announced;
\* job: the id the call is about; victim: the job being terminated, or 0.
NoCall == [op |-> "none", pc |-> "idle", todo |-> <<>>, tell |-> <<>>, job |-> 0, victim |-> 0]

JobsInit ==
  /\ jobs = [j \in Ids |-> NoJob]
  /\ procs = <<>> /\ done = <<>> /\ counter = 0
  /\ th = [a \in Actors |-> [NoCall EXCEPT !.pc = IF a = Monitor THEN "dead" ELSE "idle"]]
  /\ stop = FALSE /\ hears = TRUE
  /\ main = [pc |-> "up", last |-> FALSE, todo |-> <<>>]
  /\ extras = 0

Elems(s) == {s[i] : i \in 1 .. Len(s)}

\* The members of S that occur in s, in the order of s.
Within(s, S) ==
  LET at == {i \in 1 .. Len(s) : s[i] \in S} IN
  [n \in 1 .. Cardinality(at) |-> s[CHOOSE i \in at : Cardinality({k \in at : k <= i}) = n]]

ChildRuns(j) == jobs[j].child = "running"

----------------------------------------------------------------------------
(***************************************************************************)
(* The children.                                                           *)
(***************************************************************************)
JobWrites(j) ==
  /\ ChildRuns(j) /\ ~jobs[j].out
  /\ jobs' = [jobs EXCEPT ![j].out = TRUE]
  /\ extras < MaxExtras /\ extras' = extras + 1
  /\ UNCHANGED <<procs, done, counter, th, stop, hears, main>>

JobExits(j) ==
  /\ ChildRuns(j)
  /\ jobs' = [jobs EXCEPT ![j].child = "exited"]
  /\ UNCHANGED <<procs, done, counter, th, stop, hears, main, extras>>

\* max_lifetime_secs pass
JobExpires(j) ==
  /\ ChildRuns(j) /\ j \in Elems(procs) /\ ~jobs[j].old
  /\ jobs' = [jobs EXCEPT ![j].old = TRUE]
  /\ extras < MaxExtras /\ extras' = extras + 1
  /\ UNCHANGED <<procs, done, counter, th, stop, hears, main>>

\* _RETAIN_SECS pass
RecordAges(j) ==
  /\ j \in Elems(done) /\ ~jobs[j].aged
  /\ jobs' = [jobs EXCEPT ![j].aged = TRUE]
  /\ extras < MaxExtras /\ extras' = extras + 1
  /\ UNCHANGED <<procs, done, counter, th, stop, hears, main>>

----------------------------------------------------------------------------
(***************************************************************************)
(* The sweep: reap, retire, announce, check the lifetimes.                 *)
(***************************************************************************)
\* A thread goes on with its call, ends it, or waits for the next sweep.
Onward(a, pc) ==
  CASE pc = "idle" -> NoCall
    [] pc = "wait" -> [NoCall EXCEPT !.pc = "wait"]
    [] OTHER -> [th[a] EXCEPT !.pc = pc]

Goto(a, pc) == th' = [th EXCEPT ![a] = Onward(a, pc)]

\* A mutant: the monitor's sweep leaves the lifetimes alone.
AfterTell_NoLimits(a) ==
  CASE th[a].op = "start" -> "count" [] th[a].op = "sweep" -> "wait" [] OTHER -> "limits"

\* What follows the announcements, and what follows the lifetime checks.
AfterTell(a) == IF th[a].op = "start" THEN "count" ELSE "limits"

AfterLimits(a) ==
  CASE th[a].op = "start" -> "prune"
    [] th[a].op = "status" -> "look"
    [] th[a].op = "sweep" -> "wait"
    [] OTHER -> "idle"

\* A mutant: jobs ended by the lifetime check count as dealt with.
Newly_NotKilled ==
  Within(procs, {j \in Ids : jobs[j].child = "exited" /\ ~jobs[j].killed /\ j \notin Elems(done)})

\* The children the sweep finds exited, in the order of the registry.
Newly == Within(procs, {j \in Ids : jobs[j].child = "exited" /\ j \notin Elems(done)})

\* A mutant: the directory is removed before the tail is read.
Reaped_DirFirst(j) == [jobs[j] EXCEPT !.tail = "empty", !.dir = FALSE]

\* The tail is read before the directory goes away.
Reaped(j) == [jobs[j] EXCEPT !.tail = IF jobs[j].out /\ jobs[j].dir THEN "output" ELSE "empty",
                             !.dir = FALSE]

Excess(finished) == IF Len(finished) > RetainMax THEN Len(finished) - RetainMax ELSE 0

\* A mutant: the bound counts every record, finished or not.
Retired_AnyJob(finished) ==
  {j \in Elems(finished) : jobs[j].aged} \cup {procs[i] : i \in 1 .. Excess(procs)}

\* The records to forget: too old, or the oldest beyond the bound.
Retired(finished) ==
  {j \in Elems(finished) : jobs[j].aged}
    \cup {finished[i] : i \in 1 .. Excess(finished)}

Without(s, gone) == Within(s, Ids \ gone)

\* _prune_exited, under the lock
Prune(a) ==
  /\ th[a].pc = "prune"
  /\ \E newly \in {Newly} : \E gone \in {Retired(done \o newly)} :
       /\ jobs' = [j \in Ids |-> IF j \in Elems(newly) THEN Reaped(j) ELSE jobs[j]]
       /\ procs' = Without(procs, gone)
       /\ done' = Without(done \o newly, gone)
       /\ th' = [th EXCEPT ![a].tell = newly,
                    ![a].pc = IF newly = <<>> THEN AfterTell(a) ELSE "notify",
                    ![a].todo = IF th[a].op = "start" THEN <<>> ELSE Without(procs, gone)]
  /\ UNCHANGED <<counter, stop, hears, main, extras>>

\* _notify_exited takes the listeners under the lock and calls them outside it.
Notify(a) ==
  /\ th[a].pc = "notify"
  /\ th' = [th EXCEPT ![a].tell = IF hears THEN @ ELSE <<>>,
                      ![a].pc = IF hears THEN "tell" ELSE AfterTell(a)]
  /\ UNCHANGED <<jobs, procs, done, counter, stop, hears, main, extras>>

Tell(a) ==
  /\ th[a].pc = "tell"
  /\ jobs' = [jobs EXCEPT ![Head(th[a].tell)].told = @ + 1]
  /\ th' = [th EXCEPT ![a].tell = Tail(@),
                      ![a].pc = IF Len(th[a].tell) = 1 THEN AfterTell(a) ELSE "tell"]
  /\ UNCHANGED <<procs, done, counter, stop, hears, main, extras>>

OverLimit(j) == ~jobs[j].killed /\ ChildRuns(j) /\ jobs[j].old

\* _check_limits looks at one job after the other ...
CheckLimits(a) ==
  /\ th[a].pc = "limits" /\ th[a].victim = 0
  /\ IF th[a].todo = <<>> THEN Goto(a, AfterLimits(a))
     ELSE th' = IF OverLimit(Head(th[a].todo)) THEN [th EXCEPT ![a].pc = "over"]
                ELSE [th EXCEPT ![a].todo = Tail(@)]
  /\ UNCHANGED <<jobs, procs, done, counter, stop, hears, main, extras>>

\* ... and, with no lock over the two, sets the reason of one found too old before it terminates
\* it, which blocks.
Condemn(a) ==
  /\ th[a].pc = "over"
  /\ jobs' = [jobs EXCEPT ![Head(th[a].todo)].killed = TRUE]
  /\ th' = [th EXCEPT ![a].pc = "limits", ![a].todo = Tail(@), ![a].victim = Head(th[a].todo)]
  /\ UNCHANGED <<procs, done, counter, stop, hears, main, extras>>

\* _terminate: the child is gone when it returns
Dead(j) == [jobs[j] EXCEPT !.child = "exited"]

Terminate(a) ==
  /\ th[a].victim # 0
  /\ jobs' = [jobs EXCEPT ![th[a].victim] = Dead(th[a].victim)]
  /\ th' = [th EXCEPT ![a].victim = 0]
  /\ UNCHANGED <<procs, done, counter, stop, hears, main, extras>>

\* Event.wait returns: the next sweep, or the end of the thread.
MonitorWakes ==
  /\ th[Monitor].pc = "wait"
  /\ th' = [th EXCEPT ![Monitor] = [NoCall EXCEPT !.op = "sweep", !.pc = IF stop THEN "dead" ELSE "prune"]]
  /\ UNCHANGED <<jobs, procs, done, counter, stop, hears, main, extras>>

----------------------------------------------------------------------------
(***************************************************************************)
(* The tools. The agent calls them while the session is up.                *)
(***************************************************************************)
Called(a, call) ==
  /\ main.pc = "up" /\ th[a].pc = "idle"
  /\ th' = [th EXCEPT ![a] = call]

StartJob(a) ==
  /\ counter < MaxStarts
  /\ Called(a, [NoCall EXCEPT !.op = "start", !.pc = "limits", !.todo = procs])
  /\ UNCHANGED <<jobs, procs, done, counter, stop, hears, main, extras>>

Alive == Cardinality({j \in Elems(procs) : ChildRuns(j)})

SlotsFull == Alive >= MaxConcurrent

\* Under the lock the slots are counted and the id is taken; the child comes later.
CountSlots(a) ==
  /\ th[a].pc = "count"
  /\ IF SlotsFull \/ counter = MaxStarts
     THEN Goto(a, "idle") /\ UNCHANGED <<counter, jobs>>
     ELSE /\ counter' = counter + 1
          /\ th' = [th EXCEPT ![a].pc = "spawn", ![a].job = counter + 1]
          /\ jobs' = [jobs EXCEPT ![counter + 1].raced =
                         \E b \in Threads : th[b].pc \in {"spawn", "register"}]
  /\ UNCHANGED <<procs, done, stop, hears, main, extras>>

Spawn(a) ==
  /\ th[a].pc = "spawn"
  /\ jobs' = [jobs EXCEPT ![th[a].job].child = "running", ![th[a].job].dir = TRUE]
  /\ Goto(a, "register")
  /\ UNCHANGED <<procs, done, counter, stop, hears, main, extras>>

\* The log file cannot be opened: the directory made for it stays, and no record knows of it.
OpenFails(a) ==
  /\ th[a].pc = "spawn"
  /\ jobs' = [jobs EXCEPT ![th[a].job].dir = TRUE]
  /\ Goto(a, "idle")
  /\ UNCHANGED <<procs, done, counter, stop, hears, main, extras>>

\* No directory can be made, or Popen raised and the directory is removed again.
SpawnFails(a) ==
  /\ th[a].pc = "spawn"
  /\ Goto(a, "idle")
  /\ UNCHANGED <<jobs, procs, done, counter, stop, hears, main, extras>>

\* The monitor is started with the first job, and again when it has ended.
Register(a) ==
  /\ th[a].pc = "register"
  /\ procs' = Append(procs, th[a].job)
  /\ LET idle == [th EXCEPT ![a] = NoCall] IN
       IF th[Monitor].pc = "dead"
       THEN th' = [idle EXCEPT ![Monitor].pc = "wait"] /\ stop' = FALSE
       ELSE th' = idle /\ UNCHANGED stop
  /\ UNCHANGED <<jobs, done, counter, hears, main, extras>>

\* An id that is not registered is answered at once.
Status(a, j) ==
  /\ extras < MaxExtras /\ j \in Elems(procs)
  /\ Called(a, [NoCall EXCEPT !.op = "status", !.pc = "limits", !.todo = <<j>>, !.job = j])
  /\ extras' = extras + 1
  /\ UNCHANGED <<jobs, procs, done, counter, stop, hears, main>>

\* BackgroundProc.tail looks for a captured tail ...
LookForTail(a) ==
  /\ th[a].pc = "look"
  /\ Goto(a, IF jobs[th[a].job].tail = "none" THEN "read" ELSE "idle")
  /\ UNCHANGED <<jobs, procs, done, counter, stop, hears, main, extras>>

\* ... and otherwise reads the log, which may be gone by then.
ReadLog(a) ==
  /\ th[a].pc = "read"
  /\ Goto(a, "idle")
  /\ UNCHANGED <<jobs, procs, done, counter, stop, hears, main, extras>>

Kill(a, j) ==
  /\ extras < MaxExtras /\ j \in Elems(procs)
  /\ Called(a, [NoCall EXCEPT !.op = "kill", !.pc = "limits", !.victim = j])
  /\ extras' = extras + 1
  /\ UNCHANGED <<jobs, procs, done, counter, stop, hears, main>>

ListJobs(a) ==
  /\ extras < MaxExtras
  /\ Called(a, [NoCall EXCEPT !.op = "list", !.pc = "prune"])
  /\ extras' = extras + 1
  /\ UNCHANGED <<jobs, procs, done, counter, stop, hears, main>>

----------------------------------------------------------------------------
(***************************************************************************)
(* The end: SIGTERM runs shutdown in the main thread and exits; the exit   *)
(* waits for the worker threads and runs shutdown (again) at the end.      *)
(***************************************************************************)
MainVars == <<jobs, procs, done, counter, th, hears>>

SigTerm ==
  /\ main.pc = "up"
  /\ extras < MaxExtras /\ extras' = extras + 1
  /\ stop' = TRUE
  /\ main' = [main EXCEPT !.pc = "join"]
  /\ UNCHANGED MainVars

Quit ==
  /\ main.pc = "up"
  /\ main' = [main EXCEPT !.pc = "leaving"]
  /\ UNCHANGED <<stop, extras, MainVars>>

AtExit ==
  /\ main.pc = "leaving"
  /\ \A a \in Threads : th[a].pc = "idle"
  /\ stop' = TRUE
  /\ main' = [main EXCEPT !.pc = "join", !.last = TRUE]
  /\ UNCHANGED <<extras, MainVars>>

\* join gives up after four seconds: a monitor in the middle of a sweep stays behind.
JoinMonitor ==
  /\ main.pc = "join" /\ th[Monitor].pc # "wait"
  /\ main' = [main EXCEPT !.pc = "kill", !.todo = procs]
  /\ hears' = FALSE
  /\ UNCHANGED <<jobs, procs, done, counter, th, stop, extras>>

KillNext ==
  /\ main.pc = "kill" /\ main.todo # <<>>
  /\ LET j == Head(main.todo) IN jobs' = [jobs EXCEPT ![j] = [Dead(j) EXCEPT !.dir = FALSE]]
  /\ main' = [main EXCEPT !.todo = Tail(@)]
  /\ UNCHANGED <<procs, done, counter, th, stop, hears, extras>>

\* The monitor is a daemon thread: it ends with the process.
ShutdownEnds ==
  /\ main.pc = "kill" /\ main.todo = <<>>
  /\ main' = [main EXCEPT !.pc = IF main.last THEN "gone" ELSE "leaving"]
  /\ th' = IF main.last THEN [th EXCEPT ![Monitor] = [NoCall EXCEPT !.pc = "dead"]] ELSE th
  /\ UNCHANGED <<jobs, procs, done, counter, stop, hears, extras>>

----------------------------------------------------------------------------
Sweeps(a) == Prune(a) \/ Notify(a) \/ Tell(a) \/ CheckLimits(a) \/ Condemn(a) \/ Terminate(a)

ToolStep(a) ==
  \/ Sweeps(a) \/ CountSlots(a) \/ Spawn(a) \/ OpenFails(a) \/ SpawnFails(a)
  \/ Register(a) \/ LookForTail(a) \/ ReadLog(a)

ToolCalls(a) == StartJob(a) \/ ListJobs(a) \/ \E j \in Ids : Status(a, j) \/ Kill(a, j)

MonitorStep == Sweeps(Monitor) \/ MonitorWakes

MainStep == AtExit \/ JoinMonitor \/ KillNext \/ ShutdownEnds

ChildStep(j) == JobWrites(j) \/ JobExits(j) \/ JobExpires(j) \/ RecordAges(j)

JobsNext ==
  \/ \E a \in Threads : ToolStep(a) \/ ToolCalls(a)
  \/ MonitorStep \/ MainStep \/ SigTerm \/ Quit
  \/ \E j \in Ids : ChildStep(j)

\* The threads are scheduled; calls, signals and the children's own exits need not come.
JobsFairness ==
  /\ \A a \in Threads : WF_jobsVars(ToolStep(a))
  /\ WF_jobsVars(MonitorStep)
  /\ WF_jobsVars(MainStep)

JobsSpec == JobsInit /\ [][JobsNext]_jobsVars /\ JobsFairness

----------------------------------------------------------------------------
(***************************************************************************)
(* Properties.                                                             *)
(***************************************************************************)
JobRecords ==
  [child : {"none", "running", "exited"}, out : BOOLEAN, dir : BOOLEAN,
   tail : {"none", "output", "empty"}, old : BOOLEAN, killed : BOOLEAN,
   aged : BOOLEAN, told : 0 .. 1, raced : BOOLEAN]

ThreadRecords ==
  [op : {"none", "start", "status", "kill", "list", "sweep"},
   pc : {"idle", "limits", "over", "prune", "notify", "tell", "count", "spawn",
         "register", "look", "read", "wait", "dead"},
   todo : Seq(Ids), tell : Seq(Ids), job : 0 .. MaxStarts, victim : 0 .. MaxStarts]

\* Type invariant of the registry, the threads and the children.
JobsTypeOK ==
  /\ jobs \in [Ids -> JobRecords]
  /\ procs \in Seq(Ids) /\ done \in Seq(Ids)
  /\ Elems(done) \subseteq Elems(procs)
  /\ counter \in 0 .. MaxStarts /\ extras \in 0 .. MaxExtras
  /\ th \in [Actors -> ThreadRecords]
  /\ stop \in BOOLEAN /\ hears \in BOOLEAN
  /\ main \in [pc : {"up", "leaving", "join", "kill", "gone"}, last : BOOLEAN, todo : Seq(Ids)]

\* max_concurrent is exceeded only by starts that overlap: one that counts the slots while no
\* other is between its count and its registration finds a free slot (ProcessManager.start).
SlotsBounded == Cardinality({j \in Ids : ChildRuns(j) /\ ~jobs[j].raced}) <= MaxConcurrent

\* When the process is gone no child it started runs on, and the log directory of every job that
\* was started is removed (background.shutdown at exit, after one at SIGTERM that may have missed a
\* job). A start that fails to open its log leaves a directory that nothing removes: mkdtemp and the
\* open are outside the try of ProcessManager.start.
NothingLeft ==
  main.pc = "gone" => \A j \in Ids : ~ChildRuns(j) /\ (jobs[j].dir => jobs[j].child = "none")

\* A record is only forgotten once its child is reaped, its output taken and its exit announced or
\* on its way to the listener (_prune_exited, _notify_exited).
ForgottenIsTold ==
  \A j \in Ids :
    jobs[j].tail # "none" /\ j \notin Elems(procs) =>
      \/ jobs[j].told = 1
      \/ \E a \in Actors : j \in Elems(th[a].tell)
      \/ ~hears

\* While the session is up, what a registered job wrote can be found: in the log, or in the tail
\* that was taken when the log was removed (BackgroundProc.tail).
OutputKept ==
  main.pc = "up" =>
    \A j \in Elems(procs) : jobs[j].out => jobs[j].dir \/ jobs[j].tail = "output"

\* What every step preserves about the registry: each exit is announced at most once (told), and
\* slots, forgotten records and output are in order.
JobsInv == JobsTypeOK /\ SlotsBounded /\ ForgottenIsTold /\ OutputKept

\* While the session is up the exit of every registered job is announced: jobs that exited and
\* were not are always dealt with (the monitor's sweep, and those of start and list).
ExitTold ==
  []<>(main.pc = "up" => \A j \in Elems(procs) : ~ChildRuns(j) => jobs[j].told = 1)

\* What the comment in _check_limits says of its order: "Set reason before terminating so a
\* concurrent sweep won't double-kill". Two sweeps never terminate the same job. TLC
\* refutes it: README, 6.
OneKiller ==
  \A a, b \in Actors :
    th[a].victim # 0 /\ th[a].victim = th[b].victim /\ th[a].op # "kill" /\ th[b].op # "kill" => a = b

\* No job stays past its lifetime (_check_limits).
LifetimeEnds == []<>(\A j \in Ids : ~(ChildRuns(j) /\ jobs[j].old))

----------------------------------------------------------------------------
(***************************************************************************)
(* The inductive invariant behind JobsInv and NothingLeft.                 *)
(***************************************************************************)
NoRepeats(s) == \A i, k \in 1 .. Len(s) : s[i] = s[k] => i = k

Starting(a) == th[a].pc \in {"spawn", "register"}

\* Some thread is between taking the id and registering the job.
Claimed(j) == \E a \in Threads : Starting(a) /\ th[a].job = j

\* The child was started, and the job is registered or was.
Born == {j \in Ids : jobs[j].child # "none" /\ ~Claimed(j)}

\* A thread has a victim only in the lifetime check, and jobs to announce only between the reaping
\* and the last announcement; it works on jobs that were registered. The monitor only sweeps.
ThreadOK(a, r, born) ==
  /\ r.victim # 0 => r.pc = "limits" /\ r.victim \in born
  /\ r.pc = "over" => r.todo # <<>>
  /\ (r.pc \in {"notify", "tell"}) <=> (r.tell # <<>>)
  /\ NoRepeats(r.tell)
  /\ Elems(r.todo) \subseteq born
  /\ IF a = Monitor
     THEN /\ r.pc \in {"wait", "dead", "prune", "notify", "tell", "limits", "over"}
          /\ r.pc \in {"prune", "notify", "tell", "limits", "over"} => r.op = "sweep"
     ELSE r.pc \notin {"wait", "dead"} /\ r.op # "sweep"

ThreadsOK == \A a \in Actors : ThreadOK(a, th[a], Born)

\* An id is taken once; until it is registered its child, if there is one, has its directory.
StartsOK ==
  /\ \A j \in Ids : j > counter => jobs[j].child = "none" /\ ~jobs[j].dir /\ ~Claimed(j)
  /\ \A j \in Ids : jobs[j].child = "none" => jobs[j].tail = "none"
  /\ \A a, b \in Threads : Starting(a) /\ Starting(b) /\ th[a].job = th[b].job => a = b
  /\ \A a \in Threads : Starting(a) =>
       /\ th[a].job \in Ids /\ jobs[th[a].job].tail = "none"
       /\ IF th[a].pc = "spawn" THEN jobs[th[a].job].child = "none" /\ ~jobs[th[a].job].dir
          ELSE jobs[th[a].job].child # "none" /\ jobs[th[a].job].dir

\* Where a job is: started by a thread, registered, finished, forgotten.
RegistryOK ==
  /\ NoRepeats(procs) /\ NoRepeats(done)
  /\ Elems(procs) \subseteq Born
  /\ \A j \in Ids : jobs[j].tail # "none" => jobs[j].child = "exited" /\ ~jobs[j].dir
  /\ \A j \in Elems(procs) : jobs[j].tail # "none" <=> j \in Elems(done)
  /\ \A j \in Ids : ChildRuns(j) \/ (jobs[j].dir /\ jobs[j].child # "none") => j \in Elems(procs) \/ Claimed(j)
  /\ main.pc = "up" => \A j \in Elems(procs) : jobs[j].tail = "none" => jobs[j].dir

\* A reaped job is announced once: it was, or it is in the hands of one thread.
TellOK ==
  /\ \A j \in Ids : jobs[j].told = 1 => jobs[j].tail # "none"
  /\ \A a \in Actors : \A j \in Elems(th[a].tell) : jobs[j].tail # "none" /\ jobs[j].told = 0
  /\ \A a, b \in Actors : a # b => Elems(th[a].tell) \cap Elems(th[b].tell) = {}
  /\ \A j \in Ids : jobs[j].tail # "none" =>
       jobs[j].told = 1 \/ ~hears \/ \E a \in Actors : j \in Elems(th[a].tell)

\* A slot is taken with the id, before the child runs.
SlotsOK ==
  Cardinality({j \in Ids : (ChildRuns(j) \/ Claimed(j)) /\ ~jobs[j].raced}) <= MaxConcurrent

\* The last shutdown finds every thread at rest and goes through all that is left.
EndOK ==
  /\ main.last => main.pc \in {"join", "kill", "gone"} /\ \A a \in Threads : th[a].pc = "idle"
  /\ main.pc \in {"kill", "gone"} => ~hears
  /\ Elems(main.todo) \subseteq Born
  /\ main.last /\ main.pc = "kill" =>
       \A j \in Ids : ChildRuns(j) \/ (jobs[j].dir /\ jobs[j].child # "none") => j \in Elems(main.todo)
  /\ main.pc = "gone" => main.last

RegistryInv ==
  /\ JobsTypeOK /\ ThreadsOK /\ StartsOK /\ RegistryOK /\ TellOK /\ SlotsOK /\ EndOK
  /\ OutputKept /\ NothingLeft
=============================================================================
