------------------------- MODULE GatewayWorkerProofs -------------------------
(***************************************************************************)
(* Type correctness and mutual exclusion of the worker's tasks, for any    *)
(* number of threads, messages and control frames.                         *)
(***************************************************************************)
EXTENDS GatewayWorker, SequenceTheorems, TLAPS

\* What a decoded frame carries, by kind.
LEMMA FrameFields ==
  ASSUME NEW f \in Frames
  PROVE  /\ f.kind = "turn" => /\ f \in TurnFrames /\ f.msg \in Msgs
                               /\ f.thread \in Threads /\ f.media \in BOOLEAN
         /\ f.kind = "steer" => f.msg \in Msgs /\ f.thread \in Threads
         /\ f.kind = "cancel" => f.thread \in Threads
         /\ f.kind = "verdict" => /\ f.msg \in Msgs /\ f.id \in 1..MaxControl
                                  /\ f.card \in {"confirm", "park"}
BY DEF Frames, TurnFrames

\* The frames the daemon can put on the pipe.
LEMMA SendableFrames ==
  ASSUME TypeOK, sent.msgs < MaxMsgs
  PROVE  LET m == sent.msgs + 1 IN
         /\ m \in Msgs
         /\ \A media \in BOOLEAN : TurnFrame(m, thread[m], media) \in TurnFrames
         /\ [kind |-> "steer", msg |-> m, thread |-> thread[m]] \in Frames
<1>1. sent.msgs + 1 \in Msgs
  BY WorkerAssumption DEF TypeOK, Msgs
<1>2. thread[sent.msgs + 1] \in Threads
  BY <1>1 DEF TypeOK
<1> QED
  BY <1>1, <1>2 DEF TurnFrame, TurnFrames, Frames

LEMMA ControlFramesOK ==
  ASSUME TypeOK, sent.control < MaxControl
  PROVE  /\ ControlFrames \subseteq Frames
         /\ \A f \in ControlFrames : f.kind = "verdict" => f.id = sent.control + 1
         /\ \A f \in ControlFrames : f.kind # "turn"
<1>1. sent.control + 1 \in 1..MaxControl
  BY WorkerAssumption DEF TypeOK
<1> QED
  BY <1>1 DEF ControlFrames, Frames

\* The frame a handler takes off the pipe.
LEMMA ReadFrame ==
  ASSUME TypeOK, stdin # <<>>
  PROVE  /\ Head(stdin) \in Frames
         /\ Tail(stdin) \in Seq(Frames)
         /\ Head(stdin) = stdin[1] /\ 1 \in DOMAIN stdin
         /\ Len(Tail(stdin)) = Len(stdin) - 1
         /\ \A i \in 1..Len(Tail(stdin)) : Tail(stdin)[i] = stdin[i + 1] /\ i + 1 \in DOMAIN stdin
BY DEF TypeOK

----------------------------------------------------------------------------
(* Type correctness. *)

\* What _handle_turn may write.
LEMMA HandleTurnType ==
  ASSUME TypeOK, NEW f \in TurnFrames, HandleTurn(f)
  PROVE  /\ phase' \in [Jobs -> Phases]
         /\ turnTask' \in Jobs \cup {NoJob}
         /\ turnThread' \in Threads \cup {NoThread}
         /\ queuedTurn' \in TurnFrames \cup {NoFrame}
         /\ dropped' \subseteq Msgs
         /\ steerSlot' \in Msgs \cup {None}
<1>1. f.msg \in Msgs /\ f.thread \in Threads
  BY FrameFields DEF TurnFrames
<1>2. Turn(f.msg) \in Jobs
  BY <1>1, WorkerAssumption DEF Turn, Jobs
<1>3. queuedTurn # NoFrame => queuedTurn.msg \in Msgs
  BY FrameFields DEF TypeOK, TurnFrames
<1> QED
  BY <1>1, <1>2, <1>3 DEF HandleTurn, StartJob, TypeOK, Phases, Running

LEMMA InitType == Init => TypeOK
<1> SUFFICES ASSUME Init PROVE TypeOK
  OBVIOUS
<1>1. sent \in [msgs : 0..MaxMsgs, control : 0..MaxControl]
  BY WorkerAssumption DEF Init
<1>2. phase \in [Jobs -> Phases]
  BY DEF Init, Phases
<1>3. stdin \in Seq(Frames)
  BY DEF Init
<1> QED
  BY <1>1, <1>2, <1>3 DEF Init, TypeOK

\* Every step of the daemon, the main loop, the tasks and the callbacks keeps
\* the state well typed.
LEMMA NextType == TypeOK /\ [Next]_vars => TypeOK'
<1> SUFFICES ASSUME TypeOK, [Next]_vars PROVE TypeOK'
  OBVIOUS
<1> USE DEF loopVars, taskVars, slotVars, steerVars, askVars
<1>1. CASE UNCHANGED vars
  BY <1>1 DEF vars, TypeOK
<1>2. ASSUME NEW media \in BOOLEAN, SendMsg(media) PROVE TypeOK'
  <2>1. TurnFrame(sent.msgs + 1, thread[sent.msgs + 1], media) \in Frames
    BY <1>2, SendableFrames DEF SendMsg, TurnFrames
  <2> QED
    BY <1>2, <2>1, WorkerAssumption DEF SendMsg, TypeOK
<1>3. CASE SendSteer
  BY <1>3, SendableFrames, WorkerAssumption DEF SendSteer, TypeOK
<1>4. CASE SendHandshake
  <2>1. [kind |-> "handshake"] \in Frames
    BY DEF Frames
  <2> QED
    BY <1>4, <2>1 DEF SendHandshake, TypeOK
<1>5. ASSUME NEW f \in ControlFrames, SendControl(f) PROVE TypeOK'
  BY <1>5, ControlFramesOK, WorkerAssumption DEF SendControl, TypeOK
<1>6. CASE ReadHandshake
  BY <1>6, ReadFrame DEF ReadHandshake, Reads, TypeOK
<1>7. CASE ReadFatal
  BY <1>7, ReadFrame DEF ReadFatal, Exit, CancelAndAwait, TurnInFlight, TypeOK
<1>8. CASE ReadGarbage
  BY <1>8, ReadFrame DEF ReadGarbage, Reads, TypeOK
<1>9. CASE ReadTurn
  <2>1. Head(stdin) \in TurnFrames
    BY <1>9, ReadFrame, FrameFields DEF ReadTurn, Reads
  <2> QED
    BY <1>9, <2>1, ReadFrame, HandleTurnType DEF ReadTurn, Reads, TypeOK
<1>10. CASE ReadSteer
  <2>1. Head(stdin).msg \in Msgs
    BY <1>10, ReadFrame, FrameFields DEF ReadSteer, Reads
  <2> QED
    BY <1>10, <2>1, ReadFrame DEF ReadSteer, Reads, TypeOK
<1>11. queuedTurn # NoFrame => queuedTurn.msg \in Msgs
  BY FrameFields DEF TypeOK, TurnFrames
<1>12. CASE ReadCancel
  BY <1>11, <1>12, ReadFrame DEF ReadCancel, Reads, CancelAndAwait, TurnInFlight, TypeOK
<1>13. CASE ReadShutdown
  BY <1>11, <1>13, ReadFrame DEF ReadShutdown, Reads, Exit, CancelAndAwait, TurnInFlight, TypeOK
<1>14. CASE ReadVerdict
  <2>1. /\ Head(stdin).msg \in Msgs /\ Head(stdin).id \in 1..MaxControl
        /\ Tail(stdin) \in Seq(Frames)
    BY <1>14, ReadFrame, FrameFields DEF ReadVerdict, Reads
  <2>2. /\ Turn(Head(stdin).msg) \in Jobs
        /\ <<Head(stdin).id, Head(stdin).msg>> \in Jobs
        /\ thread[Head(stdin).msg] \in Threads
    BY <2>1, WorkerAssumption DEF Turn, Jobs, TypeOK
  <2> QED
    BY <1>14, <2>1, <2>2 DEF ReadVerdict, Reads, StartJob, TypeOK, Phases, Running
<1>15. CASE AbortDone
  BY <1>15 DEF AbortDone, TypeOK
<1>16. ASSUME NEW j \in Jobs, JobStep(j) PROVE TypeOK'
  <2>1. j[2] \in Msgs
    BY DEF Jobs
  <2>2. JobThread(j) \in Threads
    BY <2>1 DEF JobThread, TypeOK
  <2> QED
    BY <1>16, <2>1, <2>2
    DEF JobStep, Prepared, PullSteer, InjectSteer, EndAgent, FinishTask, TypeOK, Phases, Running
<1>17. ASSUME NEW m \in Msgs, LocalStep(m) PROVE TypeOK'
  <2>1. Turn(m) \in Jobs
    BY WorkerAssumption DEF Turn, Jobs
  <2> QED
    BY <1>17, <2>1 DEF LocalStep, AskConfirm, LocalDone, TypeOK, Phases, Running
<1>18. ASSUME NEW j \in Jobs, OnTurnDone(j) PROVE TypeOK'
  BY <1>11, <1>18 DEF OnTurnDone, KickQueued, TypeOK
<1>19. ASSUME NEW f \in TurnFrames, Kick(f) PROVE TypeOK'
  BY <1>19, HandleTurnType DEF Kick, TypeOK
<1> QED
  BY <1>1, <1>2, <1>3, <1>4, <1>5, <1>6, <1>7, <1>8, <1>9, <1>10, <1>12, <1>13, <1>14,
     <1>15, <1>16, <1>17, <1>18, <1>19
  DEF Next, Env, MainLoop

\* Every variable of the worker always has its type.
THEOREM TypeCorrect == Spec => []TypeOK
BY InitType, NextType, PTL DEF Spec

----------------------------------------------------------------------------
(* The frames that wait to be run. *)

\* Every line of the new pipe is a line of the old one, d places further on.
Shifted(d) ==
  \A i \in DOMAIN stdin' : i \in Nat /\ i + d \in DOMAIN stdin /\ stdin'[i] = stdin[i + d]

LEMMA ReadShifts ==
  ASSUME TypeOK, \/ UNCHANGED stdin
                 \/ stdin # <<>> /\ stdin' = Tail(stdin)
  PROVE  \E d \in {0, 1} : Shifted(d)
<1>1. CASE UNCHANGED stdin
  BY <1>1 DEF Shifted, TypeOK
<1>2. CASE stdin # <<>> /\ stdin' = Tail(stdin)
  BY <1>2, ReadFrame DEF Shifted, TypeOK
<1> QED
  BY <1>1, <1>2

\* A step that starts no turn and moves no frame keeps the frames fresh: it
\* may read a line, empty the queue slot or take a kicked frame.
LEMMA FreshTurnsKept ==
  ASSUME TypeOK, FreshTurns, NEW d \in {0, 1}, Shifted(d),
         queuedTurn' \in {queuedTurn, NoFrame}, kicked' \subseteq kicked,
         UNCHANGED <<sent, thread>>,
         \A m \in Msgs : phase[Turn(m)] = "none" => phase'[Turn(m)] = "none"
  PROVE  FreshTurns'
<1>1. \A f \in TurnFrames : /\ OnStdin(f)' => OnStdin(f)
                            /\ (queuedTurn = f)' => queuedTurn = f
                            /\ Waiting(f)' => Waiting(f)
  BY DEF OnStdin, Waiting, Shifted, TurnFrames, NoFrame
<1>2. \A f \in TurnFrames : f.msg \in Msgs
  BY FrameFields DEF TurnFrames
<1>3. NotStarted'
  BY <1>1, <1>2 DEF FreshTurns, NotStarted
<1>4. OnceOnStdin'
  BY DEF FreshTurns, OnceOnStdin, Shifted
<1>5. OneFrameEach'
  BY <1>1 DEF FreshTurns, OneFrameEach
<1>6. OnePlaceEach'
  BY <1>1 DEF FreshTurns, OnePlaceEach
<1>7. UnsentNotStarted'
  BY DEF FreshTurns, UnsentNotStarted
<1> QED
  BY <1>3, <1>4, <1>5, <1>6, <1>7 DEF FreshTurns

\* A step that starts no verdict task keeps the verdict frames fresh.
LEMMA FreshVerdictsKept ==
  ASSUME TypeOK, FreshVerdicts, NEW d \in {0, 1}, Shifted(d), UNCHANGED sent,
         \A n \in 1..MaxControl, m \in Msgs :
           phase[<<n, m>>] = "none" => phase'[<<n, m>>] = "none"
  PROVE  FreshVerdicts'
<1>1. \A i \in DOMAIN stdin : stdin[i].kind = "verdict" => stdin[i].id \in 1..MaxControl
  BY FrameFields DEF TypeOK
<1> QED
  BY <1>1 DEF FreshVerdicts, Shifted

\* _handle_turn of a frame just taken off the pipe or out of call_soon.
LEMMA HandleTurnFresh ==
  ASSUME TypeOK, FreshTurns, NEW f \in TurnFrames, HandleTurn(f), Waiting(f),
         NEW d \in {0, 1}, Shifted(d), kicked' \subseteq kicked, UNCHANGED <<sent, thread>>,
         ~OnStdin(f)', f \notin kicked', queuedTurn # f
  PROVE  FreshTurns'
<1> USE DEF FreshTurns
<1>1. f.msg \in Msgs /\ Turn(f.msg) \in Jobs
  BY FrameFields, WorkerAssumption DEF TurnFrames, Turn, Jobs
<1>2. \A g \in TurnFrames : g.msg \in Msgs /\ Turn(g.msg) \in Jobs
  BY FrameFields, WorkerAssumption DEF TurnFrames, Turn, Jobs
<1>3. \A g \in TurnFrames : OnStdin(g)' => OnStdin(g)
  BY DEF OnStdin, Shifted
<1>4. OnceOnStdin'
  BY DEF OnceOnStdin, Shifted
<1>5. CASE UNCHANGED <<phase, queuedTurn>>
  BY <1>5, FreshTurnsKept
<1>6. CASE StartJob(Turn(f.msg), f.thread) /\ UNCHANGED queuedTurn
  <2>1. \A g \in TurnFrames : Waiting(g)' => Waiting(g) /\ g # f /\ g.msg # f.msg
    BY <1>3, <1>6 DEF Waiting, OneFrameEach
  <2>2. \A m \in Msgs : m # f.msg => phase'[Turn(m)] = phase[Turn(m)]
    BY <1>1, <1>6 DEF StartJob, TypeOK, Turn
  <2>3. NotStarted' /\ UnsentNotStarted'
    BY <1>1, <1>2, <2>1, <2>2 DEF NotStarted, UnsentNotStarted, TypeOK, Msgs
  <2>4. OneFrameEach' /\ OnePlaceEach'
    BY <1>3, <1>6, <2>1 DEF OneFrameEach, OnePlaceEach
  <2> QED
    BY <1>4, <2>3, <2>4
<1>7. CASE queuedTurn' = f /\ UNCHANGED phase
  <2>1. \A g \in TurnFrames : Waiting(g)' => Waiting(g)
    BY <1>3, <1>7 DEF Waiting
  <2>2. NotStarted' /\ UnsentNotStarted'
    BY <1>7, <2>1 DEF NotStarted, UnsentNotStarted
  <2>3. OneFrameEach' /\ OnePlaceEach'
    BY <1>3, <1>7, <2>1 DEF OneFrameEach, OnePlaceEach
  <2> QED
    BY <1>4, <2>2, <2>3
<1> QED
  BY <1>5, <1>6, <1>7 DEF HandleTurn

\* A frame appended to the pipe.
LEMMA SendFresh ==
  ASSUME TypeOK, FreshTurns, FreshVerdicts, NEW f \in Frames, stdin' = Append(stdin, f),
         UNCHANGED <<phase, thread, queuedTurn, kicked>>, TypeOK',
         sent.msgs <= sent'.msgs, sent.control <= sent'.control,
         f.kind = "turn" => /\ f.msg = sent'.msgs /\ f.msg = sent.msgs + 1
                            /\ f.thread = thread[f.msg],
         f.kind = "verdict" => f.id = sent'.control /\ f.id = sent.control + 1
  PROVE  FreshTurns' /\ FreshVerdicts'
<1> USE DEF FreshTurns
<1>1. /\ Len(stdin) \in Nat /\ DOMAIN stdin = 1..Len(stdin)
      /\ DOMAIN stdin' = 1..(Len(stdin) + 1)
      /\ stdin'[Len(stdin) + 1] = f
      /\ \A i \in DOMAIN stdin : stdin'[i] = stdin[i]
  BY DEF TypeOK
<1>2. /\ sent.msgs \in Nat /\ sent'.msgs \in Nat
      /\ sent.control \in Nat /\ sent'.control \in Nat
  BY DEF TypeOK
<1>3. \A g \in TurnFrames : /\ g.msg \in Msgs /\ g.msg \in Nat /\ g.kind = "turn"
                            /\ OnStdin(g)' <=> OnStdin(g) \/ g = f
  BY <1>1, FrameFields, WorkerAssumption DEF OnStdin, TurnFrames, Msgs
<1>4. \A g \in TurnFrames : Waiting(g)' <=> Waiting(g) \/ g = f
  BY <1>3 DEF Waiting
<1>5. \A g \in TurnFrames : g = f => ~Waiting(g)
  BY <1>2, <1>3 DEF NotStarted
<1>6. NotStarted'
  BY <1>2, <1>3, <1>4 DEF NotStarted, UnsentNotStarted
<1>7. OneFrameEach'
  <2> SUFFICES ASSUME NEW g \in TurnFrames, NEW h \in TurnFrames,
                      Waiting(g)', Waiting(h)', g.msg = h.msg
               PROVE  g = h
    BY DEF OneFrameEach
  <2>1. CASE Waiting(g) /\ Waiting(h)
    BY <2>1 DEF OneFrameEach
  <2>2. CASE g = f \/ h = f
    BY <1>2, <1>3, <1>4, <2>2 DEF NotStarted
  <2> QED
    BY <1>4, <2>1, <2>2
<1>8. OnePlaceEach'
  BY <1>3, <1>5 DEF OnePlaceEach, Waiting
<1>9. UnsentNotStarted'
  BY <1>2, WorkerAssumption DEF UnsentNotStarted, Msgs
<1>10. \A i \in DOMAIN stdin : stdin[i].kind = "turn" => stdin[i].msg <= sent.msgs
  BY <1>1, FrameFields DEF NotStarted, Waiting, OnStdin, TypeOK
<1>11. OnceOnStdin'
  BY <1>1, <1>2, <1>10 DEF OnceOnStdin
<1>12. FreshVerdicts'
  <2>1. \A i \in DOMAIN stdin' : stdin'[i].kind = "verdict" =>
          /\ \A m \in Msgs : phase'[<<stdin'[i].id, m>>] = "none"
          /\ stdin'[i].id <= sent'.control
    <3>1. f.kind = "verdict" => f.id \in 1..MaxControl
      BY FrameFields
    <3>2. \A i \in DOMAIN stdin : stdin[i].kind = "verdict" => stdin[i].id \in 1..MaxControl
      BY FrameFields DEF TypeOK
    <3> QED
      BY <1>1, <1>2, <3>1, <3>2 DEF FreshVerdicts
  <2>2. \A i, k \in DOMAIN stdin' :
          stdin'[i].kind = "verdict" /\ stdin'[k].kind = "verdict" /\ stdin'[i].id = stdin'[k].id
            => i = k
    BY <1>1, <1>2 DEF FreshVerdicts
  <2>3. \A n \in 1..MaxControl : n > sent'.control =>
          \A m \in Msgs : phase'[<<n, m>>] = "none"
    BY <1>2 DEF FreshVerdicts
  <2> QED
    BY <2>1, <2>2, <2>3 DEF FreshVerdicts
<1> QED
  BY <1>6, <1>7, <1>8, <1>9, <1>11, <1>12

----------------------------------------------------------------------------
(* The running task. *)

LEMMA JobFacts ==
  /\ NoJob \notin Jobs
  /\ \A m \in Msgs : Turn(m) \in Jobs
  /\ \A j \in Jobs : j[2] \in Msgs
BY WorkerAssumption DEF NoJob, None, Jobs, Msgs, Turn

\* create_task, when nothing is in flight, of a task that never ran before.
LEMMA StartTask ==
  ASSUME TypeOK, LiveIsBound, CallbacksDone, ConfirmsWait, NEW j \in Jobs,
         phase[j] = "none", ~TurnInFlight, StartJob(j, JobThread(j)),
         UNCHANGED <<thread, callbacks, confirms>>
  PROVE  LiveIsBound' /\ CallbacksDone' /\ ConfirmsWait'
<1>1. \A i \in Jobs : ~Live(i)
  BY JobFacts DEF LiveIsBound, TurnInFlight
<1>2. \A i \in Jobs : i # j => phase'[i] = phase[i]
  BY DEF StartJob, TypeOK
<1>3. LiveIsBound'
  BY <1>1, <1>2 DEF LiveIsBound, Live, StartJob, JobThread
<1>4. CallbacksDone'
  BY <1>2 DEF CallbacksDone, TypeOK
<1>5. ConfirmsWait'
  BY <1>2, JobFacts DEF ConfirmsWait, TypeOK
<1> QED
  BY <1>3, <1>4, <1>5

LEMMA HandleTurnTask ==
  ASSUME WorkerInv, NEW f \in TurnFrames, Waiting(f), HandleTurn(f),
         UNCHANGED <<thread, callbacks, confirms>>
  PROVE  LiveIsBound' /\ CallbacksDone' /\ ConfirmsWait'
<1> USE DEF WorkerInv
<1>1. CASE UNCHANGED <<phase, turnTask, turnThread>>
  BY <1>1 DEF LiveIsBound, CallbacksDone, ConfirmsWait, Live, JobThread
<1>2. CASE ~TurnInFlight /\ StartJob(Turn(f.msg), f.thread)
  <2>1. f.msg \in Msgs
    BY FrameFields DEF TurnFrames
  <2>2. Turn(f.msg) \in Jobs /\ phase[Turn(f.msg)] = "none"
    BY <2>1, JobFacts DEF FreshTurns, NotStarted
  <2>3. f.thread = JobThread(Turn(f.msg))
    BY DEF FreshTurns, NotStarted, JobThread, Turn
  <2> QED
    BY <1>2, <2>2, <2>3, StartTask
<1> QED
  BY <1>1, <1>2 DEF HandleTurn

\* A step of the task j itself, live before it.
LEMMA TaskAdvances ==
  ASSUME TypeOK, LiveIsBound, CallbacksDone, NEW j \in Jobs, Live(j), NEW p \in Phases \ {"none"},
         phase' = [phase EXCEPT ![j] = p], UNCHANGED <<thread, turnTask, turnThread>>,
         \/ UNCHANGED callbacks
         \/ p = "finished" /\ callbacks' = callbacks \cup {j}
  PROVE  LiveIsBound' /\ CallbacksDone'
<1>1. \A i \in Jobs : i # j => phase'[i] = phase[i]
  BY DEF TypeOK
<1>2. j \notin callbacks /\ phase'[j] = p
  BY DEF CallbacksDone, Live, Running, TypeOK
<1>3. LiveIsBound'
  BY <1>1 DEF LiveIsBound, Live, JobThread
<1>4. CallbacksDone'
  BY <1>1, <1>2 DEF CallbacksDone, TypeOK
<1> QED
  BY <1>3, <1>4

----------------------------------------------------------------------------
(* The inductive invariant. *)

LEMMA InitInv == Init => WorkerInv
<1> SUFFICES ASSUME Init PROVE WorkerInv
  OBVIOUS
<1>1. TypeOK
  BY InitType
<1>2. \A f : ~Waiting(f) \/ f = NoFrame
  BY DEF Init, Waiting, OnStdin
<1>3. NoFrame \notin TurnFrames
  BY DEF NoFrame, TurnFrames
<1>4. \A j \in Jobs : phase[j] = "none"
  BY DEF Init
<1>5. FreshTurns
  BY <1>2, <1>3, <1>4, JobFacts
  DEF Init, FreshTurns, NotStarted, OnceOnStdin, OneFrameEach, OnePlaceEach, UnsentNotStarted
<1>6. FreshVerdicts
  BY <1>4 DEF Init, FreshVerdicts, Jobs
<1>7. LiveIsBound /\ CallbacksDone /\ ConfirmsWait
  BY <1>4 DEF Init, LiveIsBound, CallbacksDone, ConfirmsWait, Live, Running
<1> QED
  BY <1>1, <1>5, <1>6, <1>7 DEF WorkerInv

\* A step that touches no task and moves no frame; the cards it answers may go.
LEMMA QuietStep ==
  ASSUME WorkerInv, TypeOK', UNCHANGED <<phase, thread, turnTask, turnThread, callbacks, sent>>,
         UNCHANGED confirms, \/ UNCHANGED stdin
                             \/ stdin # <<>> /\ stdin' = Tail(stdin),
         queuedTurn' \in {queuedTurn, NoFrame}, kicked' \subseteq kicked
  PROVE  WorkerInv'
<1> USE DEF WorkerInv
<1>1. PICK d \in {0, 1} : Shifted(d)
  BY ReadShifts
<1>2. FreshTurns' /\ FreshVerdicts'
  BY <1>1, FreshTurnsKept, FreshVerdictsKept
<1>3. LiveIsBound' /\ CallbacksDone' /\ ConfirmsWait'
  BY DEF LiveIsBound, CallbacksDone, ConfirmsWait, Live, JobThread
<1> QED
  BY <1>2, <1>3

\* A step of one live task: it starts none and leaves the frames where they are.
LEMMA TaskStep ==
  ASSUME WorkerInv, TypeOK', NEW j \in Jobs, Live(j), NEW p \in Phases \ {"none"},
         phase' = [phase EXCEPT ![j] = p], UNCHANGED <<thread, turnTask, turnThread>>,
         \/ UNCHANGED callbacks
         \/ p = "finished" /\ callbacks' = callbacks \cup {j},
         \/ UNCHANGED stdin
         \/ stdin # <<>> /\ stdin' = Tail(stdin),
         UNCHANGED <<sent, queuedTurn, kicked>>,
         \A m \in confirms' : \/ Turn(m) # j /\ m \in confirms
                              \/ Turn(m) = j /\ p = "confirm"
  PROVE  WorkerInv'
<1> USE DEF WorkerInv
<1>1. PICK d \in {0, 1} : Shifted(d)
  BY ReadShifts
<1>2. \A i \in Jobs : phase[i] = "none" => phase'[i] = "none"
  BY DEF Live, Running, TypeOK
<1>3. \A n \in 1..MaxControl, m \in Msgs : <<n, m>> \in Jobs
  BY DEF Jobs
<1>4. FreshTurns' /\ FreshVerdicts'
  BY <1>1, <1>2, <1>3, JobFacts, FreshTurnsKept, FreshVerdictsKept
<1>5. LiveIsBound' /\ CallbacksDone'
  BY TaskAdvances
<1>6. ConfirmsWait'
  BY JobFacts DEF ConfirmsWait, TypeOK
<1> QED
  BY <1>4, <1>5, <1>6

LEMMA NextInv == WorkerInv /\ [Next]_vars => WorkerInv'
<1> SUFFICES ASSUME WorkerInv, [Next]_vars PROVE WorkerInv'
  OBVIOUS
<1> USE DEF loopVars, taskVars, slotVars, steerVars, askVars
<1>0. TypeOK /\ TypeOK'
  BY NextType DEF WorkerInv
<1>1. CASE UNCHANGED vars
  BY <1>0, <1>1, QuietStep DEF vars
<1>2. ASSUME NEW media \in BOOLEAN, SendMsg(media) PROVE WorkerInv'
  <2> DEFINE f == TurnFrame(sent.msgs + 1, thread[sent.msgs + 1], media)
  <2>1. f \in Frames /\ f.kind = "turn" /\ f.msg = sent.msgs + 1 /\ f.thread = thread[f.msg]
    BY <1>0, <1>2, SendableFrames DEF SendMsg, TurnFrames, TurnFrame
  <2>2. stdin' = Append(stdin, f) /\ sent'.msgs = sent.msgs + 1 /\ sent'.control = sent.control
    BY <1>0, <1>2 DEF SendMsg, TypeOK
  <2>3. FreshTurns' /\ FreshVerdicts'
    <3> HIDE DEF f
    <3> QED
      BY <1>0, <1>2, <2>1, <2>2, SendFresh DEF SendMsg, WorkerInv, TypeOK
  <2> QED
    BY <1>0, <1>2, <2>3
    DEF SendMsg, WorkerInv, LiveIsBound, CallbacksDone, ConfirmsWait, Live, JobThread
<1>3. CASE SendSteer
  <2> DEFINE f == [kind |-> "steer", msg |-> sent.msgs + 1, thread |-> thread[sent.msgs + 1]]
  <2>1. f \in Frames /\ f.kind = "steer"
    BY <1>0, <1>3, SendableFrames DEF SendSteer
  <2>2. stdin' = Append(stdin, f) /\ sent'.msgs = sent.msgs + 1 /\ sent'.control = sent.control
    BY <1>0, <1>3 DEF SendSteer, TypeOK
  <2>3. FreshTurns' /\ FreshVerdicts'
    <3> HIDE DEF f
    <3> QED
      BY <1>0, <1>3, <2>1, <2>2, SendFresh DEF SendSteer, WorkerInv, TypeOK
  <2> QED
    BY <1>0, <1>3, <2>3
    DEF SendSteer, WorkerInv, LiveIsBound, CallbacksDone, ConfirmsWait, Live, JobThread
<1>4. CASE SendHandshake
  <2> DEFINE f == [kind |-> "handshake"]
  <2>1. f \in Frames /\ f.kind = "handshake"
    BY DEF Frames
  <2>2. FreshTurns' /\ FreshVerdicts'
    <3>1. stdin' = Append(stdin, f) /\ UNCHANGED sent
      BY <1>4 DEF SendHandshake
    <3>2. sent.msgs <= sent'.msgs /\ sent.control <= sent'.control
      BY <1>0, <3>1 DEF TypeOK
    <3> HIDE DEF f
    <3> QED
      BY <1>0, <1>4, <2>1, <3>1, <3>2, SendFresh DEF SendHandshake, WorkerInv
  <2> QED
    BY <1>0, <1>4, <2>2
    DEF SendHandshake, WorkerInv, LiveIsBound, CallbacksDone, ConfirmsWait, Live, JobThread
<1>5. ASSUME NEW f \in ControlFrames, SendControl(f) PROVE WorkerInv'
  <2>1. f \in Frames /\ f.kind # "turn" /\ (f.kind = "verdict" => f.id = sent.control + 1)
    BY <1>0, <1>5, ControlFramesOK DEF SendControl
  <2>2. sent'.msgs = sent.msgs /\ sent'.control = sent.control + 1
    BY <1>0, <1>5 DEF SendControl, TypeOK
  <2>3. FreshTurns' /\ FreshVerdicts'
    <3>1. sent.msgs <= sent'.msgs /\ sent.control <= sent'.control
      BY <1>0, <2>2 DEF TypeOK
    <3> QED
      BY <1>0, <1>5, <2>1, <2>2, <3>1, SendFresh DEF SendControl, WorkerInv
  <2> QED
    BY <1>0, <1>5, <2>3
    DEF SendControl, WorkerInv, LiveIsBound, CallbacksDone, ConfirmsWait, Live, JobThread
<1>6. CASE ReadHandshake
  BY <1>0, <1>6, QuietStep DEF ReadHandshake, Reads
<1>7. CASE ReadFatal
  BY <1>0, <1>7, QuietStep DEF ReadFatal
<1>8. CASE ReadGarbage
  BY <1>0, <1>8, QuietStep DEF ReadGarbage, Reads
<1>9. CASE ReadTurn
  <2>0. PICK f : f = Head(stdin)
    OBVIOUS
  <2>1. /\ f \in TurnFrames /\ HandleTurn(f) /\ stdin' = Tail(stdin) /\ stdin # <<>>
        /\ 1 \in DOMAIN stdin /\ stdin[1] = f
    BY <1>0, <1>9, <2>0, ReadFrame, FrameFields DEF ReadTurn, Reads
  <2>2. Waiting(f) /\ queuedTurn # f /\ f \notin kicked
    BY <2>1 DEF Waiting, OnStdin, WorkerInv, FreshTurns, OnePlaceEach
  <2>3. ~OnStdin(f)'
    <3> SUFFICES ASSUME NEW i \in DOMAIN stdin', stdin'[i] = f PROVE FALSE
      BY DEF OnStdin
    <3>1. i \in Nat /\ i >= 1 /\ i + 1 \in DOMAIN stdin /\ stdin[i + 1] = f
      BY <1>0, <2>1, ReadFrame DEF TypeOK
    <3>2. f.kind = "turn"
      BY <2>1 DEF TurnFrames
    <3> QED
      BY <2>1, <3>1, <3>2 DEF WorkerInv, FreshTurns, OnceOnStdin
  <2>4. PICK d \in {0, 1} : Shifted(d)
    BY <1>0, <2>1, ReadShifts
  <2>5. LiveIsBound' /\ CallbacksDone' /\ ConfirmsWait'
    BY <1>9, <2>1, <2>2, HandleTurnTask DEF ReadTurn
  <2>6. FreshTurns'
    BY <1>0, <1>9, <2>1, <2>2, <2>3, <2>4, HandleTurnFresh DEF ReadTurn, WorkerInv
  <2>7. FreshVerdicts'
    <3>1. \A n \in 1..MaxControl, m \in Msgs : phase'[<<n, m>>] = phase[<<n, m>>]
      BY <1>0, <2>1 DEF HandleTurn, StartJob, Turn, TypeOK, Jobs
    <3> QED
      BY <1>0, <1>9, <2>4, <3>1, FreshVerdictsKept DEF ReadTurn, WorkerInv
  <2> QED
    BY <1>0, <2>5, <2>6, <2>7 DEF WorkerInv
<1>10. CASE ReadSteer
  BY <1>0, <1>10, QuietStep DEF ReadSteer, Reads
<1>11. CASE ReadCancel
  BY <1>0, <1>11, QuietStep DEF ReadCancel, Reads
<1>12. CASE ReadShutdown
  BY <1>0, <1>12, QuietStep DEF ReadShutdown, Reads
<1>13. CASE ReadVerdict
  <2> DEFINE f == Head(stdin)
             j == <<f.id, f.msg>>
  <2>1. /\ f \in Frames /\ f.kind = "verdict" /\ f.msg \in Msgs /\ f.id \in 1..MaxControl
        /\ stdin' = Tail(stdin) /\ stdin # <<>> /\ 1 \in DOMAIN stdin /\ stdin[1] = f
    BY <1>0, <1>13, ReadFrame, FrameFields DEF ReadVerdict, Reads
  <2>2. CASE f.card = "confirm" /\ f.msg \in confirms
    <3>1. Turn(f.msg) \in Jobs /\ Live(Turn(f.msg))
      BY <2>1, <2>2, JobFacts DEF WorkerInv, ConfirmsWait, Live, Running
    <3>2. \A m \in confirms' : Turn(m) # Turn(f.msg) /\ m \in confirms
      BY <1>13, <2>1, <2>2 DEF ReadVerdict, Turn
    <3> QED
      BY <1>0, <1>13, <2>1, <2>2, <3>1, <3>2, TaskStep DEF ReadVerdict, Phases, Running
  <2>3. CASE UNCHANGED <<confirms, phase, turnTask, turnThread>>
    BY <1>0, <1>13, <2>1, <2>3, QuietStep DEF ReadVerdict
  <2>4. CASE ~TurnInFlight /\ StartJob(j, thread[f.msg]) /\ UNCHANGED confirms
    <3>1. j \in Jobs /\ phase[j] = "none" /\ f.id <= sent.control
      BY <2>1 DEF WorkerInv, FreshVerdicts, Jobs
    <3>2. StartJob(j, JobThread(j))
      BY <2>4 DEF JobThread
    <3>3. LiveIsBound' /\ CallbacksDone' /\ ConfirmsWait'
      BY <1>0, <1>13, <2>4, <3>1, <3>2, StartTask DEF ReadVerdict, WorkerInv
    <3>4. \A i \in Jobs : i # j => phase'[i] = phase[i]
      BY <1>0, <2>4, <3>1 DEF StartJob, TypeOK
    <3>5. \A m \in Msgs : Turn(m) \in Jobs /\ Turn(m) # j
      <4>1. f.id # 0
        BY <2>1
      <4>2. \A m \in Msgs : Turn(m) # j
        BY <4>1 DEF Turn
      <4> QED
        BY <4>2, JobFacts
    <3>6. PICK d \in {0, 1} : Shifted(d)
      BY <1>0, <2>1, ReadShifts
    <3>7. FreshTurns'
      BY <1>0, <1>13, <3>4, <3>5, <3>6, FreshTurnsKept DEF ReadVerdict, WorkerInv
    <3>8. FreshVerdicts'
      <4>1. \A i \in DOMAIN stdin' : i \in Nat /\ i >= 1 /\ i + 1 \in DOMAIN stdin
                                     /\ stdin'[i] = stdin[i + 1]
        BY <1>0, <2>1, ReadFrame DEF TypeOK
      <4>2. \A i \in DOMAIN stdin' : stdin'[i].kind = "verdict" =>
              stdin'[i].id # f.id /\ stdin'[i].id \in 1..MaxControl
        BY <1>0, <2>1, <4>1, FrameFields DEF WorkerInv, FreshVerdicts, TypeOK
      <4>3. \A n \in 1..MaxControl, m \in Msgs : n # f.id => phase'[<<n, m>>] = phase[<<n, m>>]
        BY <3>4 DEF Jobs
      <4>4. UNCHANGED sent
        BY <1>13 DEF ReadVerdict
      <4>5. sent.control \in Nat /\ f.id \in Nat
        BY <1>0, <2>1 DEF TypeOK
      <4>6. \A n \in 1..MaxControl : n > sent'.control =>
              \A m \in Msgs : phase'[<<n, m>>] = "none"
        BY <3>1, <4>3, <4>4, <4>5 DEF WorkerInv, FreshVerdicts
      <4> QED
        BY <4>1, <4>2, <4>3, <4>4, <4>6 DEF WorkerInv, FreshVerdicts
    <3> QED
      BY <1>0, <3>3, <3>7, <3>8 DEF WorkerInv
  <2> QED
    BY <1>13, <2>2, <2>3, <2>4 DEF ReadVerdict
<1>14. CASE AbortDone
  BY <1>0, <1>14, QuietStep DEF AbortDone
<1>15. ASSUME NEW j \in Jobs, JobStep(j) PROVE WorkerInv'
  <2>1. Steps(j, "agent") \/ Steps(j, "starting") => Live(j) /\ \A m \in confirms : Turn(m) # j
    BY DEF Steps, Live, Running, WorkerInv, ConfirmsWait
  <2>2. ASSUME NEW to \in {"slash", "agent"}, Prepared(j, to) PROVE WorkerInv'
    BY <1>0, <2>1, <2>2, TaskStep DEF Prepared, Phases, Running
  <2>3. CASE PullSteer(j) \/ InjectSteer(j)
    BY <1>0, <2>3, QuietStep DEF PullSteer, InjectSteer
  <2>4. ASSUME NEW parks \in BOOLEAN, EndAgent(j, parks) PROVE WorkerInv'
    BY <1>0, <2>1, <2>4, TaskStep DEF EndAgent, Phases, Running
  <2>5. CASE FinishTask(j)
    <3>1. Live(j)
      BY <2>5 DEF FinishTask, Steps, Live, Running
    <3>2. \A m \in confirms' : Turn(m) # j /\ m \in confirms
      BY <2>5 DEF FinishTask, Turn, IsTurn, Jobs
    <3> QED
      BY <1>0, <2>5, <3>1, <3>2, TaskStep DEF FinishTask, Phases
  <2> QED
    BY <1>15, <2>2, <2>3, <2>4, <2>5 DEF JobStep
<1>16. ASSUME NEW m \in Msgs, LocalStep(m) PROVE WorkerInv'
  <2>1. Turn(m) \in Jobs /\ Live(Turn(m)) /\ m \notin confirms
    BY <1>16, JobFacts
    DEF LocalStep, AskConfirm, LocalDone, Steps, Live, Running, WorkerInv, ConfirmsWait
  <2>2. \A n \in confirms : Turn(n) # Turn(m)
    BY <2>1 DEF Turn
  <2>3. CASE AskConfirm(m)
    BY <1>0, <2>1, <2>2, <2>3, TaskStep DEF AskConfirm, Phases, Running
  <2>4. ASSUME NEW to \in {"agent", "tail"}, LocalDone(m, to) PROVE WorkerInv'
    BY <1>0, <2>1, <2>2, <2>4, TaskStep DEF LocalDone, Phases, Running
  <2> QED
    BY <1>16, <2>3, <2>4 DEF LocalStep
<1>17. ASSUME NEW j \in Jobs, OnTurnDone(j) PROVE WorkerInv'
  <2>1. ~Live(j)
    BY <1>17 DEF OnTurnDone, WorkerInv, CallbacksDone, Live, Running
  <2>2. LiveIsBound'
    BY <1>17, <2>1 DEF OnTurnDone, IsCurrent, WorkerInv, LiveIsBound, Live, JobThread
  <2>3. CallbacksDone' /\ ConfirmsWait'
    BY <1>17 DEF OnTurnDone, WorkerInv, CallbacksDone, ConfirmsWait
  <2>4. Shifted(0)
    BY <1>0, <1>17 DEF OnTurnDone, Shifted, TypeOK
  <2>5. FreshVerdicts'
    BY <1>0, <1>17, <2>4, FreshVerdictsKept DEF OnTurnDone, WorkerInv
  <2>6. FreshTurns'
    <3>1. CASE kicked' \subseteq kicked
      BY <1>0, <1>17, <2>4, <3>1, FreshTurnsKept DEF OnTurnDone, KickQueued, WorkerInv
    <3>2. CASE /\ queuedTurn # NoFrame /\ queuedTurn' = NoFrame
               /\ kicked' = kicked \cup {queuedTurn}
      <4>1. NoFrame \notin TurnFrames
        BY DEF NoFrame, TurnFrames
      <4>2. \A f \in TurnFrames : (OnStdin(f)' <=> OnStdin(f)) /\ (Waiting(f)' <=> Waiting(f))
        BY <1>17, <3>2, <4>1 DEF OnTurnDone, OnStdin, Waiting
      <4> QED
        BY <1>17, <3>2, <4>1, <4>2
        DEF OnTurnDone, WorkerInv, FreshTurns, NotStarted, OnceOnStdin, OneFrameEach,
            OnePlaceEach, UnsentNotStarted
    <3> QED
      BY <1>17, <3>1, <3>2 DEF OnTurnDone, KickQueued
  <2> QED
    BY <1>0, <2>2, <2>3, <2>5, <2>6 DEF WorkerInv
<1>18. ASSUME NEW f \in TurnFrames, Kick(f) PROVE WorkerInv'
  <2>1. Waiting(f) /\ queuedTurn # f /\ ~OnStdin(f)' /\ f \notin kicked'
    BY <1>18 DEF Kick, Waiting, OnStdin, WorkerInv, FreshTurns, OnePlaceEach
  <2>2. Shifted(0)
    BY <1>0, <1>18 DEF Kick, Shifted, TypeOK
  <2>3. LiveIsBound' /\ CallbacksDone' /\ ConfirmsWait'
    BY <1>18, <2>1, HandleTurnTask DEF Kick
  <2>4. FreshTurns'
    BY <1>0, <1>18, <2>1, <2>2, HandleTurnFresh DEF Kick, WorkerInv
  <2>5. FreshVerdicts'
    <3>1. \A n \in 1..MaxControl, m \in Msgs : phase'[<<n, m>>] = phase[<<n, m>>]
      BY <1>0, <1>18 DEF Kick, HandleTurn, StartJob, Turn, TypeOK, Jobs
    <3> QED
      BY <1>0, <1>18, <2>2, <3>1, FreshVerdictsKept DEF Kick, WorkerInv
  <2> QED
    BY <1>0, <2>3, <2>4, <2>5 DEF WorkerInv
<1> QED
  BY <1>1, <1>2, <1>3, <1>4, <1>5, <1>6, <1>7, <1>8, <1>9, <1>10, <1>11, <1>12, <1>13, <1>14,
     <1>15, <1>16, <1>17, <1>18
  DEF Next, Env, MainLoop

\* The inductive invariant holds in every reachable state.
THEOREM InductiveInvariant == Spec => []WorkerInv
BY InitInv, NextInv, PTL DEF Spec

\* Whatever runs is bound to _turn_task and _turn_thread_id: a cancel, a steer
\* or a shutdown reaches it, whatever callbacks are still pending.
THEOREM RunningTaskIsBound == Spec => []LiveIsBound
<1>1. WorkerInv => LiveIsBound
  BY DEF WorkerInv
<1> QED
  BY <1>1, InductiveInvariant, PTL

\* Two tasks never run at once on the worker's controller.
THEOREM MutualExclusion == Spec => []OneTurnAtATime
<1>1. WorkerInv => OneTurnAtATime
  BY DEF WorkerInv, LiveIsBound, OneTurnAtATime
<1> QED
  BY <1>1, InductiveInvariant, PTL

----------------------------------------------------------------------------
(* Shutdown. *)

\* A worker that is shutting down reads no further frame.
StopsReading == shutdown => loop # "read"

LEMMA StopsReadingInv == StopsReading /\ [Next]_vars => StopsReading'
<1> SUFFICES ASSUME StopsReading, [Next]_vars PROVE StopsReading'
  OBVIOUS
<1> USE DEF loopVars, taskVars, slotVars, steerVars, askVars, StopsReading
<1>1. CASE UNCHANGED vars
  BY <1>1 DEF vars
<1>2. CASE Env
  BY <1>2 DEF Env, SendMsg, SendSteer, SendHandshake, SendControl
<1>3. CASE MainLoop
  BY <1>3 DEF MainLoop, ReadHandshake, ReadFatal, ReadGarbage, ReadTurn, ReadSteer, ReadCancel,
              ReadShutdown, ReadVerdict, AbortDone, Exit, CancelAndAwait, Reads
<1>4. ASSUME NEW j \in Jobs, JobStep(j) \/ OnTurnDone(j) PROVE StopsReading'
  BY <1>4 DEF JobStep, Prepared, PullSteer, InjectSteer, EndAgent, FinishTask, OnTurnDone
<1>5. ASSUME NEW m \in Msgs, LocalStep(m) PROVE StopsReading'
  BY <1>5 DEF LocalStep, AskConfirm, LocalDone
<1>6. ASSUME NEW f \in TurnFrames, Kick(f) PROVE StopsReading'
  BY <1>6 DEF Kick
<1> QED
  BY <1>1, <1>2, <1>3, <1>4, <1>5, <1>6 DEF Next

\* No step taken after _shutdown is set starts a task: the main loop has left
\* its read, and a frame kicked earlier is refused by _handle_turn.
LEMMA LateStepStartsNothing ==
  ASSUME TypeOK, StopsReading, Next, shutdown, NEW j \in Jobs, phase[j] = "none"
  PROVE  phase'[j] = "none"
<1> USE DEF loopVars, taskVars, slotVars, steerVars, askVars, StopsReading
<1>1. CASE Env
  BY <1>1 DEF Env, SendMsg, SendSteer, SendHandshake, SendControl
<1>2. CASE MainLoop
  BY <1>2 DEF MainLoop, ReadHandshake, ReadFatal, ReadGarbage, ReadTurn, ReadSteer, ReadCancel,
              ReadShutdown, ReadVerdict, AbortDone, Reads
<1>3. ASSUME NEW i \in Jobs, JobStep(i) \/ OnTurnDone(i) PROVE phase'[j] = "none"
  BY <1>3 DEF JobStep, Prepared, PullSteer, InjectSteer, EndAgent, FinishTask, OnTurnDone,
              Steps, Live, Running, TypeOK
<1>4. ASSUME NEW m \in Msgs, LocalStep(m) PROVE phase'[j] = "none"
  BY <1>4, JobFacts DEF LocalStep, AskConfirm, LocalDone, Steps, TypeOK
<1>5. ASSUME NEW f \in TurnFrames, Kick(f) PROVE phase'[j] = "none"
  BY <1>5 DEF Kick, HandleTurn, Accepting
<1> QED
  BY <1>1, <1>2, <1>3, <1>4, <1>5 DEF Next

\* Once the worker is shutting down no turn and no approval resume starts.
THEOREM NoLateStart == Spec => NoStartAfterShutdown
<1>1. Init => StopsReading
  BY DEF Init, StopsReading
<1>2. TypeOK /\ StopsReading /\ [Next]_vars
        => [shutdown => \A j \in Jobs : phase[j] = "none" => phase'[j] = "none"]_vars
  BY LateStepStartsNothing
<1> QED
  BY <1>1, <1>2, StopsReadingInv, TypeCorrect, PTL DEF Spec, NoStartAfterShutdown

=============================================================================
