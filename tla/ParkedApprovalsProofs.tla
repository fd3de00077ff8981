------------------------ MODULE ParkedApprovalsProofs ------------------------
(***************************************************************************)
(* Every run of a gated call is paid for by an approving tap, and every    *)
(* suspended call can still be answered, for any number of threads, calls, *)
(* taps, faults and rows.                                                  *)
(***************************************************************************)
EXTENDS ParkedApprovals, FiniteSetTheorems, TLAPS

Stages == {"inspect", "resolve", "parked", "tail", "tools", "model"}
JobRecords == [kind : {"turn", "resume"}, thread : Threads, stage : Stages,
               token : Tokens \cup {None}, ok : BOOLEAN]

LEMMA IdleIsNoJob == Idle \notin JobRecords
BY DEF Idle, JobRecords

\* A job that moves to another stage keeps everything else.
LEMMA JobMoves ==
  ASSUME TypeOK, job # Idle, NEW s \in Stages, job' = [job EXCEPT !.stage = s]
  PROVE  /\ job' \in JobRecords /\ job' # Idle /\ job'.stage = s
         /\ job'.kind = job.kind /\ job'.thread = job.thread
         /\ job'.token = job.token /\ job'.ok = job.ok
<1>1. job \in JobRecords
  BY DEF TypeOK, JobRecords, Stages
<1>2. /\ job' \in JobRecords /\ job'.stage = s
      /\ job'.kind = job.kind /\ job'.thread = job.thread
      /\ job'.token = job.token /\ job'.ok = job.ok
  BY <1>1 DEF JobRecords
<1> QED
  BY <1>2, IdleIsNoJob

LEMMA JobFields ==
  ASSUME TypeOK, job # Idle
  PROVE  /\ job.kind \in {"turn", "resume"} /\ job.thread \in Threads
         /\ job.stage \in Stages /\ job.ok \in BOOLEAN /\ job \in JobRecords
BY DEF TypeOK, JobRecords, Stages

\* load(token) returns the one row with that token.
LEMMA RowFound ==
  ASSUME TypeOK, TokensFresh, NEW k, HasRow(k)
  PROVE  /\ RowOf(k) \in rows /\ RowOf(k).token = k /\ RowOf(k).thread \in Threads
         /\ \A r \in rows : r.token = k => r = RowOf(k)
<1>1. RowOf(k) \in rows /\ RowOf(k).token = k
  BY DEF HasRow, RowOf
<1> QED
  BY <1>1 DEF TypeOK, Rows, TokensFresh

----------------------------------------------------------------------------
(* Counting the verdicts under way. *)

LEMMA WireFinite ==
  ASSUME IsFiniteSet(wire), NEW t
  PROVE  IsFiniteSet(OnTheWire(t)) /\ Cardinality(OnTheWire(t)) \in Nat
<1>1. OnTheWire(t) \subseteq wire
  BY DEF OnTheWire
<1> QED
  BY <1>1, FS_Subset, FS_CardinalityType

LEMMA FewerOnTheWire ==
  ASSUME IsFiniteSet(wire), NEW t, OnTheWire(t)' \subseteq OnTheWire(t)
  PROVE  Cardinality(OnTheWire(t)') \in Nat
         /\ Cardinality(OnTheWire(t)') <= Cardinality(OnTheWire(t))
BY WireFinite, FS_Subset, FS_CardinalityType

\* A step that puts no verdict on the wire, spends none and starts no run is
\* covered as before; the calls it numbers are new.
LEMMA CoverKept ==
  ASSUME ApprovalInv, askThread' \in [Asks -> Threads], UNCHANGED <<okTaps, ran>>,
         \A t \in Threads : OnTheWire(t)' \subseteq OnTheWire(t),
         \A t \in Threads : Resumes(t)' => Resumes(t),
         \A a \in Asks : \A t \in Threads :
           askThread'[a] = t =>
             \/ a > asked
             \/ askThread[a] = t /\ (Unspent(a, t)' => Unspent(a, t))
  PROVE  TapsCover'
<1> SUFFICES ASSUME NEW t \in Threads
             PROVE  /\ Cardinality(OnTheWire(t)') + (IF Resumes(t)' THEN 1 ELSE 0) <= okTaps[t]
                    /\ \A a \in Asks :
                         askThread'[a] = t =>
                           ran[a] + Cardinality(OnTheWire(t)') + (IF Unspent(a, t)' THEN 1 ELSE 0)
                             <= okTaps[t]
  BY DEF TapsCover
<1>1. /\ Cardinality(OnTheWire(t)') \in Nat /\ Cardinality(OnTheWire(t)) \in Nat
      /\ Cardinality(OnTheWire(t)') <= Cardinality(OnTheWire(t))
  BY FewerOnTheWire, WireFinite DEF ApprovalInv, TokensFresh
<1>2. okTaps[t] \in Nat
  BY DEF ApprovalInv, TypeOK
<1>3. Cardinality(OnTheWire(t)') + (IF Resumes(t)' THEN 1 ELSE 0) <= okTaps[t]
  BY <1>1, <1>2 DEF ApprovalInv, TapsCover
<1>4. ASSUME NEW a \in Asks, askThread'[a] = t
      PROVE  ran[a] + Cardinality(OnTheWire(t)') + (IF Unspent(a, t)' THEN 1 ELSE 0) <= okTaps[t]
  <2>1. ran[a] \in Nat
    BY DEF ApprovalInv, TypeOK
  <2>2. CASE a > asked
    <3>1. ran[a] = 0
      BY <2>2 DEF ApprovalInv, CallsInOrder
    <3>2. Unspent(a, t)' => Resumes(t)'
      BY DEF Unspent
    <3> QED
      BY <1>1, <1>2, <1>3, <3>1, <3>2
  <2>3. CASE askThread[a] = t /\ (Unspent(a, t)' => Unspent(a, t))
    BY <1>1, <1>2, <2>1, <2>3 DEF ApprovalInv, TapsCover
  <2> QED
    BY <1>4, <2>2, <2>3
<1> QED
  BY <1>3, <1>4
----------------------------------------------------------------------------
(* Type correctness. *)

Typed == TypeOK /\ TokensFresh /\ askThread \in [Asks -> Threads]

LEMMA NextType == ApprovalInv /\ [Next]_vars => Typed'
<1> SUFFICES ASSUME ApprovalInv, [Next]_vars PROVE Typed'
  OBVIOUS
<1> USE ApprovalsAssumption DEF ApprovalInv, Typed, vars, durable, routing, history, counts
<1>0. IsFiniteSet({})
  BY FS_EmptySet
<1>1. CASE UNCHANGED vars
  BY <1>1 DEF TypeOK, TokensFresh
<1>2. CASE Prompt
  BY <1>2 DEF Prompt, TypeOK, TokensFresh
<1>3. CASE NewThread
  BY <1>3 DEF NewThread, TypeOK, TokensFresh
<1>4. ASSUME NEW k \in Tokens, NEW ok \in BOOLEAN, Tap(k, ok) PROVE Typed'
  <2>1. CASE UNCHANGED <<busy, wire, up, active, okTaps>>
    BY <1>4, <2>1 DEF Tap, TypeOK, TokensFresh
  <2>2. CASE HasRow(k) /\ wire' = wire \cup {[token |-> k, ok |-> ok]}
             /\ busy' = TRUE /\ up' = TRUE /\ active' = RowOf(k).thread
             /\ okTaps' = IF ok THEN [okTaps EXCEPT ![RowOf(k).thread] = @ + 1] ELSE okTaps
    <3>1. RowOf(k) \in rows /\ RowOf(k).thread \in Threads
      BY <2>2, RowFound
    <3>2. k <= minted
      BY <2>2 DEF HasRow, TokensFresh
    <3>3. IsFiniteSet(wire')
      BY <2>2, FS_AddElement DEF TokensFresh
    <3>4. okTaps' \in [Threads -> Nat]
      BY <2>2, <3>1 DEF TypeOK
    <3>5. TypeOK'
      BY <1>4, <2>2, <3>1, <3>4 DEF Tap, TypeOK
    <3>6. TokensFresh'
      BY <1>4, <2>2, <3>2, <3>3 DEF Tap, TokensFresh
    <3> QED
      BY <1>4, <3>5, <3>6 DEF Tap
  <2> QED
    BY <1>4, <2>1, <2>2 DEF Tap
<1>5. ASSUME NEW v \in wire, ReadVerdict(v) PROVE Typed'
  <2>1. IsFiniteSet(wire')
    BY <1>5, FS_RemoveElement DEF ReadVerdict, TokensFresh
  <2>2. v.token \in Tokens /\ v.ok \in BOOLEAN
    BY DEF TypeOK
  <2>3. CASE UNCHANGED job
    BY <1>5, <2>1, <2>3 DEF ReadVerdict, TypeOK, TokensFresh
  <2>4. CASE HasRow(v.token) /\ job' = [kind |-> "resume", thread |-> RowOf(v.token).thread,
                                        stage |-> "inspect", token |-> v.token, ok |-> v.ok]
    <3>1. RowOf(v.token).thread \in Threads
      BY <2>4, RowFound
    <3> QED
      BY <1>5, <2>1, <2>2, <2>4, <3>1 DEF ReadVerdict, TypeOK, TokensFresh
  <2> QED
    BY <1>5, <2>3, <2>4 DEF ReadVerdict
<1>6. CASE Inspect
  BY <1>6, JobMoves DEF Inspect, Over, DropRow, DeleteRow, TypeOK, TokensFresh, JobRecords, Stages
<1>7. CASE Park
  <2>1. minted + 1 \in Tokens
    BY <1>7 DEF Park, TokensFresh, Tokens
  <2>2. job \in JobRecords
    BY <1>7, JobFields DEF Park
  <2>3. job' \in JobRecords
    BY <1>7, <2>1, <2>2 DEF Park, JobRecords, Stages
  <2>4. rows' \subseteq Rows
    BY <1>7, <2>1, <2>2 DEF Park, RecordRow, TypeOK, Rows, JobRecords
  <2>5. TypeOK'
    BY <1>7, <2>3, <2>4 DEF Park, TypeOK, JobRecords, Stages
  <2>6. \A r \in rows : r.token \in Nat /\ r.token <= minted
    BY DEF TypeOK, TokensFresh, Rows, Tokens
  <2>7. TokensFresh'
    BY <1>7, <2>1, <2>6 DEF Park, RecordRow, TokensFresh, TypeOK, Tokens
  <2> QED
    BY <1>7, <2>5, <2>7 DEF Park
<1>8. CASE EmitAsk
  <2>1. job.token \in Tokens
    BY <1>8 DEF EmitAsk, JobInv, TypeOK, Rows
  <2> QED
    BY <1>8, <2>1, JobMoves DEF EmitAsk, TypeOK, TokensFresh, JobRecords, Stages
<1>9. CASE TailEnds
  BY <1>9 DEF TailEnds, Over, TypeOK, TokensFresh
<1>10. CASE Answer
  <2>1. ran' \in [Asks -> Nat]
    BY <1>10 DEF Answer, TypeOK
  <2> QED
    BY <1>10, <2>1, JobMoves DEF Answer, TypeOK, TokensFresh, JobRecords, Stages
<1>11. CASE CommitTools
  BY <1>11, JobMoves DEF CommitTools, TypeOK, TokensFresh, JobRecords, Stages
<1>12. ASSUME NEW n \in 1..2, ModelAsks(n) PROVE Typed'
  <2>1. (asked + 1)..(asked + n) \subseteq Asks /\ asked + n \in 0..MaxAsks
    BY <1>12 DEF ModelAsks, TokensFresh, Asks
  <2>2. job.thread \in Threads
    BY <1>12, JobFields DEF ModelAsks
  <2>3. pending' \in [Threads -> SUBSET Asks] /\ askThread' \in [Asks -> Threads]
    BY <1>12, <2>1, <2>2 DEF ModelAsks, TypeOK
  <2> QED
    BY <1>12, <2>1, <2>3, JobMoves DEF ModelAsks, TypeOK, TokensFresh, JobRecords, Stages
<1>13. CASE ModelDone
  BY <1>13 DEF ModelDone, Over, DropRow, DeleteRow, TypeOK, TokensFresh
<1>14. CASE CutShort
  BY <1>14 DEF CutShort, Over, DropRow, DeleteRow, TypeOK, TokensFresh
<1>15. CASE Heartbeat
  BY <1>15 DEF Heartbeat, TypeOK, TokensFresh
<1>16. CASE WorkerDies
  BY <1>0, <1>16 DEF WorkerDies, TypeOK, TokensFresh
<1>17. CASE GatewayRestarts
  <2>1. cards' \subseteq Tokens
    BY <1>17 DEF GatewayRestarts, TypeOK, Rows
  <2>2. TokensFresh'
    BY <1>0, <1>17 DEF GatewayRestarts, TokensFresh
  <2> QED
    BY <1>17, <2>1, <2>2 DEF GatewayRestarts, TypeOK
<1> QED
  BY <1>1, <1>2, <1>3, <1>4, <1>5, <1>6, <1>7, <1>8, <1>9, <1>10, <1>11, <1>12, <1>13,
     <1>14, <1>15, <1>16, <1>17
  DEF Next, Worker
----------------------------------------------------------------------------
(* The other parts of the invariant. *)

\* A call that has run or waits has come up, on the thread it waits on.
LEMMA NextCalls == ApprovalInv /\ [Next]_vars => CallsInOrder'
<1> SUFFICES ASSUME ApprovalInv, [Next]_vars PROVE CallsInOrder'
  OBVIOUS
<1> USE DEF ApprovalInv, vars, durable, routing, history, counts
<1>1. CASE UNCHANGED <<pending, askThread, asked, ran>>
  BY <1>1 DEF CallsInOrder
<1>2. CASE Answer
  <2>1. job.thread \in Threads
    BY <1>2, JobFields DEF Answer
  <2>2. asked \in Nat /\ \A a \in Asks : a > asked => a \notin pending[job.thread]
    BY <2>1 DEF CallsInOrder, TokensFresh, Asks
  <2>3. \A a \in Asks : a > asked => ran'[a] = 0
    BY <1>2, <2>2 DEF Answer, CallsInOrder
  <2> QED
    BY <1>2, <2>3 DEF Answer, CallsInOrder
<1>3. CASE CommitTools
  BY <1>3, JobFields DEF CommitTools, CallsInOrder, TypeOK
<1>4. ASSUME NEW n \in 1..2, ModelAsks(n) PROVE CallsInOrder'
  <2>1. job.thread \in Threads
    BY <1>4, JobFields DEF ModelAsks
  <2>2. asked \in Nat /\ asked' = asked + n
    BY <1>4 DEF ModelAsks, TokensFresh
  <2>3. \A a \in Asks : a > asked' => ran'[a] = 0
    BY <1>4, <2>2 DEF ModelAsks, CallsInOrder, Asks
  <2>4. \A t \in Threads : t # job.thread => pending'[t] = pending[t]
    BY <1>4, <2>1 DEF ModelAsks, TypeOK
  <2>5. pending'[job.thread] = (asked + 1)..(asked + n)
    BY <1>4, <2>1 DEF ModelAsks, TypeOK
  <2>6. \A a \in (asked + 1)..(asked + n) : a \in Asks /\ askThread'[a] = job.thread
    BY <1>4, <2>2, ApprovalsAssumption DEF ModelAsks, Asks
  <2>7. \A t \in Threads : \A a \in pending[t] :
          a \in Asks /\ a \notin (asked + 1)..(asked + n) /\ a <= asked + n
    BY <2>2 DEF CallsInOrder, TypeOK, Asks
  <2>8. \A t \in Threads : \A a \in pending[t] : askThread'[a] = t
    BY <1>4, <2>7 DEF ModelAsks, CallsInOrder
  <2>9. \A t \in Threads : \A a \in pending'[t] : a <= asked' /\ askThread'[a] = t
    BY <2>2, <2>4, <2>5, <2>6, <2>7, <2>8
  <2> QED
    BY <2>3, <2>9 DEF CallsInOrder
<1> QED
  BY <1>1, <1>2, <1>3, <1>4
  DEF Next, Worker, Prompt, NewThread, Tap, ReadVerdict, Inspect, Park, EmitAsk, TailEnds,
      ModelDone, CutShort, Heartbeat, WorkerDies, GatewayRestarts

\* What the job's stage says stays true.
LEMMA NextJob == ApprovalInv /\ [Next]_vars => JobInv'
<1> SUFFICES ASSUME ApprovalInv, [Next]_vars PROVE JobInv'
  OBVIOUS
<1> USE DEF ApprovalInv, vars, durable, routing, history, counts
<1>1. CASE UNCHANGED <<job, pending, rows>>
  BY <1>1 DEF JobInv
<1>2. CASE job' = Idle
  BY <1>2 DEF JobInv
<1>3. CASE Prompt
  BY <1>3 DEF Prompt, JobInv
<1>4. ASSUME NEW v \in wire, ReadVerdict(v), job' # job PROVE JobInv'
  <2>1. HasRow(v.token)
    BY <1>4 DEF ReadVerdict
  <2>2. \A r \in rows : r.token = v.token => r.thread = RowOf(v.token).thread
    BY <2>1, RowFound
  <2> QED
    BY <1>4, <2>2 DEF ReadVerdict, JobInv, durable
<1>5. CASE Inspect /\ job' # Idle
  <2>1. UNCHANGED <<rows, pending>>
    BY <1>5 DEF Inspect, Over
  <2>2. \/ job' = [job EXCEPT !.stage = "resolve"]
        \/ pending[job.thread] = {} /\ job' = [job EXCEPT !.stage = "model"]
    BY <1>5 DEF Inspect, Over
  <2> QED
    BY <1>5, <2>1, <2>2, JobMoves DEF Inspect, JobInv, Stages
<1>6. CASE Park
  <2>1. job \in JobRecords
    BY <1>6, JobFields DEF Park
  <2>2. /\ job'.kind = "turn" /\ job'.stage = "parked" /\ job'.thread = job.thread
        /\ job'.token = minted + 1
    BY <1>6, <2>1 DEF Park, JobRecords
  <2>3. \E r \in rows' : r.token = minted + 1 /\ r.thread = job.thread
    <3>1. [token |-> minted + 1, thread |-> job.thread] \in rows'
      BY <1>6 DEF Park, RecordRow
    <3> QED
      BY <3>1
  <2> QED
    BY <2>2, <2>3 DEF JobInv
<1>7. CASE EmitAsk
  BY <1>7, JobMoves DEF EmitAsk, JobInv, Stages
<1>8. CASE Answer
  BY <1>8, JobMoves DEF Answer, JobInv, Stages
<1>9. CASE CommitTools
  BY <1>9, JobMoves, JobFields DEF CommitTools, JobInv, Stages, TypeOK
<1>10. ASSUME NEW n \in 1..2, ModelAsks(n) PROVE JobInv'
  BY <1>10, JobMoves DEF ModelAsks, JobInv, Stages
<1> QED
  BY <1>1, <1>2, <1>3, <1>4, <1>5, <1>6, <1>7, <1>8, <1>9, <1>10
  DEF Next, Worker, NewThread, Tap, ReadVerdict, TailEnds, Over,
      ModelDone, CutShort, Heartbeat, WorkerDies, GatewayRestarts
\* The row a finished resume drops is of its own thread.
LEMMA DropsOwnRow ==
  ASSUME ApprovalInv, job # Idle, DropRow
  PROVE  /\ rows' \subseteq rows
         /\ \A r \in rows : r.thread # job.thread => r \in rows'
BY DEF ApprovalInv, JobInv, DropRow, DeleteRow

\* A suspended call keeps a row to answer it by.
LEMMA NextRow == ApprovalInv /\ [Next]_vars => SuspendedHasRow'
<1> SUFFICES ASSUME ApprovalInv, [Next]_vars PROVE SuspendedHasRow'
  OBVIOUS
<1> USE DEF ApprovalInv, vars, durable, routing, history, counts
<1>1. CASE /\ UNCHANGED <<pending, rows, cutShort>>
           /\ job = Idle \/ (job # Idle /\ job' # Idle /\ job'.thread = job.thread)
  BY <1>1 DEF SuspendedHasRow
<1>2. CASE UNCHANGED <<pending, rows, cutShort, job>>
  BY <1>2 DEF SuspendedHasRow
<1>3. ASSUME NEW v \in wire, ReadVerdict(v), job' # job PROVE SuspendedHasRow'
  <2>1. job = Idle /\ UNCHANGED <<pending, rows, cutShort>>
    BY <1>3 DEF ReadVerdict, durable
  <2> QED
    BY <1>1, <2>1
<1>4. CASE Inspect
  <2>1. CASE job' # Idle
    <3>1. \E s \in Stages : job' = [job EXCEPT !.stage = s]
      BY <1>4, <2>1 DEF Inspect, Over, Stages
    <3>2. job'.thread = job.thread /\ job # Idle
      BY <1>4, <3>1, JobMoves DEF Inspect
    <3> QED
      BY <1>1, <1>4, <2>1, <3>2 DEF Inspect, Over
  <2>2. CASE pending[job.thread] = {} /\ Over /\ DropRow
    BY <1>4, <2>2, DropsOwnRow DEF Inspect, SuspendedHasRow
  <2>3. CASE job' = Idle /\ \E s \in Stages : job' = [job EXCEPT !.stage = s]
    BY <1>4, <2>3, JobMoves DEF Inspect
  <2> QED
    BY <1>4, <2>1, <2>2, <2>3 DEF Inspect, Stages
<1>5. CASE Park
  <2>1. job # Idle /\ job \in JobRecords
    BY <1>5, JobFields DEF Park
  <2>2. job'.thread = job.thread /\ job' # Idle
    BY <1>5, <2>1, IdleIsNoJob DEF Park, JobRecords, Idle
  <2> QED
    BY <1>5, <2>1, <2>2 DEF Park, RecordRow, SuspendedHasRow
<1>6. CASE EmitAsk
  BY <1>1, <1>6, JobMoves DEF EmitAsk, Stages
<1>7. CASE TailEnds
  BY <1>7 DEF TailEnds, Over, JobInv, SuspendedHasRow
<1>8. CASE Answer
  BY <1>1, <1>8, JobMoves DEF Answer, Stages
<1>9. ASSUME CommitTools \/ \E n \in 1..2 : ModelAsks(n) PROVE SuspendedHasRow'
  <2>1. job # Idle /\ job' # Idle /\ job'.thread = job.thread /\ UNCHANGED <<rows, cutShort>>
    BY <1>9, JobMoves DEF CommitTools, ModelAsks, Stages
  <2>2. \A t \in Threads : t # job.thread => pending'[t] = pending[t]
    BY <1>9, JobFields DEF CommitTools, ModelAsks, TypeOK
  <2> QED
    BY <2>1, <2>2 DEF SuspendedHasRow
<1>10. CASE ModelDone
  BY <1>10, DropsOwnRow DEF ModelDone, Over, JobInv, SuspendedHasRow
<1>11. CASE CutShort
  BY <1>11, DropsOwnRow DEF CutShort, Over, SuspendedHasRow
<1>12. CASE WorkerDies
  BY <1>12 DEF WorkerDies, Cut, SuspendedHasRow
<1>13. CASE GatewayRestarts
  BY <1>13 DEF GatewayRestarts, Cut, SuspendedHasRow
<1>14. CASE Prompt
  BY <1>1, <1>14 DEF Prompt
<1> QED
  BY <1>2, <1>3, <1>4, <1>5, <1>6, <1>7, <1>8, <1>9, <1>10, <1>11, <1>12, <1>13, <1>14
  DEF Next, Worker, NewThread, Tap, ReadVerdict, Heartbeat

\* The approving tap of a card pays for its verdict.
LEMMA TapCovered ==
  ASSUME ApprovalInv, NEW k \in Tokens, NEW ok \in BOOLEAN, Tap(k, ok)
  PROVE  TapsCover'
<1> USE DEF ApprovalInv
<1>1. UNCHANGED <<rows, pending, askThread, ran, job, asked>>
  BY DEF Tap
<1>2. CASE UNCHANGED <<wire, okTaps>>
  BY <1>1, <1>2, CoverKept DEF OnTheWire, Resumes, Unspent
<1>3. CASE /\ HasRow(k) /\ wire' = wire \cup {[token |-> k, ok |-> ok]}
           /\ okTaps' = IF ok THEN [okTaps EXCEPT ![RowOf(k).thread] = @ + 1] ELSE okTaps
  <2> DEFINE u == RowOf(k).thread
             v == [token |-> k, ok |-> ok]
  <2>1. u \in Threads /\ \A r \in rows : r.token = k => r.thread = u
    BY <1>3, RowFound
  <2>2. \A t \in Threads : okTaps[t] \in Nat
    BY DEF TypeOK
  <2>3. \A t \in Threads : okTaps'[t] = IF ok /\ t = u THEN okTaps[t] + 1 ELSE okTaps[t]
    BY <1>3, <2>1 DEF TypeOK
  <2>4. \A t \in Threads : OnTheWire(t)' \subseteq
                             IF ok /\ t = u THEN OnTheWire(t) \cup {v} ELSE OnTheWire(t)
    BY <1>1, <1>3, <2>1 DEF OnTheWire
  <2> HIDE DEF u, v
  <2>5. \A t \in Threads : IsFiniteSet(OnTheWire(t)) /\ Cardinality(OnTheWire(t)) \in Nat
    BY WireFinite DEF TokensFresh
  <2>6. \A t \in Threads :
          /\ Cardinality(OnTheWire(t)') \in Nat
          /\ Cardinality(OnTheWire(t)') - Cardinality(OnTheWire(t)) <= okTaps'[t] - okTaps[t]
    <3> TAKE t \in Threads
    <3>1. CASE ok /\ t = u
      <4>1. /\ IsFiniteSet(OnTheWire(t) \cup {v})
            /\ Cardinality(OnTheWire(t) \cup {v}) <= Cardinality(OnTheWire(t)) + 1
            /\ Cardinality(OnTheWire(t) \cup {v}) \in Nat
        <5> DEFINE S == OnTheWire(t)
        <5>1. IsFiniteSet(S) /\ Cardinality(S) \in Nat
          BY <2>5
        <5> HIDE DEF S
        <5>2. /\ IsFiniteSet(S \cup {v})
              /\ Cardinality(S \cup {v}) = IF v \in S THEN Cardinality(S) ELSE Cardinality(S) + 1
          BY <5>1, FS_AddElement
        <5>3. /\ IsFiniteSet(S \cup {v}) /\ Cardinality(S \cup {v}) <= Cardinality(S) + 1
              /\ Cardinality(S \cup {v}) \in Nat
          BY <5>1, <5>2
        <5> QED
          BY <5>3 DEF S
      <4>2. OnTheWire(t)' \subseteq OnTheWire(t) \cup {v}
        BY <2>4, <3>1
      <4>3. /\ Cardinality(OnTheWire(t)') <= Cardinality(OnTheWire(t) \cup {v})
            /\ Cardinality(OnTheWire(t)') \in Nat
        BY <4>1, <4>2, FS_Subset, FS_CardinalityType
      <4> QED
        BY <2>2, <2>3, <2>5, <3>1, <4>1, <4>3
    <3>2. CASE ~(ok /\ t = u)
      <4>1. OnTheWire(t)' \subseteq OnTheWire(t)
        BY <2>4, <3>2
      <4> QED
        BY <2>2, <2>3, <2>5, <3>2, <4>1, FewerOnTheWire DEF TokensFresh
    <3> QED
      BY <3>1, <3>2
  <2>7. \A t \in Threads : /\ Resumes(t)' <=> Resumes(t)
                           /\ \A a \in Asks : Unspent(a, t)' <=> Unspent(a, t)
    BY <1>1 DEF Resumes, Unspent
  <2>8. \A t \in Threads : okTaps'[t] \in Nat
    BY <2>2, <2>3
  <2>9. \A a \in Asks : ran[a] \in Nat
    BY DEF TypeOK
  <2> QED
    BY <1>1, <2>2, <2>5, <2>6, <2>7, <2>8, <2>9 DEF TapsCover
<1> QED
  BY <1>2, <1>3 DEF Tap
\* The verdict that leaves the wire is the one the resume holds.
LEMMA ReadCovered ==
  ASSUME ApprovalInv, NEW v \in wire, ReadVerdict(v)
  PROVE  TapsCover'
<1> USE DEF ApprovalInv
<1>1. UNCHANGED <<rows, pending, askThread, ran, asked, okTaps>> /\ wire' = wire \ {v}
  BY DEF ReadVerdict, durable
<1>2. \A t \in Threads : OnTheWire(t)' = OnTheWire(t) \ {v}
  BY <1>1 DEF OnTheWire
<1>3. CASE UNCHANGED job
  BY <1>1, <1>2, <1>3, CoverKept DEF Resumes, Unspent
<1>4. CASE /\ job = Idle /\ HasRow(v.token)
           /\ job' = [kind |-> "resume", thread |-> RowOf(v.token).thread, stage |-> "inspect",
                      token |-> v.token, ok |-> v.ok]
  <2> DEFINE u == RowOf(v.token).thread
  <2>1. u \in Threads /\ \E r \in rows : r.token = v.token /\ r.thread = u
    BY <1>4, RowFound
  <2>2. \A t \in Threads : /\ ~Resumes(t)
                           /\ Resumes(t)' => t = u /\ v.ok
                           /\ \A a \in Asks : ~Unspent(a, t) /\ (Unspent(a, t)' => Resumes(t)')
    BY <1>4 DEF Resumes, Unspent
  <2>3. v.ok => v \in OnTheWire(u)
    BY <2>1 DEF OnTheWire
  <2> HIDE DEF u
  <2>4. ASSUME NEW t \in Threads
        PROVE  /\ Cardinality(OnTheWire(t)) \in Nat /\ Cardinality(OnTheWire(t)') \in Nat
               /\ Cardinality(OnTheWire(t)') + (IF Resumes(t)' THEN 1 ELSE 0)
                    <= Cardinality(OnTheWire(t))
    <3> DEFINE S == OnTheWire(t)
    <3>1. IsFiniteSet(S) /\ Cardinality(S) \in Nat
      BY WireFinite DEF TokensFresh
    <3>2. Resumes(t)' => v \in S
      BY <2>2, <2>3
    <3>3. OnTheWire(t)' = S \ {v}
      BY <1>2
    <3> HIDE DEF S
    <3>4. /\ IsFiniteSet(S \ {v})
          /\ Cardinality(S \ {v}) = IF v \in S THEN Cardinality(S) - 1 ELSE Cardinality(S)
      BY <3>1, FS_RemoveElement
    <3>5. Cardinality(S \ {v}) \in Nat
      BY <3>4, FS_CardinalityType
    <3>6. /\ Cardinality(S) \in Nat /\ Cardinality(OnTheWire(t)') \in Nat
          /\ Cardinality(OnTheWire(t)') + (IF Resumes(t)' THEN 1 ELSE 0) <= Cardinality(S)
      BY <3>1, <3>2, <3>3, <3>4, <3>5
    <3> QED
      BY <3>6 DEF S
  <2>5. \A t \in Threads : okTaps[t] \in Nat
    BY DEF TypeOK
  <2>6. \A a \in Asks : ran[a] \in Nat
    BY DEF TypeOK
  <2> QED
    BY <1>1, <2>2, <2>4, <2>5, <2>6 DEF TapsCover
<1> QED
  BY <1>3, <1>4 DEF ReadVerdict

\* The run an approved resume starts was still unspent.
LEMMA AnswerCovered ==
  ASSUME ApprovalInv, Answer
  PROVE  TapsCover'
<1> USE DEF ApprovalInv
<1>1. UNCHANGED <<rows, wire, pending, askThread, okTaps>>
  BY DEF Answer, durable
<1>2. job # Idle /\ job.stage = "resolve" /\ job.kind = "resume"
      /\ job' # Idle /\ job'.stage = "tools" /\ job'.kind = job.kind
      /\ job'.thread = job.thread /\ job'.ok = job.ok
  BY JobMoves DEF Answer, Stages
<1>3. \A t \in Threads : /\ OnTheWire(t)' = OnTheWire(t)
                         /\ Resumes(t)' <=> Resumes(t)
                         /\ \A a \in Asks : ~Unspent(a, t)'
  BY <1>1, <1>2 DEF OnTheWire, Resumes, Unspent
<1>4. \A t \in Threads, a \in Asks :
        askThread[a] = t => ran'[a] = IF Unspent(a, t) THEN ran[a] + 1 ELSE ran[a]
  <2> TAKE t \in Threads, a \in Asks
  <2> HAVE askThread[a] = t
  <2>1. a \in pending[job.thread] => job.thread = t
    BY <1>2, JobFields DEF CallsInOrder
  <2> QED
    BY <1>2, <2>1 DEF Answer, Approves, Unspent, Resumes
<1>5. \A t \in Threads : Cardinality(OnTheWire(t)) \in Nat /\ okTaps[t] \in Nat
  BY WireFinite DEF TokensFresh, TypeOK
<1>6. \A a \in Asks : ran[a] \in Nat
  BY DEF TypeOK
<1> QED
  BY <1>1, <1>3, <1>4, <1>5, <1>6 DEF TapsCover

LEMMA NextCover == ApprovalInv /\ [Next]_vars => TapsCover'
<1> SUFFICES ASSUME ApprovalInv, [Next]_vars PROVE TapsCover'
  OBVIOUS
<1> USE DEF ApprovalInv, vars, durable, routing, history, counts
<1>1. askThread' \in [Asks -> Threads]
  BY NextType DEF Typed
\* A step after which fewer rows and verdicts are there, and the job goes on or ends.
<1>2. ASSUME UNCHANGED <<askThread, okTaps, ran>>, wire' \subseteq wire,
             \A r \in rows' : r \in rows \/ r.token > minted,
             \A t \in Threads : Resumes(t)' => Resumes(t),
             \A t \in Threads : \A a \in Asks : Unspent(a, t)' => Unspent(a, t)
      PROVE  TapsCover'
  <2>1. \A v \in wire : v.token \in Nat /\ v.token <= minted /\ minted \in Nat
    BY DEF TypeOK, TokensFresh, Tokens
  <2>2. \A t \in Threads : OnTheWire(t)' \subseteq OnTheWire(t)
    BY <1>2, <2>1 DEF OnTheWire
  <2> QED
    BY <1>1, <1>2, <2>2, CoverKept
<1>3. CASE job' = Idle /\ rows' \subseteq rows /\ wire' \subseteq wire
           /\ UNCHANGED <<askThread, okTaps, ran>>
  BY <1>2, <1>3 DEF Resumes, Unspent
<1>4. CASE UNCHANGED <<rows, wire, job, pending, askThread, okTaps, ran>>
  BY <1>2, <1>4 DEF Resumes, Unspent
<1>5. CASE Prompt
  BY <1>2, <1>5 DEF Prompt, Resumes, Unspent
<1>6. CASE Inspect
  <2>1. CASE job' = Idle
    <3>1. job # Idle /\ ~ \E s \in Stages : job' = [job EXCEPT !.stage = s]
      BY <1>6, <2>1, JobMoves DEF Inspect
    <3>2. DropRow
      BY <1>6, <3>1 DEF Inspect, Stages
    <3> QED
      BY <1>3, <1>6, <2>1, <3>1, <3>2, DropsOwnRow DEF Inspect
  <2>2. CASE job' # Idle
    <3>1. \E s \in {"resolve", "model"} : job' = [job EXCEPT !.stage = s]
      BY <1>6, <2>2 DEF Inspect, Over
    <3>2. /\ job # Idle /\ job.stage = "inspect" /\ job'.kind = job.kind /\ job'.ok = job.ok
          /\ job'.thread = job.thread /\ job'.stage \in {"resolve", "model"}
      BY <1>6, <3>1, JobMoves DEF Inspect, Stages
    <3>3. UNCHANGED <<rows, pending, wire, askThread, okTaps, ran>>
      BY <1>6, <2>2 DEF Inspect, Over
    <3> QED
      BY <1>2, <3>2, <3>3 DEF Resumes, Unspent
  <2> QED
    BY <2>1, <2>2
<1>7. CASE Park
  <2>1. job \in JobRecords
    BY <1>7, JobFields DEF Park
  <2>2. job'.kind = "turn"
    BY <1>7, <2>1 DEF Park, JobRecords
  <2>3. \A r \in rows' : r \in rows \/ r.token > minted
    BY <1>7 DEF Park, RecordRow, TokensFresh
  <2> QED
    BY <1>2, <1>7, <2>2, <2>3 DEF Park, Resumes, Unspent
<1>8. CASE EmitAsk
  <2>1. job'.kind = "turn"
    BY <1>8, JobMoves DEF EmitAsk, JobInv, Stages
  <2> QED
    BY <1>2, <1>8, <2>1 DEF EmitAsk, Resumes, Unspent
<1>9. CASE Answer
  BY <1>9, AnswerCovered
<1>10. CASE CommitTools
  <2>1. /\ job # Idle /\ job'.kind = job.kind /\ job'.ok = job.ok /\ job'.thread = job.thread
        /\ job'.stage = "model"
    BY <1>10, JobMoves DEF CommitTools, Stages
  <2> QED
    BY <1>2, <1>10, <2>1 DEF CommitTools, Resumes, Unspent
<1>11. ASSUME NEW n \in 1..2, ModelAsks(n) PROVE TapsCover'
  <2>1. /\ job # Idle /\ job'.kind = job.kind /\ job'.ok = job.ok /\ job'.thread = job.thread
        /\ job'.stage = "resolve"
    BY <1>11, JobMoves DEF ModelAsks, Stages
  <2>2. \A t \in Threads : Resumes(t)' <=> Resumes(t)
    BY <2>1, <1>11 DEF ModelAsks, Resumes, Idle
  <2>3. \A t \in Threads : OnTheWire(t)' = OnTheWire(t)
    BY <1>11 DEF ModelAsks, OnTheWire
  <2>4. job.thread \in Threads /\ pending'[job.thread] = (asked + 1)..(asked + n) /\ asked \in Nat
    BY <1>11, JobFields DEF ModelAsks, TypeOK, TokensFresh
  <2>5. \A a \in Asks : ~(a > asked) => /\ askThread'[a] = askThread[a]
                                        /\ \A t \in Threads : ~Unspent(a, t)'
    BY <1>11, <2>1, <2>4 DEF ModelAsks, Unspent, Resumes, Asks
  <2> QED
    BY <1>1, <1>11, <2>2, <2>3, <2>5, CoverKept DEF ModelAsks
<1>12. CASE ModelDone \/ CutShort
  BY <1>3, <1>12, DropsOwnRow DEF ModelDone, CutShort, Over
<1>13. CASE TailEnds \/ WorkerDies \/ GatewayRestarts
  BY <1>3, <1>13 DEF TailEnds, Over, WorkerDies, GatewayRestarts
<1>14. CASE NewThread \/ Heartbeat \/ UNCHANGED vars
  BY <1>4, <1>14 DEF NewThread, Heartbeat
<1> QED
  BY <1>5, <1>6, <1>7, <1>8, <1>9, <1>10, <1>11, <1>12, <1>13, <1>14, TapCovered, ReadCovered
  DEF Next, Worker

----------------------------------------------------------------------------
(* The theorems. *)

LEMMA InitInv == Init => ApprovalInv
<1> SUFFICES ASSUME Init PROVE ApprovalInv
  OBVIOUS
<1>1. TypeOK /\ askThread \in [Asks -> Threads]
  BY DEF Init, TypeOK
<1>2. TokensFresh
  BY ApprovalsAssumption, FS_EmptySet DEF Init, TokensFresh
<1>3. CallsInOrder /\ JobInv /\ SuspendedHasRow
  BY DEF Init, CallsInOrder, JobInv, SuspendedHasRow
<1>4. \A t \in Threads : OnTheWire(t) = {} /\ ~Resumes(t) /\ \A a \in Asks : ~Unspent(a, t)
  BY DEF Init, OnTheWire, Resumes, Unspent
<1>5. TapsCover
  BY <1>4, FS_EmptySet DEF Init, TapsCover
<1> QED
  BY <1>1, <1>2, <1>3, <1>5 DEF ApprovalInv

\* ApprovalInv holds throughout every behaviour: what the job, the rows, the
\* verdicts under way and the taps have to do with each other.
THEOREM ApprovalsInvariant == Spec => []ApprovalInv
<1>1. ApprovalInv /\ [Next]_vars => ApprovalInv'
  BY NextType, NextCalls, NextJob, NextCover, NextRow DEF ApprovalInv, Typed
<1> QED
  BY InitInv, <1>1, PTL DEF Spec

\* Every variable of the approval path always has its type.
THEOREM ApprovalsTyped == Spec => []TypeOK
<1>1. ApprovalInv => TypeOK
  BY DEF ApprovalInv
<1> QED
  BY <1>1, ApprovalsInvariant, PTL

\* _handle_approval_verdict and the resume it starts: whatever is tapped twice,
\* cut short, restarted or replayed, no gated call runs more often than its
\* thread's cards were tapped "approve".
THEOREM NoRunWithoutTap == Spec => []RunsNeedTaps
<1>1. ApprovalInv => RunsNeedTaps
  <2> SUFFICES ASSUME ApprovalInv, NEW a \in Asks
               PROVE  ran[a] <= okTaps[askThread[a]]
    BY DEF RunsNeedTaps
  <2> DEFINE t == askThread[a]
  <2>1. t \in Threads
    BY DEF ApprovalInv
  <2>2. ran[a] + Cardinality(OnTheWire(t)) + (IF Unspent(a, t) THEN 1 ELSE 0) <= okTaps[t]
    BY <2>1 DEF ApprovalInv, TapsCover
  <2>3. Cardinality(OnTheWire(t)) \in Nat /\ okTaps[t] \in Nat /\ ran[a] \in Nat
    BY <2>1, WireFinite DEF ApprovalInv, TokensFresh, TypeOK
  <2> HIDE DEF t
  <2>4. ran[a] <= okTaps[t]
    BY <2>2, <2>3
  <2> QED
    BY <2>4 DEF t
<1> QED
  BY <1>1, ApprovalsInvariant, PTL

\* run_turn records the routing row before it releases the turn, and the
\* resume drops it only once the interrupt is gone: a call suspended in a
\* thread nobody works on has a row, unless a job on the thread was cut short.
THEOREM SuspendedCallHasRow == Spec => []SuspendedHasRow
<1>1. ApprovalInv => SuspendedHasRow
  BY DEF ApprovalInv
<1> QED
  BY <1>1, ApprovalsInvariant, PTL
=============================================================================
