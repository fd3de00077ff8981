---------------------------- MODULE GatewayProofs ----------------------------
(***************************************************************************)
(* One worker per root, no message lost between the threads and none       *)
(* replayed, for any number of chats, messages, stops, crashes and failed  *)
(* spawns.                                                                 *)
(***************************************************************************)
EXTENDS Gateway, FiniteSetTheorems, SequenceTheorems, TLAPS

LEMMA GenFacts ==
  /\ Gens \subseteq Nat /\ None \notin Gens /\ Bot \notin Gens
  /\ Gens \subseteq Actors /\ Bot \in Actors
  /\ Msgs \subseteq Nat /\ None \notin Msgs
BY GatewayAssumption DEF Gens, None, Bot, Actors, Msgs

LEMMA RestFields ==
  /\ Rest.pc = "rest" /\ Rest.op = "none" /\ Rest.msg = None /\ Rest \in Calls
  /\ [Rest EXCEPT !.pc = "clear"] \in Calls /\ [Rest EXCEPT !.pc = "clear"].pc = "clear"
  /\ [Rest EXCEPT !.pc = "rest"] \in Calls /\ [Rest EXCEPT !.pc = "rest"].pc = "rest"
BY DEF Rest, Calls

----------------------------------------------------------------------------
(* Queues and pipes. *)

LEMMA AppendFacts ==
  ASSUME NEW S, NEW s \in Seq(S), NEW x \in S
  PROVE  /\ Append(s, x) \in Seq(S)
         /\ \A i \in DOMAIN s : i \in DOMAIN Append(s, x) /\ Append(s, x)[i] = s[i]
         /\ \A i \in DOMAIN Append(s, x) :
              (i \in DOMAIN s /\ Append(s, x)[i] = s[i]) \/ (i = Len(s) + 1 /\ Append(s, x)[i] = x)
         /\ \E i \in DOMAIN Append(s, x) : Append(s, x)[i] = x
<1>1. /\ Append(s, x) \in Seq(S) /\ DOMAIN Append(s, x) = 1..(Len(s) + 1)
      /\ DOMAIN s = 1..Len(s) /\ Len(s) \in Nat
      /\ Append(s, x)[Len(s) + 1] = x
      /\ \A i \in 1..Len(s) : Append(s, x)[i] = s[i]
  OBVIOUS
<1> QED
  BY <1>1

LEMMA TailFacts ==
  ASSUME NEW S, NEW s \in Seq(S), s # <<>>
  PROVE  /\ Tail(s) \in Seq(S) /\ Head(s) \in S
         /\ 1 \in DOMAIN s /\ Head(s) = s[1]
         /\ \A i \in DOMAIN s : i = 1 \/ (i - 1 \in DOMAIN Tail(s) /\ Tail(s)[i - 1] = s[i])
         /\ \A i \in DOMAIN Tail(s) : i + 1 \in DOMAIN s /\ Tail(s)[i] = s[i + 1] /\ i \in Nat
                                      /\ i + 1 # 1
<1>1. /\ Tail(s) \in Seq(S) /\ DOMAIN Tail(s) = 1..(Len(s) - 1) /\ Head(s) = s[1]
      /\ DOMAIN s = 1..Len(s) /\ Len(s) \in Nat \ {0}
      /\ \A i \in 1..(Len(s) - 1) : Tail(s)[i] = s[i + 1]
  OBVIOUS
<1> QED
  BY <1>1

\* A pipe with a frame written to it, or with one read.
LEMMA PipeAppend ==
  ASSUME NEW S, NEW box \in [Gens -> Seq(S)], NEW g \in Gens, NEW x \in S
  PROVE  /\ [box EXCEPT ![g] = Append(@, x)] \in [Gens -> Seq(S)]
         /\ [box EXCEPT ![g] = Append(@, x)][g] = Append(box[g], x)
         /\ \A h \in Gens : h # g => [box EXCEPT ![g] = Append(@, x)][h] = box[h]
<1>1. Append(box[g], x) \in Seq(S)
  BY AppendFacts
<1> QED
  BY <1>1

LEMMA PipeTail ==
  ASSUME NEW S, NEW box \in [Gens -> Seq(S)], NEW g \in Gens, box[g] # <<>>
  PROVE  /\ [box EXCEPT ![g] = Tail(@)] \in [Gens -> Seq(S)]
         /\ [box EXCEPT ![g] = Tail(@)][g] = Tail(box[g])
         /\ \A h \in Gens : h # g => [box EXCEPT ![g] = Tail(@)][h] = box[h]
         /\ Head(box[g]) \in S /\ Head(box[g]) = box[g][1] /\ 1 \in DOMAIN box[g]
<1>1. /\ Tail(box[g]) \in Seq(S) /\ Head(box[g]) \in S
      /\ Head(box[g]) = box[g][1] /\ 1 \in DOMAIN box[g]
  BY TailFacts
<1> QED
  BY <1>1

\* What cmd_stop leaves in the queue: the other chats' messages, each one where
\* one was.
LEMMA QueueWithoutFacts ==
  ASSUME NEW c, queue \in Seq(Msgs)
  PROVE  /\ QueueWithout(c) \in Seq(Msgs)
         /\ \E at \in [DOMAIN QueueWithout(c) -> DOMAIN queue] :
              /\ \A i \in DOMAIN QueueWithout(c) : QueueWithout(c)[i] = queue[at[i]]
              /\ \A i, k \in DOMAIN QueueWithout(c) : at[i] = at[k] => i = k
         /\ \A i \in DOMAIN queue : chatOf[queue[i]] # c =>
              \E j \in DOMAIN QueueWithout(c) : QueueWithout(c)[j] = queue[i]
<1> DEFINE kept == {i \in DOMAIN queue : chatOf[queue[i]] # c}
           upTo(i) == {k \in kept : k <= i}
           rank == [i \in kept |-> Cardinality(upTo(i))]
           n == Cardinality(kept)
           at == [j \in 1..n |-> CHOOSE i \in kept : rank[i] = j]
<1>1. DOMAIN queue = 1..Len(queue) /\ Len(queue) \in Nat
  OBVIOUS
<1>2. kept \subseteq Nat /\ IsFiniteSet(kept) /\ n \in Nat
  <2>1. IsFiniteSet(1..Len(queue))
    BY <1>1, FS_Interval
  <2> QED
    BY <1>1, <2>1, FS_Subset, FS_CardinalityType
<1>3. IsFiniteSet(1..n) /\ Cardinality(1..n) = n
  BY <1>2, FS_Interval
<1>4. ASSUME NEW i \in kept
      PROVE  IsFiniteSet(upTo(i)) /\ rank[i] \in 1..n
  <2>1. upTo(i) \subseteq kept /\ i \in upTo(i)
    BY <1>2
  <2>2. IsFiniteSet(upTo(i)) /\ Cardinality(upTo(i)) <= n /\ Cardinality(upTo(i)) \in Nat
    BY <1>2, <2>1, FS_Subset, FS_CardinalityType
  <2>3. Cardinality(upTo(i)) # 0
    BY <2>1, <2>2, FS_EmptySet
  <2> QED
    BY <1>2, <2>2, <2>3
<1>5. ASSUME NEW i \in kept, NEW k \in kept, i < k
      PROVE  rank[i] # rank[k]
  <2>1. upTo(i) \subseteq upTo(k) /\ k \in upTo(k) /\ k \notin upTo(i)
    BY <1>2, <1>5
  <2>2. upTo(i) # upTo(k)
    BY <2>1
  <2>3. Cardinality(upTo(i)) # Cardinality(upTo(k))
    BY <1>4, <2>1, <2>2, FS_Subset
  <2> QED
    BY <2>3
<1>6. rank \in Injection(kept, 1..n)
  <2>1. rank \in [kept -> 1..n]
    BY <1>4
  <2> HIDE DEF rank, kept, n
  <2>2. \A i, k \in kept : rank[i] = rank[k] => i = k
    BY <1>2, <1>5
  <2> QED
    BY <2>1, <2>2 DEF Injection, IsInjective
<1>7. rank \in Surjection(kept, 1..n)
  BY <1>3, <1>6, FS_Injection
<1>8. \A j \in 1..n : at[j] \in kept /\ rank[at[j]] = j
  <2>1. \A j \in 1..n : \E i \in kept : rank[i] = j
    <3> HIDE DEF rank, kept, n
    <3> QED
      BY <1>7 DEF Surjection
  <2> HIDE DEF rank, kept, n
  <2> QED
    BY <2>1
<1>9. QueueWithout(c) = [j \in 1..n |-> queue[at[j]]]
  BY DEF QueueWithout
<1>10. DOMAIN QueueWithout(c) = 1..n /\ \A j \in 1..n : QueueWithout(c)[j] = queue[at[j]]
  BY <1>9
<1>11. at \in [1..n -> DOMAIN queue] /\ \A i, k \in 1..n : at[i] = at[k] => i = k
  <2>1. kept \subseteq DOMAIN queue
    OBVIOUS
  <2>2. at \in [1..n -> kept]
    BY <1>8
  <2> HIDE DEF rank, kept, n, at
  <2> QED
    BY <1>8, <2>1, <2>2
<1>12. ASSUME NEW i \in DOMAIN queue, chatOf[queue[i]] # c
       PROVE  rank[i] \in 1..n /\ at[rank[i]] = i
  <2>1. i \in kept
    BY <1>12
  <2>2. rank[i] \in 1..n
    BY <1>4, <2>1
  <2>3. rank[at[rank[i]]] = rank[i] /\ at[rank[i]] \in kept
    BY <1>8, <2>2
  <2>4. at[rank[i]] = i
    <3> HIDE DEF rank, kept, n, at
    <3> QED
      BY <1>6, <2>1, <2>3 DEF Injection, IsInjective
  <2> QED
    BY <2>2, <2>4
<1> HIDE DEF kept, rank, n, at
<1>13. QueueWithout(c) \in Seq(Msgs)
  <2>1. \A j \in 1..n : queue[at[j]] \in Msgs
    BY <1>1, <1>11
  <2> QED
    BY <1>2, <1>9, <2>1, IsASeq
<1>14. \E f \in [DOMAIN QueueWithout(c) -> DOMAIN queue] :
         /\ \A i \in DOMAIN QueueWithout(c) : QueueWithout(c)[i] = queue[f[i]]
         /\ \A i, k \in DOMAIN QueueWithout(c) : f[i] = f[k] => i = k
  BY <1>10, <1>11
<1>15. \A i \in DOMAIN queue : chatOf[queue[i]] # c =>
         \E j \in DOMAIN QueueWithout(c) : QueueWithout(c)[j] = queue[i]
  BY <1>10, <1>12
<1> QED
  BY <1>13, <1>14, <1>15
----------------------------------------------------------------------------
(* Generations. *)

\* The process ensure_worker starts is a new one, and the generations before
\* it were all used.
LEMMA NextGenFresh ==
  ASSUME TypeOK, GenerationsInOrder, NextGen \in Gens
  PROVE  /\ proc[NextGen] = "none"
         /\ \A g \in Gens : g < NextGen => proc[g] # "none"
<1> DEFINE U == {g \in Gens : proc[g] # "none"}
           n == Cardinality(U)
<1>1. MaxDeaths + MaxFails + 1 \in Nat /\ Gens = 1..(MaxDeaths + MaxFails + 1)
  BY GatewayAssumption DEF Gens
<1>2. IsFiniteSet(U) /\ n \in Nat
  <2>1. IsFiniteSet(Gens)
    BY <1>1, FS_Interval
  <2> QED
    BY <2>1, FS_Subset, FS_CardinalityType
<1>3. NextGen = n + 1
  BY DEF NextGen
<1>4. ASSUME n + 1 \in U PROVE FALSE
  <2>1. 1..(n + 1) \subseteq U
    <3> HIDE DEF n
    <3>1. \A h \in 1..(n + 1) : h \in Gens /\ (h = n + 1 \/ h < n + 1)
      BY <1>1, <1>2, <1>4
    <3> QED
      BY <1>4, <3>1 DEF GenerationsInOrder
  <2>2. Cardinality(1..(n + 1)) = n + 1
    BY <1>2, FS_Interval
  <2>3. Cardinality(1..(n + 1)) <= n
    BY <1>2, <2>1, FS_Subset
  <2> QED
    BY <1>2, <2>2, <2>3
<1>5. ASSUME NEW g \in Gens, g <= n, g \notin U PROVE FALSE
  <2>1. U \subseteq 1..(g - 1)
    BY <1>1, <1>5 DEF GenerationsInOrder
  <2>2. IsFiniteSet(1..(g - 1)) /\ Cardinality(1..(g - 1)) = g - 1
    <3>1. g - 1 \in Nat /\ 1 \in Int /\ g - 1 \in Int
      BY <1>1
    <3>2. /\ IsFiniteSet(1..(g - 1))
          /\ Cardinality(1..(g - 1)) = IF 1 > g - 1 THEN 0 ELSE (g - 1) - 1 + 1
      BY <3>1, FS_Interval
    <3> QED
      BY <3>1, <3>2
  <2>3. n <= g - 1
    BY <2>1, <2>2, FS_Subset
  <2> QED
    BY <1>1, <1>2, <1>5, <2>3
<1> HIDE DEF n
<1> QED
  BY <1>1, <1>2, <1>3, <1>4, <1>5

----------------------------------------------------------------------------
(* Where a message is. *)

Hand(a, m)   == act[a].pc \in {"ensure", "write", "deliver"} /\ act[a].msg = m
InBox(g, m)  == \E i \in DOMAIN inbox[g] : inbox[g][i].msg = m
OutBox(g, m) == \E i \in DOMAIN outbox[g] : outbox[g][i].kind = "error" /\ outbox[g][i].msg = m
Queued(m)    == \E i \in DOMAIN queue : queue[i] = m
Ended(m)     == m \in written \cup steered \cup told \cup lost
Located(m)   == \/ Queued(m) \/ (\E a \in Actors : Hand(a, m))
                \/ (\E g \in Gens : InBox(g, m) \/ OutBox(g, m)) \/ Ended(m)

LEMMA QueuedIsInQueue == \A m : m \in ToSet(queue) <=> Queued(m)
BY DEF ToSet, Queued

LEMMA AccountedIsLocated ==
  ASSUME msgs \in 0..MaxMsgs
  PROVE  Accounted <=> \A m \in 1..msgs : Located(m)
<1>1. \A m : m \in InHand <=> \E a \in Actors : Hand(a, m)
  BY DEF InHand, Hand
<1>2. \A m \in Msgs : m \in InPipes <=> \E g \in Gens : InBox(g, m) \/ OutBox(g, m)
  BY DEF InPipes, InBox, OutBox, ToSet
<1>3. 1..msgs \subseteq Msgs
  BY GatewayAssumption DEF Msgs
<1> QED
  BY <1>1, <1>2, <1>3, QueuedIsInQueue DEF Accounted, Located, Ended
----------------------------------------------------------------------------
(* The threads' program counters. *)

Others(a) == \A b \in Actors : b # a => act'[b] = act[b]

LEMMA GoesFacts ==
  ASSUME act \in [Actors -> Calls], NEW a \in Actors, Goes(a, "write") \/ Goes(a, "mark") \/
         Goes(a, "clear") \/ Goes(a, "drain") \/ Goes(a, "death") \/ Goes(a, "gone")
  PROVE  /\ act' \in [Actors -> Calls] /\ Others(a)
         /\ act'[a].op = act[a].op /\ act'[a].msg = act[a].msg /\ act'[a].gen = act[a].gen
         /\ \A p : Goes(a, p) => act'[a].pc = p
BY DEF Goes, Others, Calls

LEMMA RestsFacts ==
  ASSUME act \in [Actors -> Calls], NEW a \in Actors, Rests(a)
  PROVE  act' \in [Actors -> Calls] /\ Others(a) /\ act'[a] = Rest
BY RestFields DEF Rests, Others

LEMMA SendsFacts ==
  ASSUME act \in [Actors -> Calls], NEW a \in Actors, NEW op \in {"turn", "steer", "cancel"},
         NEW m \in Msgs \cup {None}, NEW c \in Chats, Sends(a, op, m, c)
  PROVE  /\ act' \in [Actors -> Calls] /\ Others(a)
         /\ act'[a].pc = "ensure" /\ act'[a].op = op /\ act'[a].msg = m
<1>1. [pc |-> "ensure", op |-> op, msg |-> m, gen |-> None, chat |-> c] \in Calls
  BY DEF Calls
<1> QED
  BY <1>1 DEF Sends, Others

\* What ensure_worker does to the thread that calls it and to the reader of a
\* new process.
LEMMA EnsureFacts ==
  ASSUME GatewayInv, NEW a \in Actors, Ensure(a)
  PROVE  /\ act' \in [Actors -> Calls]
         /\ act'[a].pc = "write" /\ act'[a].op = act[a].op /\ act'[a].msg = act[a].msg
         /\ act'[a].gen = cur' /\ cur' \in Gens
         /\ \/ /\ Others(a) /\ cur \in Gens /\ UNCHANGED <<cur, dead, status, proc>>
            \/ /\ NextGen \in Gens /\ cur' = NextGen /\ ForgetCur
               /\ proc[NextGen] = "none" /\ act[NextGen] = Rest /\ NextGen # a
               /\ cur # None => ~Alive(cur)
               /\ act'[NextGen] = [Rest EXCEPT !.pc = "clear"]
               /\ \A b \in Actors : b \notin {a, NextGen} => act'[b] = act[b]
               /\ proc' = [proc EXCEPT ![NextGen] = "up"]
               /\ status' = [status EXCEPT ![NextGen] = "idle"]
<1> USE DEF GatewayInv, TypeOK
<1>1. act[a] \in Calls /\ act[a].pc = "ensure"
  BY DEF Ensure
<1>2. CASE cur # None /\ Alive(cur)
  <2>1. act' = [act EXCEPT ![a].pc = "write", ![a].gen = cur] /\ cur \in Gens
        /\ UNCHANGED <<cur, dead, status, proc>>
    BY <1>2 DEF Ensure
  <2>2. act'[a] = [act[a] EXCEPT !.pc = "write", !.gen = cur] /\ Others(a)
        /\ act' \in [Actors -> Calls]
    BY <1>1, <2>1 DEF Others, Calls
  <2> QED
    BY <1>1, <2>1, <2>2 DEF Calls
<1>3. CASE ~(cur # None /\ Alive(cur))
  <2> DEFINE g == NextGen
  <2>1. /\ g \in Gens /\ cur' = g /\ ForgetCur
        /\ proc' = [proc EXCEPT ![g] = "up"] /\ status' = [status EXCEPT ![g] = "idle"]
        /\ act' = [act EXCEPT ![a].pc = "write", ![a].gen = g, ![g] = [Rest EXCEPT !.pc = "clear"]]
    BY <1>3 DEF Ensure
  <2>2. proc[g] = "none" /\ act[g] = Rest
    BY <2>1, NextGenFresh DEF GenerationsInOrder
  <2>3. g # a /\ g \in Actors
    BY <1>1, <2>1, <2>2, RestFields, GenFacts
  <2> HIDE DEF g
  <2>4. /\ act'[a] = [act[a] EXCEPT !.pc = "write", !.gen = g]
        /\ act'[g] = [Rest EXCEPT !.pc = "clear"]
        /\ \A b \in Actors : b \notin {a, g} => act'[b] = act[b]
        /\ DOMAIN act' = Actors
    BY <1>1, <2>1, <2>3
  <2>5. /\ act'[a] \in Calls /\ act'[a].pc = "write" /\ act'[a].op = act[a].op
        /\ act'[a].msg = act[a].msg /\ act'[a].gen = g
    <3>1. g \in Gens /\ act[a] \in Calls /\ act'[a] = [act[a] EXCEPT !.pc = "write", !.gen = g]
      BY <1>1, <2>1, <2>4
    <3> HIDE DEF GatewayInv, TypeOK
    <3> QED
      BY <3>1 DEF Calls
  <2>6. act' = [b \in Actors |-> act'[b]]
    BY <2>1
  <2>7. act' \in [Actors -> Calls]
    <3>1. \A b \in Actors : act'[b] \in Calls
      <4> TAKE b \in Actors
      <4>1. act[b] \in Calls
        OBVIOUS
      <4>2. act'[b] \in {act[b], act'[a], [Rest EXCEPT !.pc = "clear"]}
        BY <2>4
      <4> QED
        BY <2>5, <4>1, <4>2, RestFields
    <3> QED
      BY <2>6, <3>1
  <2> QED
    BY <1>3, <2>1, <2>2, <2>3, <2>4, <2>5, <2>7 DEF g
<1> QED
  BY <1>2, <1>3
----------------------------------------------------------------------------
(* Type correctness. *)

LEMMA InitType == Init => TypeOK
<1> SUFFICES ASSUME Init PROVE TypeOK
  OBVIOUS
<1>1. act \in [Actors -> Calls]
  BY RestFields DEF Init
<1>2. inbox \in [Gens -> Seq(Frames)] /\ outbox \in [Gens -> Seq(Replies)] /\ queue \in Seq(Msgs)
  BY DEF Init
<1>3. msgs \in 0..MaxMsgs
  BY GatewayAssumption DEF Init
<1> QED
  BY <1>1, <1>2, <1>3 DEF Init, TypeOK

LEMMA SendFailsType ==
  ASSUME TypeOK, NEW a \in Actors, NEW tells \in BOOLEAN, SendFails(a, tells)
  PROVE  act' \in [Actors -> Calls] /\ busy' \in BOOLEAN
BY RestsFacts DEF SendFails, TypeOK

LEMMA NextType == GatewayInv /\ [Next]_vars => TypeOK'
<1> SUFFICES ASSUME GatewayInv, [Next]_vars PROVE TypeOK'
  OBVIOUS
<1> USE GenFacts
    DEF GatewayInv, vars, routerVars, handleVars, workerVars, countVars, historyVars
<1>1. CASE UNCHANGED vars
  BY <1>1 DEF TypeOK
<1>2. ASSUME NEW plain \in BOOLEAN, Submit(plain) PROVE TypeOK'
  <2>1. msgs + 1 \in Msgs /\ msgs' = msgs + 1 /\ msgs' \in 0..MaxMsgs
    BY <1>2, GatewayAssumption DEF Submit, TypeOK, Msgs
  <2>2. chatOf[msgs + 1] \in Chats
    BY <2>1 DEF TypeOK
  <2>3. queue' \in Seq(Msgs)
    <3>1. queue \in Seq(Msgs) /\ Append(queue, msgs + 1) \in Seq(Msgs)
      BY <2>1, AppendFacts DEF TypeOK
    <3> QED
      BY <1>2, <3>1 DEF Submit, Enqueue
  <2>4. act' \in [Actors -> Calls]
    BY <1>2, <2>1, <2>2, SendsFacts DEF Submit, TypeOK
  <2>5. busy' \in BOOLEAN /\ owner' \in Chats \cup {NoChat}
    BY <1>2, <2>2 DEF Submit, TypeOK
  <2> QED
    BY <1>2, <2>1, <2>3, <2>4, <2>5 DEF Submit, TypeOK
<1>3. ASSUME NEW c \in Chats, Stop(c) PROVE TypeOK'
  <2>1. queue' \in Seq(Msgs)
    BY <1>3, QueueWithoutFacts DEF Stop, TypeOK
  <2>2. act' \in [Actors -> Calls]
    BY <1>3, SendsFacts DEF Stop, TypeOK
  <2> QED
    BY <1>3, <2>1, <2>2 DEF Stop, TypeOK
<1>4. ASSUME NEW a \in Actors, Ensure(a) PROVE TypeOK'
  <2>1. dead' \subseteq Gens
    BY <1>4, EnsureFacts DEF ForgetCur, TypeOK
  <2>2. /\ status' \in [Gens -> {"none", "idle", "turn"}]
        /\ proc' \in [Gens -> {"none", "up", "ending", "down"}]
    BY <1>4, EnsureFacts DEF TypeOK
  <2> QED
    BY <1>4, <2>1, <2>2, EnsureFacts DEF Ensure, TypeOK
<1>5. ASSUME NEW a \in Actors, NEW lease \in BOOLEAN, SpawnFails(a, lease) PROVE TypeOK'
  <2>1. dead' \subseteq Gens
    BY <1>5 DEF SpawnFails, ForgetCur, TypeOK
  <2> QED
    BY <1>5, <2>1, SendFailsType DEF SpawnFails, TypeOK
<1>6. ASSUME NEW a \in Actors, Write(a) PROVE TypeOK'
  <2>1. act[a] \in Calls /\ act[a].pc = "write" /\ act[a].gen \in Gens
    BY <1>6 DEF Write, TypeOK, GenerationsInOrder
  <2>2. CASE Alive(act[a].gen) /\ Goes(a, "mark")
             /\ inbox' = [inbox EXCEPT ![act[a].gen] = Append(@, Frame(act[a]))]
             /\ UNCHANGED <<dead, busy>>
    <3>1. Frame(act[a]) \in Frames
      BY <2>1 DEF Frame, Frames, Calls, WorkerHasWritten, CallsWritten
    <3>2. inbox' \in [Gens -> Seq(Frames)]
      BY <2>1, <2>2, <3>1, PipeAppend DEF TypeOK
    <3> QED
      BY <1>6, <2>2, <3>2, GoesFacts DEF Write, TypeOK
  <2>3. CASE dead' \in {dead, dead \cup {act[a].gen}} /\ SendFails(a, TRUE) /\ UNCHANGED inbox
    <3>1. dead' \subseteq Gens
      BY <2>1, <2>3 DEF TypeOK
    <3> QED
      BY <1>6, <2>1, <2>3, <3>1, SendFailsType DEF Write, TypeOK
  <2> QED
    BY <1>6, <2>2, <2>3 DEF Write
<1>7. ASSUME NEW a \in Actors, Mark(a) PROVE TypeOK'
  <2>1. act[a] \in Calls /\ act[a].gen \in Gens
    BY <1>7 DEF Mark, TypeOK, GenerationsInOrder
  <2>2. inFlight' \in [Gens -> Chats \cup {NoChat}]
    BY <1>7, <2>1 DEF Mark, Marker, TypeOK, Calls
  <2> QED
    BY <1>7, <2>2, RestsFacts DEF Mark, TypeOK
<1>8. ASSUME NEW g \in Gens, Read(g) PROVE TypeOK'
  <2> DEFINE f == Head(outbox[g])
  <2>1. f \in Replies /\ outbox' \in [Gens -> Seq(Replies)]
    BY <1>8, TailFacts DEF Read, TypeOK
  <2>2. f.kind # "status" => f.kind \in {"done", "error"} /\ f.msg \in Msgs \cup {None}
                             /\ f.chat \in Chats \cup {NoChat}
    BY <2>1 DEF Replies
  <2>3. /\ status' \in [Gens -> {"none", "idle", "turn"}]
        /\ inFlight' \in [Gens -> Chats \cup {NoChat}]
    BY <1>8 DEF Read, TypeOK
  <2>4. act' \in [Actors -> Calls]
    <3> HIDE DEF f
    <3>1. CASE act' = [act EXCEPT ![g].pc = "clear"]
      BY <3>1, GoesFacts DEF Goes, TypeOK
    <3>2. CASE f.kind # "status"
               /\ act' = [act EXCEPT ![g] = [pc |-> "deliver", op |-> f.kind, msg |-> f.msg,
                                             gen |-> None, chat |-> f.chat]]
      BY <2>2, <3>2 DEF TypeOK, Calls
    <3>3. f.kind = "status" => f.turn \in BOOLEAN
      BY <2>1 DEF Replies
    <3> QED
      BY <1>8, <3>1, <3>2, <3>3 DEF Read, TypeOK, f
  <2> QED
    BY <1>8, <2>1, <2>3, <2>4 DEF Read, TypeOK
<1>9. ASSUME NEW g \in Gens, Deliver(g) PROVE TypeOK'
  <2>1. act' \in [Actors -> Calls]
    BY <1>9, RestFields DEF Deliver, TypeOK
  <2> QED
    BY <1>9, <2>1 DEF Deliver, TypeOK
<1>10. ASSUME NEW g \in Gens, Clear(g) PROVE TypeOK'
  BY <1>10, GoesFacts DEF Clear, TypeOK
<1>11. ASSUME NEW g \in Gens, Drain(g) PROVE TypeOK'
  <2>1. CASE Rests(g) /\ UNCHANGED routerVars
    BY <1>11, <2>1, RestsFacts DEF Drain, TypeOK
  <2>2. CASE queue # <<>> /\ queue' = TakeNext /\ busy' = TRUE /\ owner' = chatOf[Head(queue)]
             /\ Sends(g, "turn", Head(queue), chatOf[Head(queue)])
    <3>1. Head(queue) \in Msgs /\ Tail(queue) \in Seq(Msgs)
      BY <2>2, TailFacts DEF TypeOK
    <3>2. chatOf[Head(queue)] \in Chats
      BY <3>1 DEF TypeOK
    <3>3. act' \in [Actors -> Calls]
      BY <2>2, <3>1, <3>2, SendsFacts DEF TypeOK
    <3> QED
      BY <1>11, <2>2, <3>1, <3>2, <3>3 DEF Drain, TakeNext, TypeOK
  <2> QED
    BY <1>11, <2>1, <2>2 DEF Drain
<1>12. ASSUME NEW g \in Gens, MarkDead(g) PROVE TypeOK'
  BY <1>12, GoesFacts DEF MarkDead, TypeOK
<1>13. ASSUME NEW g \in Gens, Death(g) PROVE TypeOK'
  BY <1>13, GoesFacts DEF Death, TypeOK
<1>14. ASSUME NEW g \in Gens, WorkerReads(g) PROVE TypeOK'
  <2> DEFINE w == Head(inbox[g])
  <2>1. inbox \in [Gens -> Seq(Frames)] /\ outbox \in [Gens -> Seq(Replies)]
    BY DEF TypeOK
  <2>2. inbox[g] # <<>> /\ inbox' = [inbox EXCEPT ![g] = Tail(@)]
    BY <1>14 DEF WorkerReads
  <2>3. w \in Frames /\ inbox' \in [Gens -> Seq(Frames)]
    BY <2>1, <2>2, PipeTail
  <2>4. w.msg \in Msgs \cup {None} /\ w.chat \in Chats \cup {NoChat}
    BY <2>3 DEF Frames
  <2> HIDE DEF w
  <2>5. outbox' \in [Gens -> Seq(Replies)]
    <3>1. \/ UNCHANGED outbox
          \/ \E m \in Msgs \cup {None} : Emit(g, ErrorFor(w.chat, m))
      BY <1>14, <2>4 DEF WorkerReads, TypeOK, w
    <3>2. \A m \in Msgs \cup {None} : ErrorFor(w.chat, m) \in Replies
      BY <2>4 DEF ErrorFor, Replies
    <3>3. ASSUME NEW m \in Msgs \cup {None}, Emit(g, ErrorFor(w.chat, m))
          PROVE  outbox' \in [Gens -> Seq(Replies)]
      BY <2>1, <3>2, <3>3, PipeAppend DEF Emit
    <3> QED
      BY <2>1, <3>1, <3>3
  <2>6. /\ running' \in [Gens -> Msgs \cup {None}] /\ slot' \in [Gens -> Msgs \cup {None}]
        /\ tail' \in [Gens -> BOOLEAN]
    <3>1. /\ running \in [Gens -> Msgs \cup {None}] /\ slot \in [Gens -> Msgs \cup {None}]
          /\ tail \in [Gens -> BOOLEAN]
      BY DEF TypeOK
    <3>2. /\ running' \in {running, [running EXCEPT ![g] = w.msg], [running EXCEPT ![g] = None]}
          /\ slot' \in {slot, [slot EXCEPT ![g] = w.msg], [slot EXCEPT ![g] = None]}
          /\ tail' \in {tail, [tail EXCEPT ![g] = FALSE]}
      BY <1>14 DEF WorkerReads, w
    <3> QED
      BY <2>4, <3>1, <3>2
  <2> QED
    BY <1>14, <2>3, <2>5, <2>6 DEF WorkerReads, TypeOK
<1>15. ASSUME NEW g \in Gens, Turn(g) PROVE TypeOK'
  <2>1. ASSUME WorkerDone(g)
        PROVE  outbox' \in [Gens -> Seq(Replies)]
    <3>1. [kind |-> "done", chat |-> chatOf[running[g]], msg |-> running[g]] \in Replies
      BY <2>1 DEF WorkerDone, TypeOK, Replies
    <3> QED
      BY <2>1, <3>1, PipeAppend DEF WorkerDone, Emit, TypeOK
  <2>2. /\ running' \in [Gens -> Msgs \cup {None}] /\ slot' \in [Gens -> Msgs \cup {None}]
        /\ tail' \in [Gens -> BOOLEAN]
    BY <1>15 DEF Turn, WorkerDone, WorkerRests, TypeOK
  <2> QED
    BY <1>15, <2>1, <2>2 DEF Turn, WorkerDone, WorkerRests, TypeOK
<1>16. ASSUME NEW g \in Gens, Heartbeat(g) PROVE TypeOK'
  <2>1. HeartbeatFrame(g) \in Replies
    BY DEF HeartbeatFrame, Replies
  <2>2. outbox' \in [Gens -> Seq(Replies)]
    BY <1>16, <2>1, PipeAppend DEF Heartbeat, Emit, TypeOK
  <2> QED
    BY <1>16, <2>2 DEF Heartbeat, TypeOK
<1>17. ASSUME NEW g \in Gens, Crash(g) PROVE TypeOK'
  <2>1. inbox' \in [Gens -> Seq(Frames)] /\ victim' \in [Gens -> Msgs \cup {None}]
    BY <1>17 DEF Crash, TypeOK
  <2>2. proc' \in [Gens -> {"none", "up", "ending", "down"}]
    BY <1>17 DEF Crash, TypeOK
  <2>3. /\ running' \in [Gens -> Msgs \cup {None}] /\ slot' \in [Gens -> Msgs \cup {None}]
        /\ tail' \in [Gens -> BOOLEAN]
    BY <1>17 DEF Crash, TypeOK
  <2> QED
    BY <1>17, <2>1, <2>2, <2>3 DEF Crash, TypeOK
<1>18. ASSUME NEW g \in Gens, Exits(g) PROVE TypeOK'
  BY <1>18 DEF Exits, TypeOK
<1>19. ASSUME NEW a \in Actors, NEW left \in BOOLEAN, HandshakeFails(a, left) PROVE TypeOK'
  <2>1. dead' \subseteq Gens /\ cur' = None
    BY <1>19 DEF HandshakeFails, TypeOK
  <2>2. proc' \in [Gens -> {"none", "up", "ending", "down"}]
    BY <1>19 DEF HandshakeFails, TypeOK
  <2> QED
    BY <1>19, <2>1, <2>2, SendFailsType DEF HandshakeFails, TypeOK
<1> QED
  BY <1>1, <1>2, <1>3, <1>4, <1>5, <1>6, <1>7, <1>8, <1>9, <1>10, <1>11, <1>12, <1>13,
     <1>14, <1>15, <1>16, <1>17, <1>18, <1>19
  DEF Next, Thread, Reader
----------------------------------------------------------------------------
(* Generations. *)

\* A step of a thread a whose handle, if it holds one, exists already.
LEMMA GenerationsKept ==
  ASSUME GatewayInv, TypeOK', UNCHANGED <<proc, cur>>,
         NEW a \in Actors, Others(a) \/ UNCHANGED act,
         act[a] # Rest \/ a = Bot \/ proc[a] # "none" \/ UNCHANGED act,
         act'[a].pc \in {"write", "mark"} =>
           act[a].pc \in {"write", "mark"} /\ act'[a].gen = act[a].gen,
         \A g \in Gens : proc[g] = "none" => outbox'[g] = outbox[g]
  PROVE  GenerationsInOrder'
<1> USE GenFacts DEF GatewayInv
<1>1. \A g \in Gens : proc[g] = "none" => act'[g] = act[g]
  BY DEF Others, GenerationsInOrder
<1>2. \A b \in Actors : act'[b].pc \in {"write", "mark"} =>
        act[b].pc \in {"write", "mark"} /\ act'[b].gen = act[b].gen
  BY DEF Others
<1> QED
  BY <1>1, <1>2 DEF GenerationsInOrder

LEMMA NextGenerations == GatewayInv /\ [Next]_vars => GenerationsInOrder'
<1> SUFFICES ASSUME GatewayInv, [Next]_vars PROVE GenerationsInOrder'
  OBVIOUS
<1>0. TypeOK' /\ act \in [Actors -> Calls]
  BY NextType DEF GatewayInv, TypeOK
<1> USE GenFacts
    DEF vars, routerVars, handleVars, workerVars, countVars, historyVars
<1>1. CASE UNCHANGED <<proc, cur, act, dead, outbox>>
  BY <1>1 DEF GatewayInv, GenerationsInOrder
<1>2. ASSUME NEW plain \in BOOLEAN, Submit(plain) PROVE GenerationsInOrder'
  <2>1. msgs + 1 \in Msgs
    BY <1>2, GatewayAssumption DEF Submit, GatewayInv, TypeOK, Msgs
  <2>2. chatOf[msgs + 1] \in Chats
    BY <2>1 DEF GatewayInv, TypeOK
  <2>3. UNCHANGED act \/ (Others(Bot) /\ act'[Bot].pc = "ensure")
    BY <1>0, <1>2, <2>1, <2>2, SendsFacts DEF Submit
  <2>4. act[Bot] = Rest /\ UNCHANGED <<proc, cur, dead, outbox>>
    BY <1>2 DEF Submit
  <2> QED
    BY <1>0, <2>3, <2>4, RestFields, GenerationsKept
<1>3. ASSUME NEW c \in Chats, Stop(c) PROVE GenerationsInOrder'
  <2>1. UNCHANGED act \/ (Others(Bot) /\ act'[Bot].pc = "ensure")
    BY <1>0, <1>3, SendsFacts DEF Stop
  <2>2. act[Bot] = Rest /\ UNCHANGED <<proc, cur, dead, outbox>>
    BY <1>3 DEF Stop
  <2> QED
    BY <1>0, <2>1, <2>2, RestFields, GenerationsKept
<1>4. ASSUME NEW a \in Actors, Ensure(a) PROVE GenerationsInOrder'
  <2>1. /\ act'[a].pc = "write" /\ act'[a].gen = cur' /\ cur' \in Gens
        /\ UNCHANGED outbox /\ act[a].pc = "ensure"
    BY <1>4, EnsureFacts DEF Ensure
  <2>2. CASE Others(a) /\ cur \in Gens /\ UNCHANGED <<cur, dead, status, proc>>
    BY <1>0, <2>1, <2>2, RestFields DEF Others, GatewayInv, GenerationsInOrder
  <2>3. CASE /\ NextGen \in Gens /\ cur' = NextGen /\ ForgetCur
             /\ proc[NextGen] = "none" /\ act[NextGen] = Rest /\ NextGen # a
             /\ cur # None => ~Alive(cur)
             /\ act'[NextGen] = [Rest EXCEPT !.pc = "clear"]
             /\ \A b \in Actors : b \notin {a, NextGen} => act'[b] = act[b]
             /\ proc' = [proc EXCEPT ![NextGen] = "up"]
    <3> DEFINE n == NextGen
    <3>1. \A g \in Gens : g < n => proc[g] # "none"
      BY <2>3, NextGenFresh DEF GatewayInv
    <3>2. n \in Gens
      BY <2>3
    <3> HIDE DEF n
    <3>3. proc'[n] = "up" /\ \A g \in Gens : g # n => proc'[g] = proc[g]
      BY <2>3, <3>2 DEF GatewayInv, TypeOK, n
    <3>5. \A g, h \in Gens : h < g /\ proc'[g] # "none" => proc'[h] # "none"
      BY <3>1, <3>3 DEF GatewayInv, GenerationsInOrder
    <3>6. \A g \in Gens : proc'[g] = "none" => act'[g] = Rest /\ outbox'[g] = <<>>
      <4> TAKE g \in Gens
      <4> HAVE proc'[g] = "none"
      <4>1. g # n /\ proc[g] = "none"
        BY <3>3
      <4>2. act[g] = Rest /\ outbox[g] = <<>> /\ g # a
        BY <2>1, <4>1, RestFields DEF GatewayInv, GenerationsInOrder
      <4> QED
        BY <2>1, <2>3, <4>1, <4>2 DEF n
    <3>8. \A b \in Actors : act'[b].pc \in {"write", "mark"} =>
            act'[b].gen \in Gens /\ proc'[act'[b].gen] # "none"
      <4> TAKE b \in Actors
      <4>1. CASE b = a
        BY <2>1, <2>3, <3>2, <3>3, <4>1 DEF n
      <4>2. CASE b = n
        BY <2>3, <4>2, RestFields DEF n
      <4>3. CASE b \notin {a, n}
        BY <2>3, <3>3, <4>3 DEF GatewayInv, GenerationsInOrder, n
      <4> QED
        BY <4>1, <4>2, <4>3
    <3>9. proc'[cur'] # "none"
      BY <2>3, <3>3 DEF n
    <3> QED
      BY <3>5, <3>6, <3>8, <3>9 DEF GenerationsInOrder
  <2> QED
    BY <1>4, <2>2, <2>3, EnsureFacts
<1>5. ASSUME NEW a \in Actors, NEW lease \in BOOLEAN, SpawnFails(a, lease)
      PROVE  GenerationsInOrder'
  <2>1. Others(a) /\ act'[a] = Rest /\ act[a].pc = "ensure"
    BY <1>0, <1>5, RestsFacts DEF SpawnFails, SendFails
  <2>2. cur' = None /\ UNCHANGED <<proc, outbox>>
    BY <1>5 DEF SpawnFails
  <2> QED
    BY <2>1, <2>2, RestFields DEF Others, GatewayInv, GenerationsInOrder
<1>6. ASSUME NEW a \in Actors, Write(a) PROVE GenerationsInOrder'
  <2>1. /\ act[a].pc = "write" /\ act[a].gen \in Gens /\ proc[act[a].gen] # "none"
        /\ UNCHANGED <<proc, cur, outbox>>
    BY <1>6 DEF Write, GatewayInv, GenerationsInOrder
  <2>2. CASE Goes(a, "mark")
    BY <1>0, <2>1, <2>2, GoesFacts, RestFields, GenerationsKept
  <2>3. CASE Rests(a)
    BY <1>0, <2>1, <2>3, RestsFacts, RestFields, GenerationsKept
  <2> QED
    BY <1>6, <2>2, <2>3 DEF Write, SendFails
<1>7. ASSUME NEW a \in Actors, Mark(a) PROVE GenerationsInOrder'
  <2>1. act[a].pc = "mark" /\ UNCHANGED <<proc, cur, dead, outbox>> /\ Rests(a)
    BY <1>7 DEF Mark
  <2> QED
    BY <1>0, <2>1, RestsFacts, RestFields, GenerationsKept
<1>8. ASSUME NEW g \in Gens, Read(g) PROVE GenerationsInOrder'
  <2>1. outbox[g] # <<>> /\ UNCHANGED <<proc, cur, dead>> /\ act[g] = Rest
    BY <1>8 DEF Read
  <2>2. proc[g] # "none"
    BY <2>1 DEF GatewayInv, GenerationsInOrder
  <2>3. Others(g) /\ act'[g].pc \in {"rest", "clear", "deliver"}
    BY <1>0, <1>8, <2>1, RestFields DEF Read, Others, Calls
  <2>4. \A h \in Gens : h # g => outbox'[h] = outbox[h]
    BY <1>8 DEF Read, GatewayInv, TypeOK
  <2> QED
    BY <1>0, <2>1, <2>2, <2>3, <2>4, GenerationsKept
<1>9. ASSUME NEW g \in Gens, Deliver(g) PROVE GenerationsInOrder'
  <2>1. Others(g) /\ act'[g].pc \in {"rest", "clear"} /\ act[g].pc = "deliver"
    BY <1>0, <1>9, RestFields DEF Deliver, Others
  <2> QED
    BY <1>0, <1>9, <2>1, RestFields, GenerationsKept DEF Deliver
<1>10. ASSUME NEW g \in Gens, Clear(g) \/ Death(g) PROVE GenerationsInOrder'
  <2>1. act[g].pc \in {"clear", "death"} /\ Goes(g, "drain") /\ UNCHANGED <<proc, cur, dead, outbox>>
    BY <1>10 DEF Clear, Death
  <2> QED
    BY <1>0, <2>1, GoesFacts, RestFields, GenerationsKept
<1>11. ASSUME NEW g \in Gens, Drain(g) PROVE GenerationsInOrder'
  <2>1. act[g].pc = "drain" /\ UNCHANGED <<proc, cur, dead, outbox>>
    BY <1>11 DEF Drain
  <2>2. CASE Rests(g)
    BY <1>0, <2>1, <2>2, RestsFacts, RestFields, GenerationsKept
  <2>3. CASE queue # <<>> /\ Sends(g, "turn", Head(queue), chatOf[Head(queue)])
    <3>1. Head(queue) \in Msgs
      BY <2>3, TailFacts DEF GatewayInv, TypeOK
    <3>2. chatOf[Head(queue)] \in Chats
      BY <3>1 DEF GatewayInv, TypeOK
    <3>3. Others(g) /\ act'[g].pc = "ensure"
      BY <1>0, <2>3, <3>1, <3>2, SendsFacts
    <3> QED
      BY <1>0, <2>1, <3>3, RestFields, GenerationsKept
  <2> QED
    BY <1>11, <2>2, <2>3 DEF Drain
<1>12. ASSUME NEW g \in Gens, MarkDead(g) PROVE GenerationsInOrder'
  <2>1. /\ proc[g] # "none" /\ UNCHANGED <<proc, cur, outbox>>
        /\ Goes(g, "gone") \/ Goes(g, "death")
    BY <1>12 DEF MarkDead
  <2> QED
    BY <1>0, <2>1, GoesFacts, GenerationsKept
<1>13. ASSUME NEW g \in Gens, WorkerReads(g) \/ Turn(g) \/ Heartbeat(g)
       PROVE  GenerationsInOrder'
  <2>1. proc[g] = "up" /\ UNCHANGED <<proc, cur, act, dead>>
    BY <1>13 DEF WorkerReads, Turn, WorkerDone, WorkerRests, Heartbeat
  <2>2. \A h \in Gens : h # g => outbox'[h] = outbox[h]
    BY <1>13 DEF WorkerReads, Turn, WorkerDone, WorkerRests, Heartbeat, Emit, GatewayInv, TypeOK
  <2> QED
    BY <2>1, <2>2 DEF GatewayInv, GenerationsInOrder
<1>14. ASSUME NEW g \in Gens, Crash(g) PROVE GenerationsInOrder'
  <2>1. proc[g] = "up" /\ proc'[g] = "ending" /\ \A h \in Gens : h # g => proc'[h] = proc[h]
    BY <1>14 DEF Crash, GatewayInv, TypeOK
  <2>2. UNCHANGED <<cur, act, dead, outbox>>
    BY <1>14 DEF Crash
  <2>3. dead \subseteq Gens /\ (cur # None => cur \in Gens)
    BY DEF GatewayInv, TypeOK
  <2> QED
    BY <2>1, <2>2, <2>3 DEF GatewayInv, GenerationsInOrder
<1>15. ASSUME NEW g \in Gens, Exits(g) PROVE GenerationsInOrder'
  <2>1. proc[g] # "none" /\ proc'[g] = "down" /\ \A h \in Gens : h # g => proc'[h] = proc[h]
    BY <1>15 DEF Exits, GatewayInv, TypeOK
  <2>2. UNCHANGED <<cur, act, dead, outbox>>
    BY <1>15 DEF Exits
  <2>3. cur # None => cur \in Gens
    BY DEF GatewayInv, TypeOK
  <2> QED
    BY <2>1, <2>2, <2>3 DEF GatewayInv, GenerationsInOrder
<1>16. ASSUME NEW a \in Actors, NEW left \in BOOLEAN, HandshakeFails(a, left)
       PROVE  GenerationsInOrder'
  <2> DEFINE n == NextGen
  <2>1. n \in Gens /\ proc[n] = "none" /\ \A g \in Gens : g < n => proc[g] # "none"
    BY <1>16, NextGenFresh DEF HandshakeFails, GatewayInv
  <2>2. Others(a) /\ act'[a] = Rest /\ act[a].pc = "ensure"
    BY <1>0, <1>16, RestsFacts DEF HandshakeFails, SendFails
  <2>3. /\ cur' = None /\ UNCHANGED outbox
        /\ proc' = [proc EXCEPT ![n] = IF left THEN "up" ELSE "down"]
    BY <1>16 DEF HandshakeFails
  <2> HIDE DEF n
  <2>4. proc'[n] # "none" /\ \A g \in Gens : g # n => proc'[g] = proc[g]
    BY <2>1, <2>3 DEF GatewayInv, TypeOK
  <2>5. \A g, h \in Gens : h < g /\ proc'[g] # "none" => proc'[h] # "none"
    BY <2>1, <2>4 DEF GatewayInv, GenerationsInOrder
  <2>6. \A g \in Gens : proc'[g] = "none" => act'[g] = Rest /\ outbox'[g] = <<>>
    BY <2>2, <2>3, <2>4, RestFields DEF Others, GatewayInv, GenerationsInOrder
  <2>7. \A b \in Actors : act'[b].pc \in {"write", "mark"} =>
          act'[b].gen \in Gens /\ proc'[act'[b].gen] # "none"
    BY <2>2, <2>4, RestFields DEF Others, GatewayInv, GenerationsInOrder
  <2> QED
    BY <2>3, <2>5, <2>6, <2>7 DEF GenerationsInOrder
<1> QED
  BY <1>1, <1>2, <1>3, <1>4, <1>5, <1>6, <1>7, <1>8, <1>9, <1>10, <1>11, <1>12, <1>13, <1>14,
     <1>15, <1>16
  DEF Next, Thread, Reader

----------------------------------------------------------------------------
(* The one worker. *)

\* A step that gives no process work and takes no handle off the table.
LEMMA WorkKept ==
  ASSUME GatewayInv, UNCHANGED <<proc, cur, dead, inbox, running, slot>>
  PROVE  WorkIsHeld'
BY DEF GatewayInv, WorkIsHeld, Work

\* A step that takes a handle off the table or marks it dead, its process
\* without work.
LEMMA WorkForgotten ==
  ASSUME GatewayInv, UNCHANGED <<inbox, running, slot>>,
         NEW S \in SUBSET Gens, dead' = dead \cup S,
         \A g \in S : ~Work(g),
         \A g \in Gens : Work(g) => proc'[g] = proc[g],
         \A g \in Gens : proc'[g] = "up" => g \in dead' \/ cur' = g
  PROVE  WorkIsHeld'
BY DEF GatewayInv, WorkIsHeld, Work

\* A handle that is not alive has no work, and neither has a new process.
LEMMA IdleHandles ==
  ASSUME GatewayInv
  PROVE  /\ cur # None /\ ~Alive(cur) => ~Work(cur)
         /\ \A g \in Gens : proc[g] # "up" => ~Work(g)
         /\ \A g \in Gens : proc[g] = "up" /\ cur # g => g \in dead /\ ~Work(g)
         /\ ~(cur # None /\ Alive(cur)) => \A g \in Gens : proc[g] = "up" => g \in dead
<1>1. cur # None => cur \in Gens
  BY DEF GatewayInv, TypeOK
<1>2. \A g \in Gens : /\ proc[g] = "up" => cur = g \/ g \in dead
                      /\ Work(g) => proc[g] = "up" /\ g \notin dead
  BY DEF GatewayInv, WorkIsHeld
<1> QED
  BY <1>1, <1>2, GenFacts DEF Alive

LEMMA NextHeld == GatewayInv /\ [Next]_vars => WorkIsHeld'
<1> SUFFICES ASSUME GatewayInv, [Next]_vars PROVE WorkIsHeld'
  OBVIOUS
<1> USE GenFacts
    DEF vars, routerVars, handleVars, workerVars, countVars, historyVars
<1>0. cur \in Gens \cup {None} /\ dead \subseteq Gens
  BY DEF GatewayInv, TypeOK
<1>1. CASE UNCHANGED <<proc, cur, dead, inbox, running, slot>>
  BY <1>1, WorkKept
<1>2. ASSUME NEW a \in Actors, Ensure(a) PROVE WorkIsHeld'
  <2>1. UNCHANGED <<inbox, running, slot>>
    BY <1>2 DEF Ensure
  <2>2. CASE UNCHANGED <<cur, dead, proc>>
    BY <2>1, <2>2, WorkKept
  <2>3. CASE /\ NextGen \in Gens /\ cur' = NextGen /\ ForgetCur
             /\ proc[NextGen] = "none" /\ (cur # None => ~Alive(cur))
             /\ proc' = [proc EXCEPT ![NextGen] = "up"]
    <3>1. /\ proc \in [Gens -> {"none", "up", "ending", "down"}]
          /\ dead' = dead \cup ({cur} \ {None}) /\ ({cur} \ {None}) \in SUBSET Gens
      BY <1>0, <2>3 DEF GatewayInv, TypeOK, ForgetCur
    <3>2. \A g \in {cur} \ {None} : ~Work(g)
      BY <2>3, IdleHandles
    <3>3. \A g \in Gens : Work(g) => proc'[g] = proc[g]
      BY <2>3, <3>1, IdleHandles
    <3>4. \A g \in Gens : proc'[g] = "up" => g \in dead' \/ cur' = g
      BY <2>3, <3>1, IdleHandles
    <3> QED
      BY <2>1, <3>1, <3>2, <3>3, <3>4, WorkForgotten
  <2> QED
    BY <1>2, <2>2, <2>3, EnsureFacts
<1>3. ASSUME NEW a \in Actors, NEW lease \in BOOLEAN, SpawnFails(a, lease) PROVE WorkIsHeld'
  <2>1. /\ UNCHANGED <<proc, inbox, running, slot>> /\ dead' = dead \cup ({cur} \ {None})
        /\ ~(cur # None /\ Alive(cur)) /\ ({cur} \ {None}) \in SUBSET Gens
    BY <1>0, <1>3 DEF SpawnFails, ForgetCur
  <2>2. \A g \in {cur} \ {None} : ~Work(g)
    BY <2>1, IdleHandles
  <2>3. \A g \in Gens : proc'[g] = "up" => g \in dead' \/ cur' = g
    BY <2>1, IdleHandles
  <2> QED
    BY <2>1, <2>2, <2>3, WorkForgotten
<1>4. ASSUME NEW a \in Actors, NEW left \in BOOLEAN, HandshakeFails(a, left) PROVE WorkIsHeld'
  <2> DEFINE n == NextGen
             S == {cur, n} \ {None}
  <2>1. n \in Gens /\ proc[n] = "none"
    BY <1>4, NextGenFresh DEF HandshakeFails, GatewayInv
  <2>2. /\ UNCHANGED <<inbox, running, slot>> /\ dead' = dead \cup S
        /\ ~(cur # None /\ Alive(cur)) /\ S \in SUBSET Gens
        /\ proc' = [proc EXCEPT ![n] = IF left THEN "up" ELSE "down"]
        /\ proc \in [Gens -> {"none", "up", "ending", "down"}]
    BY <1>0, <1>4, <2>1 DEF HandshakeFails, GatewayInv, TypeOK
  <2> HIDE DEF n
  <2>3. \A g \in S : ~Work(g)
    BY <2>1, <2>2, IdleHandles
  <2>4. \A g \in Gens : Work(g) => proc'[g] = proc[g]
    BY <2>1, <2>2, IdleHandles
  <2>5. \A g \in Gens : proc'[g] = "up" => g \in dead' \/ cur' = g
    BY <2>1, <2>2, IdleHandles
  <2> HIDE DEF S
  <2> QED
    BY <2>2, <2>3, <2>4, <2>5, WorkForgotten
<1>5. ASSUME NEW a \in Actors, Write(a) PROVE WorkIsHeld'
  <2> DEFINE g == act[a].gen
  <2>1. g \in Gens /\ UNCHANGED <<proc, cur, running, slot>>
    BY <1>5 DEF Write, GatewayInv, GenerationsInOrder
  <2>2. CASE /\ Alive(g) /\ proc[g] = "up" /\ UNCHANGED dead
             /\ inbox' = [inbox EXCEPT ![g] = Append(@, Frame(act[a]))]
    <3>1. \A h \in Gens : h # g => inbox'[h] = inbox[h]
      BY <2>1, <2>2 DEF GatewayInv, TypeOK
    <3> QED
      BY <2>1, <2>2, <3>1 DEF GatewayInv, WorkIsHeld, Work, Alive
  <2>3. CASE ~(Alive(g) /\ proc[g] = "up") /\ UNCHANGED inbox
             /\ dead' = IF Alive(g) THEN dead \cup {g} ELSE dead
    <3>1. CASE ~Alive(g)
      BY <2>1, <2>3, <3>1, WorkKept
    <3>2. CASE Alive(g)
      <4>1. ~Work(g) /\ dead' = dead \cup {g}
        BY <2>1, <2>3, <3>2, IdleHandles
      <4> QED
        BY <2>1, <2>3, <4>1 DEF GatewayInv, WorkIsHeld, Work
    <3> QED
      BY <3>1, <3>2
  <2> QED
    BY <1>5, <2>2, <2>3 DEF Write
<1>6. ASSUME NEW g \in Gens, MarkDead(g) PROVE WorkIsHeld'
  <2>1. /\ UNCHANGED <<proc, cur, inbox, running, slot>> /\ dead' = dead \cup {g}
        /\ proc[g] # "up" \/ cur # g
    BY <1>6 DEF MarkDead, PipesOpen
  <2>2. ~Work(g)
    BY <2>1, IdleHandles
  <2> QED
    BY <2>1, <2>2 DEF GatewayInv, WorkIsHeld, Work
<1>7. ASSUME NEW g \in Gens, WorkerReads(g) \/ Turn(g) PROVE WorkIsHeld'
  <2>1. proc[g] = "up" /\ UNCHANGED <<proc, cur, dead>>
    BY <1>7 DEF WorkerReads, Turn, WorkerDone, WorkerRests
  <2>2. Work(g)' => Work(g)
    <3>1. CASE WorkerReads(g)
      BY <3>1 DEF WorkerReads, Work
    <3>2. CASE WorkerDone(g)
      BY <3>2 DEF WorkerDone, Work
    <3>3. CASE WorkerRests(g)
      BY <3>3 DEF WorkerRests, Work, GatewayInv, TypeOK
    <3> QED
      BY <1>7, <3>1, <3>2, <3>3 DEF Turn
  <2>3. \A h \in Gens : h # g => /\ inbox'[h] = inbox[h] /\ running'[h] = running[h]
                                 /\ slot'[h] = slot[h]
    BY <1>7 DEF WorkerReads, Turn, WorkerDone, WorkerRests, GatewayInv, TypeOK
  <2> QED
    BY <2>1, <2>2, <2>3 DEF GatewayInv, WorkIsHeld, Work
<1>8. ASSUME NEW g \in Gens, Crash(g) PROVE WorkIsHeld'
  <2>1. /\ proc'[g] = "ending" /\ inbox'[g] = <<>> /\ running'[g] = None /\ slot'[g] = None
        /\ UNCHANGED <<cur, dead>>
    BY <1>8 DEF Crash, GatewayInv, TypeOK
  <2>2. \A h \in Gens : h # g => /\ inbox'[h] = inbox[h] /\ running'[h] = running[h]
                                 /\ slot'[h] = slot[h] /\ proc'[h] = proc[h]
    BY <1>8 DEF Crash, GatewayInv, TypeOK
  <2> QED
    BY <2>1, <2>2 DEF GatewayInv, WorkIsHeld, Work
<1>9. ASSUME NEW g \in Gens, Exits(g) PROVE WorkIsHeld'
  <2>1. /\ UNCHANGED <<cur, dead, inbox, running, slot>> /\ proc'[g] = "down"
        /\ \A h \in Gens : h # g => proc'[h] = proc[h]
        /\ proc[g] # "up" \/ cur # g
    BY <1>9 DEF Exits, PipesOpen, GatewayInv, TypeOK
  <2>2. ~Work(g)
    BY <2>1, IdleHandles
  <2> QED
    BY <2>1, <2>2 DEF GatewayInv, WorkIsHeld, Work
<1>10. ASSUME (\E plain \in BOOLEAN : Submit(plain)) \/ (\E c \in Chats : Stop(c))
       PROVE  WorkIsHeld'
  BY <1>10, WorkKept DEF Submit, Stop
<1>11. ASSUME NEW a \in Actors, Mark(a) PROVE WorkIsHeld'
  BY <1>11, WorkKept DEF Mark
<1>12. ASSUME NEW g \in Gens,
              Read(g) \/ Deliver(g) \/ Clear(g) \/ Drain(g) \/ Death(g) \/ Heartbeat(g)
       PROVE  WorkIsHeld'
  BY <1>12, WorkKept DEF Read, Deliver, Clear, Drain, Death, Heartbeat
<1> QED
  BY <1>1, <1>2, <1>3, <1>4, <1>5, <1>6, <1>7, <1>8, <1>9, <1>10, <1>11, <1>12
  DEF Next, Thread, Reader
----------------------------------------------------------------------------
(* A turn is in one place. *)

\* A step in which no thread takes up a turn, and none is queued or written.
LEMMA OnePlaceKept ==
  ASSUME GatewayInv, UNCHANGED <<queue, written, msgs>>,
         \A a \in Actors : Carries(a)' => Carries(a) /\ act'[a].msg = act[a].msg
  PROVE  OnePlaceEach'
BY DEF GatewayInv, OnePlaceEach, ToSet

LEMMA OnePlaceKeptBut ==
  ASSUME GatewayInv, UNCHANGED <<queue, written, msgs>>,
         NEW a \in Actors, Others(a), Carries(a)' => Carries(a) /\ act'[a].msg = act[a].msg
  PROVE  OnePlaceEach'
<1>1. \A b \in Actors : Carries(b)' => Carries(b) /\ act'[b].msg = act[b].msg
  BY DEF Others, Carries
<1> QED
  BY <1>1, OnePlaceKept

\* submit_turn gives the new message to the queue or to the bot's own send.
LEMMA SubmitOnePlace ==
  ASSUME GatewayInv, NEW plain \in BOOLEAN, Submit(plain)
  PROVE  OnePlaceEach'
<1> DEFINE m == msgs + 1
<1>1. /\ m \in Msgs /\ msgs' = m /\ msgs \in Nat /\ act[Bot] = Rest
      /\ act \in [Actors -> Calls] /\ queue \in Seq(Msgs) /\ UNCHANGED written
  BY GatewayAssumption DEF Submit, GatewayInv, TypeOK, Msgs, historyVars
<1>2. chatOf[m] \in Chats
  BY <1>1 DEF GatewayInv, TypeOK
<1>3. \A k \in 1..msgs : k \in 1..msgs' /\ k # m
  BY <1>1
<1>4. \A i \in DOMAIN queue : queue[i] \in (1..msgs) \ written
  BY DEF GatewayInv, OnePlaceEach
<1> HIDE DEF m
<1>5. CASE UNCHANGED queue /\ Others(Bot) /\ ~Carries(Bot)'
  <2>1. \A a \in Actors : Carries(a)' => a # Bot /\ Carries(a) /\ act'[a].msg = act[a].msg
    BY <1>5 DEF Others, Carries
  <2> QED
    BY <1>1, <1>3, <1>5, <2>1 DEF GatewayInv, OnePlaceEach, ToSet
<1>6. CASE queue' = Append(queue, m) /\ UNCHANGED act
  <2>1. \A i \in DOMAIN queue' :
          (i \in DOMAIN queue /\ queue'[i] = queue[i]) \/ (i = Len(queue) + 1 /\ queue'[i] = m)
    BY <1>1, <1>6, AppendFacts
  <2>2. m \in (1..msgs') \ written
    BY <1>1, <1>3 DEF m, GatewayInv, OnePlaceEach
  <2>3. written \subseteq 1..msgs' /\ \A i \in DOMAIN queue' : queue'[i] \in (1..msgs') \ written
    BY <1>3, <1>4, <2>1, <2>2 DEF GatewayInv, OnePlaceEach
  <2>4. \A i, k \in DOMAIN queue' : queue'[i] = queue'[k] => i = k
    BY <1>3, <1>4, <2>1 DEF GatewayInv, OnePlaceEach
  <2>5. \A a \in Actors : Carries(a) =>
          act[a].msg \in (1..msgs') \ written /\ \A i \in DOMAIN queue' : queue'[i] # act[a].msg
    BY <1>3, <2>1 DEF GatewayInv, OnePlaceEach, ToSet
  <2>6. \A a \in Actors : Carries(a)' <=> Carries(a)
    BY <1>6 DEF Carries
  <2> QED
    BY <1>1, <1>6, <2>3, <2>4, <2>5, <2>6 DEF GatewayInv, OnePlaceEach, ToSet
<1>7. CASE UNCHANGED queue /\ Others(Bot) /\ act'[Bot].msg = m
  <2>1. m \in (1..msgs') \ (written \cup ToSet(queue))
    BY <1>1, <1>3, <1>4 DEF m, GatewayInv, OnePlaceEach, ToSet
  <2>2. \A a \in Actors : a # Bot /\ Carries(a)' =>
           Carries(a) /\ act'[a].msg = act[a].msg /\ act[a].msg # m
    BY <1>3, <1>7 DEF Others, Carries, GatewayInv, OnePlaceEach
  <2>3. written \subseteq 1..msgs' /\ \A i \in DOMAIN queue' : queue'[i] \in (1..msgs') \ written
    BY <1>3, <1>4, <1>7 DEF GatewayInv, OnePlaceEach
  <2>4. \A a \in Actors : Carries(a)' => act'[a].msg \in (1..msgs') \ (written \cup ToSet(queue))
    BY <1>3, <1>7, <2>1, <2>2 DEF GatewayInv, OnePlaceEach
  <2>5. \A a, b \in Actors : Carries(a)' /\ Carries(b)' /\ act'[a].msg = act'[b].msg => a = b
    BY <1>7, <2>2 DEF GatewayInv, OnePlaceEach
  <2> QED
    BY <1>1, <1>7, <2>3, <2>4, <2>5 DEF GatewayInv, OnePlaceEach
<1>8. \/ Sends(Bot, "steer", m, chatOf[m]) /\ UNCHANGED queue
      \/ queue' = Append(queue, m) /\ UNCHANGED act
      \/ Sends(Bot, "turn", m, chatOf[m]) /\ UNCHANGED queue
  BY DEF Submit, Enqueue, m, routerVars
<1>9. ASSUME Sends(Bot, "steer", m, chatOf[m]) PROVE Others(Bot) /\ ~Carries(Bot)'
  BY <1>1, <1>2, <1>9, GenFacts, SendsFacts DEF Carries
<1>10. ASSUME Sends(Bot, "turn", m, chatOf[m]) PROVE Others(Bot) /\ act'[Bot].msg = m
  BY <1>1, <1>2, <1>10, GenFacts, SendsFacts
<1> QED
  BY <1>5, <1>6, <1>7, <1>8, <1>9, <1>10

LEMMA StopOnePlace ==
  ASSUME GatewayInv, NEW c \in Chats, Stop(c)
  PROVE  OnePlaceEach'
<1>1. act \in [Actors -> Calls] /\ queue \in Seq(Msgs) /\ UNCHANGED <<written, msgs>>
      /\ queue' = QueueWithout(c) /\ act[Bot] = Rest
  BY DEF Stop, GatewayInv, TypeOK
<1>2. UNCHANGED act \/ Sends(Bot, "cancel", None, c)
  BY DEF Stop
<1>3. \A a \in Actors : Carries(a)' => Carries(a) /\ act'[a].msg = act[a].msg
  BY <1>1, <1>2, GenFacts, SendsFacts DEF Carries, Others
<1>4. PICK at \in [DOMAIN queue' -> DOMAIN queue] :
        /\ \A i \in DOMAIN queue' : queue'[i] = queue[at[i]]
        /\ \A i, k \in DOMAIN queue' : at[i] = at[k] => i = k
  BY <1>1, QueueWithoutFacts
<1>5. \A i \in DOMAIN queue' : at[i] \in DOMAIN queue
  BY <1>4
<1>6. /\ \A i \in DOMAIN queue' : queue'[i] \in (1..msgs) \ written
      /\ \A i, k \in DOMAIN queue' : queue'[i] = queue'[k] => i = k
      /\ ToSet(queue') \subseteq ToSet(queue)
  BY <1>4, <1>5 DEF GatewayInv, OnePlaceEach, ToSet
<1> QED
  BY <1>1, <1>3, <1>6 DEF GatewayInv, OnePlaceEach

\* _write_frame moves a turn from its thread to written.
LEMMA WriteOnePlace ==
  ASSUME GatewayInv, NEW a \in Actors, Write(a)
  PROVE  OnePlaceEach'
<1>1. act \in [Actors -> Calls] /\ UNCHANGED <<queue, msgs>> /\ act[a].pc = "write"
  BY DEF Write, GatewayInv, TypeOK, countVars
<1>2. CASE Rests(a) /\ UNCHANGED written
  BY <1>1, <1>2, RestsFacts, RestFields, OnePlaceKeptBut DEF Carries
<1>3. CASE Goes(a, "mark") /\ act[a].op # "turn" /\ UNCHANGED written
  BY <1>1, <1>3, GoesFacts, OnePlaceKeptBut DEF Carries
<1>4. CASE Goes(a, "mark") /\ act[a].op = "turn" /\ written' = written \cup {act[a].msg}
  <2>1. Carries(a) /\ act[a].msg \in (1..msgs) \ (written \cup ToSet(queue))
    BY <1>1, <1>4 DEF Carries, GatewayInv, OnePlaceEach
  <2>2. \A b \in Actors : Carries(b)' =>
          b # a /\ Carries(b) /\ act'[b].msg = act[b].msg /\ act[b].msg # act[a].msg
    BY <1>1, <1>4, <2>1, GoesFacts DEF Carries, Others, GatewayInv, OnePlaceEach
  <2>3. written' \subseteq 1..msgs /\ \A i \in DOMAIN queue : queue[i] \in (1..msgs) \ written'
    BY <1>4, <2>1 DEF GatewayInv, OnePlaceEach, ToSet
  <2>4. \A b \in Actors : Carries(b)' => act'[b].msg \in (1..msgs) \ (written' \cup ToSet(queue))
    BY <1>4, <2>1, <2>2 DEF GatewayInv, OnePlaceEach
  <2>5. \A b, d \in Actors : Carries(b)' /\ Carries(d)' /\ act'[b].msg = act'[d].msg => b = d
    BY <2>2 DEF GatewayInv, OnePlaceEach
  <2> QED
    BY <1>1, <2>3, <2>4, <2>5 DEF GatewayInv, OnePlaceEach
<1> QED
  BY <1>2, <1>3, <1>4 DEF Write, SendFails

\* drain_queue moves the head of the queue to the reader.
LEMMA DrainOnePlace ==
  ASSUME GatewayInv, NEW g \in Gens, Drain(g)
  PROVE  OnePlaceEach'
<1>1. /\ act \in [Actors -> Calls] /\ queue \in Seq(Msgs) /\ UNCHANGED <<msgs, written>>
      /\ act[g].pc = "drain" /\ g \in Actors
  BY GenFacts DEF Drain, GatewayInv, TypeOK, countVars, historyVars
<1>2. CASE Rests(g) /\ UNCHANGED queue
  BY <1>1, <1>2, RestsFacts, RestFields, OnePlaceKeptBut DEF Carries
<1>3. CASE queue # <<>> /\ queue' = Tail(queue)
           /\ Sends(g, "turn", Head(queue), chatOf[Head(queue)])
  <2>1. /\ Head(queue) \in Msgs /\ 1 \in DOMAIN queue /\ Head(queue) = queue[1]
        /\ \A i \in DOMAIN queue' : i + 1 \in DOMAIN queue /\ queue'[i] = queue[i + 1] /\ i \in Nat
                                    /\ i + 1 # 1
    BY <1>1, <1>3, TailFacts
  <2>2. chatOf[Head(queue)] \in Chats
    BY <2>1 DEF GatewayInv, TypeOK
  <2>3. Others(g) /\ act'[g].msg = Head(queue)
    BY <1>1, <1>3, <2>1, <2>2, SendsFacts
  <2>4. /\ \A i \in DOMAIN queue' : queue'[i] \in (1..msgs) \ written /\ queue'[i] # Head(queue)
        /\ \A i, k \in DOMAIN queue' : queue'[i] = queue'[k] => i = k
        /\ ToSet(queue') \subseteq ToSet(queue)
    BY <2>1 DEF GatewayInv, OnePlaceEach, ToSet
  <2>5. /\ Head(queue) \in ToSet(queue) /\ Head(queue) \notin ToSet(queue')
        /\ Head(queue) \in (1..msgs) \ written
    BY <2>1, <2>4 DEF GatewayInv, OnePlaceEach, ToSet
  <2>6. \A b \in Actors : b # g /\ Carries(b)' =>
          Carries(b) /\ act'[b].msg = act[b].msg /\ act[b].msg # Head(queue)
    BY <2>3, <2>5 DEF Others, Carries, GatewayInv, OnePlaceEach
  <2>7. \A b \in Actors : Carries(b)' => act'[b].msg \in (1..msgs) \ (written \cup ToSet(queue'))
    BY <2>3, <2>4, <2>5, <2>6 DEF GatewayInv, OnePlaceEach
  <2>8. \A b, d \in Actors : Carries(b)' /\ Carries(d)' /\ act'[b].msg = act'[d].msg => b = d
    BY <2>3, <2>6 DEF GatewayInv, OnePlaceEach
  <2> QED
    BY <1>1, <2>4, <2>7, <2>8 DEF GatewayInv, OnePlaceEach
<1> QED
  BY <1>2, <1>3 DEF Drain, TakeNext, routerVars

LEMMA NextOnePlace == GatewayInv /\ [Next]_vars => OnePlaceEach'
<1> SUFFICES ASSUME GatewayInv, [Next]_vars PROVE OnePlaceEach'
  OBVIOUS
<1>0. act \in [Actors -> Calls]
  BY DEF GatewayInv, TypeOK
<1> USE GenFacts
    DEF vars, routerVars, handleVars, workerVars, countVars, historyVars
<1>1. CASE UNCHANGED <<queue, written, msgs, act>>
  BY <1>1, OnePlaceKept DEF Carries
<1>2. ASSUME NEW a \in Actors, Ensure(a) PROVE OnePlaceEach'
  <2>1. act[a].pc = "ensure" /\ UNCHANGED <<queue, written, msgs>>
    BY <1>2 DEF Ensure
  <2>2. \A b \in Actors : Carries(b)' => Carries(b) /\ act'[b].msg = act[b].msg
    BY <1>2, <2>1, EnsureFacts, RestFields DEF Carries, Others
  <2> QED
    BY <2>1, <2>2, OnePlaceKept
<1>3. ASSUME NEW a \in Actors, (\E lease \in BOOLEAN : SpawnFails(a, lease)) \/ Mark(a)
      PROVE  OnePlaceEach'
  BY <1>0, <1>3, RestsFacts, RestFields, OnePlaceKeptBut DEF SpawnFails, SendFails, Mark, Carries
<1>8. ASSUME NEW a \in Actors, NEW left \in BOOLEAN, HandshakeFails(a, left) PROVE OnePlaceEach'
  BY <1>0, <1>8, RestsFacts, RestFields, OnePlaceKeptBut DEF HandshakeFails, SendFails, Carries
<1>4. ASSUME NEW g \in Gens, Read(g) PROVE OnePlaceEach'
  <2>1. Others(g) /\ act'[g].pc \in {"rest", "clear", "deliver"}
    BY <1>0, <1>4, RestFields DEF Read, Others, Calls
  <2> QED
    BY <1>4, <2>1, OnePlaceKeptBut DEF Read, Carries
<1>5. ASSUME NEW g \in Gens, Deliver(g) PROVE OnePlaceEach'
  <2>1. Others(g) /\ act'[g].pc \in {"rest", "clear"}
    BY <1>0, <1>5, RestFields DEF Deliver, Others
  <2> QED
    BY <1>5, <2>1, OnePlaceKeptBut DEF Deliver, Carries
<1>6. ASSUME NEW g \in Gens, Clear(g) \/ MarkDead(g) \/ Death(g) PROVE OnePlaceEach'
  <2>1. \/ Goes(g, "drain") \/ Goes(g, "gone") \/ Goes(g, "death")
    BY <1>6 DEF Clear, MarkDead, Death
  <2>2. Others(g) /\ act'[g].pc \in {"drain", "gone", "death"}
    BY <1>0, <2>1, GoesFacts
  <2> QED
    BY <1>6, <2>2, OnePlaceKeptBut DEF Clear, MarkDead, Death, Carries
<1>7. ASSUME NEW g \in Gens, WorkerReads(g) \/ Turn(g) \/ Heartbeat(g) \/ Crash(g) \/ Exits(g)
      PROVE  OnePlaceEach'
  BY <1>1, <1>7 DEF WorkerReads, Turn, WorkerDone, WorkerRests, Heartbeat, Crash, Exits
<1> QED
  BY <1>1, <1>2, <1>3, <1>4, <1>5, <1>6, <1>7, <1>8, SubmitOnePlace, StopOnePlace, WriteOnePlace,
     DrainOnePlace
  DEF Next, Thread, Reader
----------------------------------------------------------------------------
(* What a worker has was written to it. *)

LEMMA CallsKept ==
  ASSUME GatewayInv, written \subseteq written', NEW a \in Actors, Others(a) \/ UNCHANGED act,
         UNCHANGED act \/ act'[a].pc \notin {"deliver", "ensure", "write"}
                       \/ (act'[a].pc = "ensure" /\ act'[a].op \in {"turn", "steer"})
                       \/ (act'[a].pc = "ensure" /\ act'[a].op = "cancel" /\ act'[a].msg = None)
                       \/ (act'[a].pc = "deliver" /\ act'[a].op = "error")
                       \/ (act'[a].pc = "deliver" /\ act'[a].op = "done" /\ act'[a].msg \in written)
  PROVE  CallsWritten'
BY DEF GatewayInv, WorkerHasWritten, CallsWritten, Others

LEMMA InboxKept ==
  ASSUME GatewayInv, written \subseteq written',
         \A g \in Gens : \A i \in DOMAIN inbox'[g] :
           \/ \E k \in DOMAIN inbox[g] : inbox'[g][i] = inbox[g][k]
           \/ /\ inbox'[g][i].op = "turn" => inbox'[g][i].msg \in written'
              /\ inbox'[g][i].op = "cancel" => inbox'[g][i].msg = None
  PROVE  InboxWritten'
BY DEF GatewayInv, WorkerHasWritten, InboxWritten

LEMMA OutboxKept ==
  ASSUME GatewayInv, written \subseteq written',
         \A g \in Gens : \A i \in DOMAIN outbox'[g] :
           \/ \E k \in DOMAIN outbox[g] : outbox'[g][i] = outbox[g][k]
           \/ outbox'[g][i].kind = "done" => outbox'[g][i].msg \in written'
  PROVE  OutboxWritten'
BY DEF GatewayInv, WorkerHasWritten, OutboxWritten

LEMMA EmitKeepsWritten ==
  ASSUME GatewayInv, NEW g \in Gens, NEW f \in Replies, Emit(g, f), UNCHANGED written,
         f.kind = "done" => f.msg \in written
  PROVE  OutboxWritten'
<1>1. outbox \in [Gens -> Seq(Replies)] /\ outbox' = [outbox EXCEPT ![g] = Append(@, f)]
  BY DEF Emit, GatewayInv, TypeOK
<1>2. outbox'[g] = Append(outbox[g], f) /\ \A h \in Gens : h # g => outbox'[h] = outbox[h]
  BY <1>1, PipeAppend
<1>3. \A i \in DOMAIN outbox'[g] : \/ i \in DOMAIN outbox[g] /\ outbox'[g][i] = outbox[g][i]
                                   \/ outbox'[g][i] = f
  BY <1>1, <1>2, AppendFacts
<1> QED
  BY <1>2, <1>3, OutboxKept

\* A thread writes a frame to a worker.
LEMMA WriteKeepsWritten ==
  ASSUME GatewayInv, NEW a \in Actors, Write(a)
  PROVE  WorkerHasWritten'
<1>1. /\ act \in [Actors -> Calls] /\ inbox \in [Gens -> Seq(Frames)]
      /\ UNCHANGED <<running, slot, outbox>> /\ act[a].pc = "write" /\ act[a].gen \in Gens
  BY DEF Write, GatewayInv, TypeOK, GenerationsInOrder
<1>2. written \subseteq written'
  BY DEF Write
<1>3. TurnsWritten' /\ OutboxWritten'
  BY <1>1, <1>2, OutboxKept DEF GatewayInv, WorkerHasWritten, TurnsWritten
<1>4. Rests(a) \/ Goes(a, "mark")
  BY DEF Write, SendFails
<1>5. CallsWritten'
  BY <1>1, <1>2, <1>4, RestsFacts, GoesFacts, RestFields, CallsKept
<1>6. CASE UNCHANGED inbox
  BY <1>2, <1>3, <1>5, <1>6, InboxKept DEF WorkerHasWritten
<1>7. CASE /\ inbox' = [inbox EXCEPT ![act[a].gen] = Append(@, Frame(act[a]))]
           /\ act[a].op = "turn" => act[a].msg \in written'
  <2> DEFINE g == act[a].gen
             f == Frame(act[a])
  <2>1. /\ f \in Frames
        /\ f.op = "turn" => f.msg \in written'
        /\ f.op = "cancel" => f.msg = None
    BY <1>1, <1>7 DEF Frame, Frames, Calls, GatewayInv, WorkerHasWritten, CallsWritten
  <2> HIDE DEF g, f
  <2>2. inbox'[g] = Append(inbox[g], f) /\ \A h \in Gens : h # g => inbox'[h] = inbox[h]
    BY <1>1, <1>7, <2>1, PipeAppend DEF g, f
  <2>3. \A i \in DOMAIN inbox'[g] : \/ i \in DOMAIN inbox[g] /\ inbox'[g][i] = inbox[g][i]
                                    \/ inbox'[g][i] = f
    BY <1>1, <2>1, <2>2, AppendFacts DEF g
  <2>4. InboxWritten'
    BY <1>2, <2>1, <2>2, <2>3, InboxKept
  <2> QED
    BY <1>3, <1>5, <2>4 DEF WorkerHasWritten
<1> QED
  BY <1>6, <1>7 DEF Write

\* The worker takes a frame: what it runs or keeps was written, what it answers
\* is an error.
LEMMA ReadsKeepWritten ==
  ASSUME GatewayInv, NEW g \in Gens, WorkerReads(g)
  PROVE  WorkerHasWritten'
<1> DEFINE w == Head(inbox[g])
<1>1. /\ inbox \in [Gens -> Seq(Frames)] /\ outbox \in [Gens -> Seq(Replies)]
      /\ inbox[g] # <<>> /\ inbox' = [inbox EXCEPT ![g] = Tail(@)] /\ UNCHANGED <<written, act>>
  BY DEF WorkerReads, GatewayInv, TypeOK
<1>2. /\ w \in Frames /\ w = inbox[g][1] /\ 1 \in DOMAIN inbox[g]
      /\ inbox'[g] = Tail(inbox[g]) /\ \A h \in Gens : h # g => inbox'[h] = inbox[h]
  BY <1>1, PipeTail
<1>3. \A i \in DOMAIN inbox'[g] : i + 1 \in DOMAIN inbox[g] /\ inbox'[g][i] = inbox[g][i + 1]
  BY <1>1, <1>2, TailFacts
<1>4. InboxWritten'
  BY <1>1, <1>2, <1>3, InboxKept
<1>5. w.op = "turn" => w.msg \in written
  BY <1>2 DEF GatewayInv, WorkerHasWritten, InboxWritten
<1>6. w.msg \in Msgs \cup {None} /\ w.chat \in Chats \cup {NoChat}
  BY <1>2 DEF Frames
<1> HIDE DEF w
<1>7. TurnsWritten'
  <2>1. /\ running \in [Gens -> Msgs \cup {None}] /\ slot \in [Gens -> Msgs \cup {None}]
        /\ \A h \in Gens : running[h] \in written \cup {None} /\ slot[h] \in written \cup {None}
    BY DEF GatewayInv, TypeOK, WorkerHasWritten, TurnsWritten
  <2>2. /\ running' \in {running, [running EXCEPT ![g] = w.msg], [running EXCEPT ![g] = None]}
        /\ running' = [running EXCEPT ![g] = w.msg] => running' = running \/ w.op = "turn"
                                                       \/ w.msg = None
        /\ slot' \in {slot, [slot EXCEPT ![g] = w.msg], [slot EXCEPT ![g] = None]}
        /\ slot' = [slot EXCEPT ![g] = w.msg] => slot' = slot \/ w.op = "turn" \/ w.msg = None
    BY <1>2, <2>1 DEF WorkerReads, w
  <2>3. running'[g] \in written \cup {None} /\ slot'[g] \in written \cup {None}
    BY <1>5, <2>1, <2>2
  <2>4. \A h \in Gens : h # g => running'[h] = running[h] /\ slot'[h] = slot[h]
    BY <2>1, <2>2
  <2> QED
    BY <1>1, <2>1, <2>3, <2>4 DEF TurnsWritten
<1>8. \/ UNCHANGED outbox
      \/ \E m \in Msgs \cup {None} : Emit(g, ErrorFor(w.chat, m))
  BY <1>6 DEF WorkerReads, GatewayInv, TypeOK, w
<1>9. OutboxWritten'
  <2>1. CASE UNCHANGED outbox
    BY <1>1, <2>1, OutboxKept
  <2>2. ASSUME NEW m \in Msgs \cup {None}, Emit(g, ErrorFor(w.chat, m)) PROVE OutboxWritten'
    <3>1. ErrorFor(w.chat, m) \in Replies /\ ErrorFor(w.chat, m).kind = "error"
      BY <1>6 DEF ErrorFor, Replies
    <3> QED
      BY <1>1, <2>2, <3>1, EmitKeepsWritten
  <2> QED
    BY <1>8, <2>1, <2>2
<1>10. CallsWritten'
  BY <1>1 DEF GatewayInv, WorkerHasWritten, CallsWritten
<1> QED
  BY <1>4, <1>7, <1>9, <1>10 DEF WorkerHasWritten
\* The reader takes a reply.
LEMMA ReadKeepsWritten ==
  ASSUME GatewayInv, NEW g \in Gens, Read(g)
  PROVE  WorkerHasWritten'
<1> DEFINE f == Head(outbox[g])
<1>1. /\ outbox \in [Gens -> Seq(Replies)] /\ outbox[g] # <<>>
      /\ outbox' = [outbox EXCEPT ![g] = Tail(@)]
      /\ UNCHANGED <<written, inbox, running, slot>> /\ act \in [Actors -> Calls] /\ act[g] = Rest
  BY DEF Read, GatewayInv, TypeOK, historyVars
<1>2. /\ f \in Replies /\ f = outbox[g][1] /\ 1 \in DOMAIN outbox[g]
      /\ outbox'[g] = Tail(outbox[g]) /\ \A h \in Gens : h # g => outbox'[h] = outbox[h]
  BY <1>1, PipeTail
<1>3. \A i \in DOMAIN outbox'[g] : i + 1 \in DOMAIN outbox[g] /\ outbox'[g][i] = outbox[g][i + 1]
  BY <1>1, <1>2, TailFacts
<1>4. OutboxWritten' /\ InboxWritten' /\ TurnsWritten'
  BY <1>1, <1>2, <1>3, OutboxKept, InboxKept DEF GatewayInv, WorkerHasWritten, TurnsWritten
<1>5. f.kind = "done" => f.msg \in written
  BY <1>2 DEF GatewayInv, WorkerHasWritten, OutboxWritten
<1>6. f.kind \in {"status", "done", "error"} /\ (f.kind = "status" => f.turn \in BOOLEAN)
  BY <1>2 DEF Replies
<1> HIDE DEF f
<1>7. \/ UNCHANGED act
      \/ act' = [act EXCEPT ![g].pc = "clear"]
      \/ f.kind \in {"done", "error"}
           /\ act' = [act EXCEPT ![g] = [pc |-> "deliver", op |-> f.kind, msg |-> f.msg,
                                         gen |-> None, chat |-> f.chat]]
  BY <1>6 DEF Read, f
<1>8. CallsWritten'
  BY <1>1, <1>5, <1>7, GenFacts, CallsKept DEF Others, Calls
<1> QED
  BY <1>4, <1>8 DEF WorkerHasWritten

LEMMA NextWritten == GatewayInv /\ [Next]_vars => WorkerHasWritten'
<1> SUFFICES ASSUME GatewayInv, [Next]_vars PROVE WorkerHasWritten'
  OBVIOUS
<1>0. act \in [Actors -> Calls] /\ inbox \in [Gens -> Seq(Frames)] /\ queue \in Seq(Msgs)
  BY DEF GatewayInv, TypeOK
<1> USE GenFacts
    DEF vars, routerVars, handleVars, workerVars, countVars, historyVars
<1>1. ASSUME UNCHANGED <<written, inbox, outbox, running, slot>>, CallsWritten'
      PROVE  WorkerHasWritten'
  BY <1>1 DEF GatewayInv, WorkerHasWritten, InboxWritten, OutboxWritten, TurnsWritten
<1>2. CASE UNCHANGED vars
  BY <1>1, <1>2, GenFacts, CallsKept
<1>3. ASSUME NEW plain \in BOOLEAN, Submit(plain) PROVE WorkerHasWritten'
  <2>1. msgs + 1 \in Msgs
    BY <1>3, GatewayAssumption DEF Submit, GatewayInv, TypeOK, Msgs
  <2>2. chatOf[msgs + 1] \in Chats
    BY <2>1 DEF GatewayInv, TypeOK
  <2>3. UNCHANGED act \/ (Others(Bot) /\ act'[Bot].pc = "ensure" /\ act'[Bot].op \in {"turn", "steer"})
    BY <1>0, <1>3, <2>1, <2>2, SendsFacts DEF Submit
  <2>4. UNCHANGED <<written, inbox, outbox, running, slot>>
    BY <1>3 DEF Submit
  <2> QED
    BY <1>1, <2>3, <2>4, CallsKept
<1>4. ASSUME NEW c \in Chats, Stop(c) PROVE WorkerHasWritten'
  <2>1. UNCHANGED act \/ (Others(Bot) /\ act'[Bot].pc = "ensure" /\ act'[Bot].op = "cancel"
                            /\ act'[Bot].msg = None)
    BY <1>0, <1>4, SendsFacts DEF Stop
  <2>2. UNCHANGED <<written, inbox, outbox, running, slot>>
    BY <1>4 DEF Stop
  <2> QED
    BY <1>1, <2>1, <2>2, CallsKept
<1>5. ASSUME NEW a \in Actors, Ensure(a) PROVE WorkerHasWritten'
  <2>1. UNCHANGED <<written, inbox, outbox, running, slot>> /\ act[a].pc = "ensure"
    BY <1>5 DEF Ensure
  <2>2. act'[a].pc = "write" /\ act'[a].op = act[a].op /\ act'[a].msg = act[a].msg
    BY <1>5, EnsureFacts
  <2>3. \A b \in Actors : b # a => act'[b] = act[b] \/ act'[b].pc = "clear"
    BY <1>5, EnsureFacts, RestFields DEF Others
  <2>4. CallsWritten'
    BY <2>1, <2>2, <2>3 DEF GatewayInv, WorkerHasWritten, CallsWritten
  <2> QED
    BY <1>1, <2>1, <2>4
<1>6. ASSUME NEW a \in Actors,
             \/ \E lease \in BOOLEAN : SpawnFails(a, lease)
             \/ \E left \in BOOLEAN : HandshakeFails(a, left)
             \/ Mark(a)
      PROVE  WorkerHasWritten'
  <2>1. UNCHANGED <<written, inbox, outbox, running, slot>> /\ Rests(a)
    BY <1>6 DEF SpawnFails, HandshakeFails, SendFails, Mark
  <2> QED
    BY <1>0, <1>1, <2>1, RestsFacts, RestFields, CallsKept
<1>7. ASSUME NEW g \in Gens, Deliver(g) PROVE WorkerHasWritten'
  <2>1. Others(g) /\ act'[g].pc \in {"rest", "clear"}
    BY <1>0, <1>7, RestFields DEF Deliver, Others
  <2>2. UNCHANGED <<written, inbox, outbox, running, slot>>
    BY <1>7 DEF Deliver
  <2> QED
    BY <1>1, <2>1, <2>2, CallsKept
<1>8. ASSUME NEW g \in Gens, Clear(g) \/ MarkDead(g) \/ Death(g) PROVE WorkerHasWritten'
  <2>1. \/ Goes(g, "drain") \/ Goes(g, "gone") \/ Goes(g, "death")
    BY <1>8 DEF Clear, MarkDead, Death
  <2>2. Others(g) /\ act'[g].pc \in {"drain", "gone", "death"}
    BY <1>0, <2>1, GoesFacts
  <2>3. UNCHANGED <<written, inbox, outbox, running, slot>>
    BY <1>8 DEF Clear, MarkDead, Death
  <2> QED
    BY <1>1, <2>2, <2>3, CallsKept
<1>9. ASSUME NEW g \in Gens, Drain(g) PROVE WorkerHasWritten'
  <2>1. UNCHANGED <<written, inbox, outbox, running, slot>>
    BY <1>9 DEF Drain
  <2>2. CASE Rests(g)
    BY <1>0, <1>1, <2>1, <2>2, RestsFacts, RestFields, CallsKept
  <2>3. CASE queue # <<>> /\ Sends(g, "turn", Head(queue), chatOf[Head(queue)])
    <3>1. Head(queue) \in Msgs
      BY <1>0, <2>3, TailFacts
    <3>2. chatOf[Head(queue)] \in Chats
      BY <3>1 DEF GatewayInv, TypeOK
    <3>3. Others(g) /\ act'[g].pc = "ensure" /\ act'[g].op = "turn"
      BY <1>0, <2>3, <3>1, <3>2, SendsFacts
    <3> QED
      BY <1>1, <2>1, <3>3, CallsKept
  <2> QED
    BY <1>9, <2>2, <2>3 DEF Drain
<1>10. ASSUME NEW g \in Gens, WorkerDone(g) PROVE WorkerHasWritten'
  <2>1. /\ running[g] \in Msgs /\ running[g] \in written /\ chatOf[running[g]] \in Chats
        /\ UNCHANGED <<written, inbox, running, slot, act>>
    BY <1>10 DEF WorkerDone, GatewayInv, TypeOK, WorkerHasWritten, TurnsWritten
  <2> DEFINE f == [kind |-> "done", chat |-> chatOf[running[g]], msg |-> running[g]]
  <2>2. f \in Replies /\ f.msg = running[g]
    BY <2>1 DEF Replies
  <2>3. Emit(g, f)
    BY <1>10 DEF WorkerDone
  <2> HIDE DEF f
  <2>4. OutboxWritten'
    BY <2>1, <2>2, <2>3, EmitKeepsWritten
  <2> QED
    BY <2>1, <2>4 DEF GatewayInv, WorkerHasWritten, InboxWritten, TurnsWritten, CallsWritten
<1>11. ASSUME NEW g \in Gens, WorkerRests(g) PROVE WorkerHasWritten'
  <2>1. /\ running \in [Gens -> Msgs \cup {None}] /\ slot \in [Gens -> Msgs \cup {None}]
        /\ UNCHANGED <<written, inbox, outbox, act>>
        /\ running' = [running EXCEPT ![g] = slot[g]] /\ slot' = [slot EXCEPT ![g] = None]
    BY <1>11 DEF WorkerRests, GatewayInv, TypeOK
  <2>2. TurnsWritten'
    BY <2>1 DEF GatewayInv, WorkerHasWritten, TurnsWritten
  <2> QED
    BY <2>1, <2>2 DEF GatewayInv, WorkerHasWritten, InboxWritten, OutboxWritten, CallsWritten
<1>12. ASSUME NEW g \in Gens, Heartbeat(g) PROVE WorkerHasWritten'
  <2>1. UNCHANGED <<written, inbox, running, slot, act>> /\ Emit(g, HeartbeatFrame(g))
    BY <1>12 DEF Heartbeat
  <2>2. HeartbeatFrame(g) \in Replies /\ HeartbeatFrame(g).kind = "status"
    BY DEF HeartbeatFrame, Replies
  <2>3. OutboxWritten'
    BY <2>1, <2>2, EmitKeepsWritten
  <2> QED
    BY <2>1, <2>3 DEF GatewayInv, WorkerHasWritten, InboxWritten, TurnsWritten, CallsWritten
<1>13. ASSUME NEW g \in Gens, Crash(g) PROVE WorkerHasWritten'
  <2>1. UNCHANGED <<written, outbox, act>>
    BY <1>13 DEF Crash
  <2>4. TurnsWritten'
    BY <1>13 DEF Crash, GatewayInv, TypeOK, WorkerHasWritten, TurnsWritten
  <2>2. inbox'[g] = <<>> /\ \A h \in Gens : h # g => inbox'[h] = inbox[h]
    BY <1>0, <1>13 DEF Crash
  <2>3. InboxWritten'
    BY <2>1, <2>2, InboxKept
  <2> QED
    BY <2>1, <2>3, <2>4 DEF GatewayInv, WorkerHasWritten, OutboxWritten, CallsWritten
<1>14. ASSUME NEW g \in Gens, Exits(g) PROVE WorkerHasWritten'
  BY <1>14 DEF Exits, GatewayInv, WorkerHasWritten, InboxWritten, OutboxWritten, TurnsWritten,
     CallsWritten
<1> QED
  BY <1>2, <1>3, <1>4, <1>5, <1>6, <1>7, <1>8, <1>9, <1>10, <1>11, <1>12, <1>13, <1>14,
     WriteKeepsWritten, ReadsKeepWritten, ReadKeepsWritten
  DEF Next, Thread, Reader, Turn
----------------------------------------------------------------------------
(* No message vanishes. *)

\* A message may move from the queue to a thread, from a thread to an inbox,
\* from an inbox to an outbox and from there to a reader, and may end anywhere.
LEMMA StaysLocated ==
  ASSUME NEW m, Located(m),
         Queued(m) => Queued(m)' \/ Ended(m)' \/ (\E a \in Actors : Hand(a, m)'),
         \A a \in Actors : Hand(a, m) => Hand(a, m)' \/ Ended(m)' \/ (\E g \in Gens : InBox(g, m)'),
         \A g \in Gens : InBox(g, m) => InBox(g, m)' \/ OutBox(g, m)' \/ Ended(m)',
         \A g \in Gens : OutBox(g, m) => OutBox(g, m)' \/ Ended(m)' \/ (\E a \in Actors : Hand(a, m)'),
         Ended(m) => Ended(m)'
  PROVE  Located(m)'
BY DEF Located

\* What has ended has ended.
LEMMA EndedStays ==
  ASSUME [Next]_vars, NEW m
  PROVE  Ended(m) => Ended(m)'
<1> USE DEF vars, historyVars, Ended
<1>1. ASSUME NEW a \in Actors, NEW tells \in BOOLEAN, SendFails(a, tells)
      PROVE  told \subseteq told' /\ lost \subseteq lost'
  BY <1>1 DEF SendFails
<1>2. /\ written \subseteq written' /\ steered \subseteq steered'
      /\ told \subseteq told' /\ lost \subseteq lost'
  BY <1>1
  DEF Next, Thread, Reader, Turn, Submit, Stop, Ensure, Write, Mark, SpawnFails, HandshakeFails,
      Read, Deliver, Clear, Drain, MarkDead, Death, WorkerReads, DropSlot, WorkerDone, WorkerRests,
      Heartbeat, Crash, Exits
<1> QED
  BY <1>2

\* A step of the thread a that touches no pipe and no queue.
LEMMA ThreadStaysLocated ==
  ASSUME [Next]_vars, UNCHANGED <<queue, inbox, outbox>>, NEW a \in Actors, Others(a),
         NEW m, Located(m), Hand(a, m) => Hand(a, m)' \/ Ended(m)'
  PROVE  Located(m)'
<1>1. \A b \in Actors : Hand(b, m) => Hand(b, m)' \/ Ended(m)'
  BY DEF Others, Hand
<1>2. (Queued(m) => Queued(m)')
      /\ \A g \in Gens : (InBox(g, m) => InBox(g, m)') /\ (OutBox(g, m) => OutBox(g, m)')
  BY DEF Queued, InBox, OutBox
<1> QED
  BY <1>1, <1>2, EndedStays, StaysLocated

\* A reply appended to an outbox.
LEMMA EmitKeepsOutBox ==
  ASSUME TypeOK, NEW g \in Gens, NEW f \in Replies, Emit(g, f), NEW m
  PROVE  /\ \A h \in Gens : OutBox(h, m) => OutBox(h, m)'
         /\ f.kind = "error" /\ f.msg = m => OutBox(g, m)'
<1>1. outbox \in [Gens -> Seq(Replies)] /\ outbox' = [outbox EXCEPT ![g] = Append(@, f)]
  BY DEF Emit, TypeOK
<1>2. outbox'[g] = Append(outbox[g], f) /\ \A h \in Gens : h # g => outbox'[h] = outbox[h]
  BY <1>1, PipeAppend
<1>3. /\ \A i \in DOMAIN outbox[g] : i \in DOMAIN outbox'[g] /\ outbox'[g][i] = outbox[g][i]
      /\ \E i \in DOMAIN outbox'[g] : outbox'[g][i] = f
  BY <1>1, <1>2, AppendFacts
<1> QED
  BY <1>2, <1>3 DEF OutBox

LEMMA SubmitLocated ==
  ASSUME GatewayInv, NEW plain \in BOOLEAN, Submit(plain), [Next]_vars,
         NEW m \in 1..msgs'
  PROVE  Located(m)'
<1>0. msgs + 1 \in Msgs
  BY GatewayAssumption DEF Submit, GatewayInv, TypeOK, Msgs
<1> PICK n \in Msgs : n = msgs + 1
  BY <1>0
<1>1. /\ n \in Msgs /\ msgs' = n /\ msgs \in Nat /\ act[Bot] = Rest
      /\ act \in [Actors -> Calls] /\ queue \in Seq(Msgs) /\ UNCHANGED <<inbox, outbox>>
  BY GatewayAssumption DEF Submit, GatewayInv, TypeOK, Msgs, workerVars
<1>2. chatOf[n] \in Chats
  BY <1>1 DEF GatewayInv, TypeOK
<1>3. \/ \E op \in {"steer", "turn"} : Sends(Bot, op, n, chatOf[n]) /\ UNCHANGED queue
      \/ queue' = Append(queue, n) /\ UNCHANGED act
  BY DEF Submit, Enqueue, routerVars
<1>4. \/ Others(Bot) /\ Hand(Bot, n)' /\ UNCHANGED queue
      \/ queue' = Append(queue, n) /\ UNCHANGED act
  BY <1>1, <1>2, <1>3, GenFacts, SendsFacts DEF Hand
<1>5. /\ Queued(m) => Queued(m)'
      /\ queue' = Append(queue, n) => Queued(n)'
  BY <1>1, <1>4, AppendFacts DEF Queued
<1>6. CASE m = n
  BY <1>4, <1>5, <1>6, GenFacts DEF Located
<1>7. CASE m # n
  <2>1. m \in 1..msgs
    BY <1>1, <1>7
  <2>2. Located(m)
    BY <2>1, AccountedIsLocated DEF GatewayInv, TypeOK
  <2>3. \A a \in Actors : Hand(a, m) => Hand(a, m)'
    BY <1>1, <1>4, RestFields DEF Hand, Others
  <2>4. \A g \in Gens : (InBox(g, m) => InBox(g, m)') /\ (OutBox(g, m) => OutBox(g, m)')
    BY <1>1 DEF InBox, OutBox
  <2> QED
    BY <1>5, <2>2, <2>3, <2>4, EndedStays, StaysLocated
<1> QED
  BY <1>6, <1>7

LEMMA StopLocated ==
  ASSUME GatewayInv, NEW c \in Chats, Stop(c), [Next]_vars, NEW m, Located(m)
  PROVE  Located(m)'
<1>1. /\ act \in [Actors -> Calls] /\ queue \in Seq(Msgs) /\ UNCHANGED <<inbox, outbox>>
      /\ queue' = QueueWithout(c) /\ act[Bot] = Rest
      /\ told' = told \cup {k \in ToSet(queue) : chatOf[k] = c}
  BY DEF Stop, GatewayInv, TypeOK, workerVars
<1>2. Queued(m) => Queued(m)' \/ Ended(m)'
  <2>1. CASE chatOf[m] = c
    BY <1>1, <2>1, QueuedIsInQueue DEF Ended
  <2>2. CASE chatOf[m] # c
    BY <1>1, <2>2, QueueWithoutFacts DEF Queued
  <2> QED
    BY <2>1, <2>2
<1>3. UNCHANGED act \/ Sends(Bot, "cancel", None, c)
  BY DEF Stop
<1>4. \A a \in Actors : Hand(a, m) => Hand(a, m)'
  BY <1>1, <1>3, GenFacts, SendsFacts, RestFields DEF Hand, Others
<1>5. \A g \in Gens : (InBox(g, m) => InBox(g, m)') /\ (OutBox(g, m) => OutBox(g, m)')
  BY <1>1 DEF InBox, OutBox
<1> QED
  BY <1>2, <1>4, <1>5, EndedStays, StaysLocated

\* A send that fails leaves its message with the told or the lost.
LEMMA SendFailsLocated ==
  ASSUME GatewayInv, NEW a \in Actors, NEW tells \in BOOLEAN, SendFails(a, tells), [Next]_vars,
         UNCHANGED <<queue, inbox, outbox>>, NEW m \in 1..msgs, Located(m)
  PROVE  Located(m)'
<1>1. Others(a)
  BY RestsFacts DEF SendFails, GatewayInv, TypeOK
<1>2. m # None
  BY DEF None, GatewayInv, TypeOK
<1>3. Hand(a, m) => Ended(m)'
  BY <1>2 DEF SendFails, Hand, Ended
<1> QED
  BY <1>1, <1>3, ThreadStaysLocated
LEMMA WriteLocated ==
  ASSUME GatewayInv, NEW a \in Actors, Write(a), [Next]_vars, NEW m \in 1..msgs, Located(m)
  PROVE  Located(m)'
<1>1. /\ act \in [Actors -> Calls] /\ inbox \in [Gens -> Seq(Frames)]
      /\ UNCHANGED <<queue, outbox>> /\ act[a].pc = "write" /\ act[a].gen \in Gens
  BY DEF Write, GatewayInv, TypeOK, GenerationsInOrder
<1>2. CASE SendFails(a, TRUE) /\ UNCHANGED inbox
  BY <1>1, <1>2, SendFailsLocated
<1>3. CASE /\ inbox' = [inbox EXCEPT ![act[a].gen] = Append(@, Frame(act[a]))]
           /\ Goes(a, "mark")
  <2> PICK g \in Gens : g = act[a].gen
    BY <1>1
  <2>1. Frame(act[a]) \in Frames /\ Frame(act[a]).msg = act[a].msg
    BY <1>1 DEF Frame, Frames, Calls, GatewayInv, WorkerHasWritten, CallsWritten
  <2> PICK f \in Frames : f = Frame(act[a])
    BY <2>1
  <2>2. inbox'[g] = Append(inbox[g], f) /\ \A h \in Gens : h # g => inbox'[h] = inbox[h]
    BY <1>1, <1>3, <2>1, PipeAppend
  <2>3. /\ \A i \in DOMAIN inbox[g] : i \in DOMAIN inbox'[g] /\ inbox'[g][i] = inbox[g][i]
        /\ \E i \in DOMAIN inbox'[g] : inbox'[g][i] = f
    <3>1. inbox[g] \in Seq(Frames)
      BY <1>1
    <3> QED
      BY <2>2, <3>1, AppendFacts
  <2>4. \A h \in Gens : (InBox(h, m) => InBox(h, m)') /\ (OutBox(h, m) => OutBox(h, m)')
    BY <1>1, <2>2, <2>3 DEF InBox, OutBox
  <2>5. Hand(a, m) => InBox(g, m)'
    BY <2>1, <2>3 DEF InBox, Hand
  <2>6. \A b \in Actors : Hand(b, m) => Hand(b, m)' \/ InBox(g, m)'
    BY <1>1, <1>3, <2>5, GoesFacts DEF Hand, Others
  <2>7. Queued(m) => Queued(m)'
    BY <1>1 DEF Queued
  <2> QED
    BY <2>4, <2>6, <2>7, EndedStays, StaysLocated
<1> QED
  BY <1>2, <1>3 DEF Write

\* The reader takes a reply: the message of an error is in its hands.
LEMMA ReadLocated ==
  ASSUME GatewayInv, NEW g \in Gens, Read(g), [Next]_vars, NEW m, Located(m)
  PROVE  Located(m)'
<1> DEFINE f == Head(outbox[g])
<1>1. /\ outbox \in [Gens -> Seq(Replies)] /\ outbox[g] # <<>>
      /\ outbox' = [outbox EXCEPT ![g] = Tail(@)]
      /\ UNCHANGED <<queue, inbox>> /\ act \in [Actors -> Calls] /\ act[g] = Rest /\ g \in Actors
  BY GenFacts DEF Read, GatewayInv, TypeOK, routerVars
<1>2. /\ f \in Replies /\ f = outbox[g][1]
      /\ outbox'[g] = Tail(outbox[g]) /\ \A h \in Gens : h # g => outbox'[h] = outbox[h]
  BY <1>1, PipeTail
<1>3. \A i \in DOMAIN outbox[g] :
        i = 1 \/ (i - 1 \in DOMAIN outbox'[g] /\ outbox'[g][i - 1] = outbox[g][i])
  BY <1>1, <1>2, TailFacts
<1>4. Others(g)
  BY <1>1 DEF Read, Others
<1>5. f.kind = "error" /\ f.msg = m => Hand(g, m)'
  <2> SUFFICES ASSUME f.kind = "error", f.msg = m PROVE Hand(g, m)'
    OBVIOUS
  <2>1. act' = [act EXCEPT ![g] = [pc |-> "deliver", op |-> f.kind, msg |-> f.msg,
                                   gen |-> None, chat |-> f.chat]]
    BY DEF Read
  <2>2. act'[g] = [pc |-> "deliver", op |-> f.kind, msg |-> f.msg, gen |-> None, chat |-> f.chat]
    BY <1>1, <2>1
  <2> HIDE DEF f
  <2> QED
    BY <2>2 DEF Hand
<1>6. \A h \in Gens : OutBox(h, m) => OutBox(h, m)' \/ Hand(g, m)'
  <2> TAKE h \in Gens
  <2>1. CASE h # g
    BY <1>2, <2>1 DEF OutBox
  <2>2. CASE h = g
    <3> HIDE DEF f
    <3> QED
      BY <1>2, <1>3, <1>5, <2>2 DEF OutBox
  <2> QED
    BY <2>1, <2>2
<1>7. \A b \in Actors : Hand(b, m) => Hand(b, m)'
  BY <1>1, <1>4, RestFields DEF Hand, Others
<1>8. (Queued(m) => Queued(m)') /\ \A h \in Gens : InBox(h, m) => InBox(h, m)'
  BY <1>1 DEF Queued, InBox
<1> QED
  BY <1>1, <1>6, <1>7, <1>8, EndedStays, StaysLocated

\* The reader delivers: the message of an error is told or lost, the message of
\* a done was written.
LEMMA DeliverLocated ==
  ASSUME GatewayInv, NEW g \in Gens, Deliver(g), [Next]_vars, NEW m \in 1..msgs, Located(m)
  PROVE  Located(m)'
<1>1. /\ act \in [Actors -> Calls] /\ act[g].pc = "deliver" /\ g \in Actors
      /\ UNCHANGED <<queue, inbox, outbox, written>>
  BY GenFacts DEF Deliver, GatewayInv, TypeOK, routerVars, workerVars
<1>2. Others(g)
  BY <1>1 DEF Deliver, Others
<1>3. m # None
  BY DEF None, GatewayInv, TypeOK
<1>4. act[g].op = "error" \/ (act[g].op = "done" /\ act[g].msg \in written)
  BY <1>1 DEF GatewayInv, WorkerHasWritten, CallsWritten
<1>5. Hand(g, m) => Ended(m)'
  BY <1>1, <1>3, <1>4 DEF Deliver, Hand, Ended
<1> QED
  BY <1>1, <1>2, <1>5, ThreadStaysLocated

\* The queue's head is in the hands of the reader that drains.
LEMMA DrainLocated ==
  ASSUME GatewayInv, NEW g \in Gens, Drain(g), [Next]_vars, NEW m, Located(m)
  PROVE  Located(m)'
<1>1. /\ act \in [Actors -> Calls] /\ queue \in Seq(Msgs) /\ UNCHANGED <<inbox, outbox>>
      /\ act[g].pc = "drain" /\ g \in Actors
  BY GenFacts DEF Drain, GatewayInv, TypeOK, workerVars
<1>2. CASE Rests(g) /\ UNCHANGED queue
  BY <1>1, <1>2, RestsFacts, ThreadStaysLocated DEF Hand
<1>3. CASE queue # <<>> /\ queue' = Tail(queue)
           /\ Sends(g, "turn", Head(queue), chatOf[Head(queue)])
  <2>1. /\ Head(queue) \in Msgs /\ Head(queue) = queue[1]
        /\ \A i \in DOMAIN queue : i = 1 \/ (i - 1 \in DOMAIN queue' /\ queue'[i - 1] = queue[i])
    BY <1>1, <1>3, TailFacts
  <2>2. chatOf[Head(queue)] \in Chats
    BY <2>1 DEF GatewayInv, TypeOK
  <2>3. Others(g) /\ act'[g].pc = "ensure" /\ act'[g].msg = queue[1]
    BY <1>1, <1>3, <2>1, <2>2, SendsFacts
  <2>4. Queued(m) => Queued(m)' \/ Hand(g, m)'
    BY <2>1, <2>3 DEF Queued, Hand
  <2>5. \A b \in Actors : Hand(b, m) => Hand(b, m)'
    BY <1>1, <2>3 DEF Hand, Others
  <2>6. \A h \in Gens : (InBox(h, m) => InBox(h, m)') /\ (OutBox(h, m) => OutBox(h, m)')
    BY <1>1 DEF InBox, OutBox
  <2> QED
    BY <1>1, <2>4, <2>5, <2>6, EndedStays, StaysLocated
<1> QED
  BY <1>2, <1>3 DEF Drain, TakeNext, routerVars

\* The worker takes a frame: a turn was written, a steer is absorbed or answered.
LEMMA WorkerReadsLocated ==
  ASSUME GatewayInv, NEW g \in Gens, WorkerReads(g), [Next]_vars, NEW m \in 1..msgs, Located(m)
  PROVE  Located(m)'
<1> DEFINE w == Head(inbox[g])
<1>1. /\ inbox \in [Gens -> Seq(Frames)] /\ outbox \in [Gens -> Seq(Replies)] /\ TypeOK
      /\ inbox[g] # <<>> /\ inbox' = [inbox EXCEPT ![g] = Tail(@)]
      /\ UNCHANGED <<written, act, queue>> /\ m # None
  BY DEF WorkerReads, GatewayInv, TypeOK, routerVars, None
<1>2. /\ w \in Frames /\ w = inbox[g][1] /\ 1 \in DOMAIN inbox[g]
      /\ inbox'[g] = Tail(inbox[g]) /\ \A h \in Gens : h # g => inbox'[h] = inbox[h]
  BY <1>1, PipeTail
<1>3. \A i \in DOMAIN inbox[g] :
        i = 1 \/ (i - 1 \in DOMAIN inbox'[g] /\ inbox'[g][i - 1] = inbox[g][i])
  BY <1>1, <1>2, TailFacts
<1>4. /\ w.op \in {"turn", "steer", "cancel"} /\ w.msg \in Msgs \cup {None}
      /\ w.chat \in Chats \cup {NoChat}
  BY <1>2 DEF Frames
<1>5. (w.op = "turn" => w.msg \in written) /\ (w.op = "cancel" => w.msg = None)
  BY <1>2 DEF GatewayInv, WorkerHasWritten, InboxWritten
<1>6. \A k \in Msgs \cup {None} :
        /\ ErrorFor(w.chat, k) \in Replies
        /\ ErrorFor(w.chat, k).kind = "error" /\ ErrorFor(w.chat, k).msg = k
  BY <1>4 DEF ErrorFor, Replies
<1> HIDE DEF w
<1>7. \/ UNCHANGED outbox
      \/ \E k \in Msgs \cup {None} : Emit(g, ErrorFor(w.chat, k))
  BY <1>4 DEF WorkerReads, GatewayInv, TypeOK, w
<1>8. \A h \in Gens : OutBox(h, m) => OutBox(h, m)'
  <2>1. CASE UNCHANGED outbox
    BY <2>1 DEF OutBox
  <2>2. ASSUME NEW k \in Msgs \cup {None}, Emit(g, ErrorFor(w.chat, k))
        PROVE  \A h \in Gens : OutBox(h, m) => OutBox(h, m)'
    BY <1>1, <1>6, <2>2, EmitKeepsOutBox
  <2> QED
    BY <1>7, <2>1, <2>2
<1>9. w.msg = m => Ended(m)' \/ OutBox(g, m)'
  <2> SUFFICES ASSUME w.msg = m PROVE Ended(m)' \/ OutBox(g, m)'
    OBVIOUS
  <2>1. CASE w.op = "turn"
    BY <1>1, <1>5, <2>1 DEF Ended
  <2>2. CASE w.op = "steer" /\ steered' = steered \cup {w.msg}
    BY <2>2 DEF Ended
  <2>3. CASE w.op = "steer" /\ Emit(g, ErrorFor(w.chat, w.msg))
    BY <1>1, <1>4, <1>6, <2>3, EmitKeepsOutBox
  <2>4. w.op = "steer" => steered' = steered \cup {w.msg} \/ Emit(g, ErrorFor(w.chat, w.msg))
    BY DEF WorkerReads, w
  <2> QED
    BY <1>1, <1>4, <1>5, <2>1, <2>2, <2>3, <2>4
<1>10. \A h \in Gens : InBox(h, m) => InBox(h, m)' \/ OutBox(h, m)' \/ Ended(m)'
  <2> TAKE h \in Gens
  <2>1. CASE h # g
    BY <1>2, <2>1 DEF InBox
  <2>2. CASE h = g
    BY <1>2, <1>3, <1>9, <2>2 DEF InBox
  <2> QED
    BY <2>1, <2>2
<1>11. (Queued(m) => Queued(m)') /\ \A b \in Actors : Hand(b, m) => Hand(b, m)'
  BY <1>1 DEF Queued, Hand
<1> QED
  BY <1>8, <1>10, <1>11, EndedStays, StaysLocated
LEMMA LocatedIsAccountedNext ==
  ASSUME msgs' \in 0..MaxMsgs, \A m \in 1..msgs' : Located(m)'
  PROVE  Accounted'
<1>1. \A m : (\E a \in Actors : Hand(a, m)') => m \in InHand'
  BY DEF InHand, Hand
<1>2. \A m \in Msgs : (\E g \in Gens : InBox(g, m)' \/ OutBox(g, m)') => m \in InPipes'
  BY DEF InPipes, InBox, OutBox, ToSet
<1>3. \A m : Queued(m)' => m \in ToSet(queue')
  BY DEF Queued, ToSet
<1>4. 1..msgs' \subseteq Msgs
  BY GatewayAssumption DEF Msgs
<1> QED
  BY <1>1, <1>2, <1>3, <1>4 DEF Accounted, Located, Ended

LEMMA NextAccounted == GatewayInv /\ [Next]_vars => Accounted'
<1> SUFFICES ASSUME GatewayInv, [Next]_vars, NEW m \in 1..msgs' PROVE Located(m)'
  BY NextType, LocatedIsAccountedNext DEF TypeOK
<1>1. ASSUME NEW plain \in BOOLEAN, Submit(plain) PROVE Located(m)'
  BY <1>1, SubmitLocated
<1> USE GenFacts DEF vars, routerVars, handleVars, workerVars, countVars, historyVars
<1>2. CASE UNCHANGED msgs
  <2>1. m \in 1..msgs /\ Located(m)
    BY <1>2, AccountedIsLocated DEF GatewayInv, TypeOK
  <2>2. act \in [Actors -> Calls] /\ m # None
    BY <2>1 DEF GatewayInv, TypeOK, None
  <2>3. CASE UNCHANGED vars
    BY <2>1, <2>3, GenFacts, ThreadStaysLocated DEF Others, Hand
  <2>4. ASSUME NEW c \in Chats, Stop(c) PROVE Located(m)'
    BY <2>1, <2>4, StopLocated
  <2>5. ASSUME NEW a \in Actors, Ensure(a) PROVE Located(m)'
    <3>1. act[a].pc = "ensure" /\ UNCHANGED <<queue, inbox, outbox>>
      BY <2>5 DEF Ensure
    <3>2. act'[a].pc = "write" /\ act'[a].msg = act[a].msg
      BY <2>5, EnsureFacts
    <3>3. \A b \in Actors : b # a => act'[b] = act[b] \/ act[b] = Rest
      BY <2>5, EnsureFacts DEF Others
    <3>4. \A b \in Actors : Hand(b, m) => Hand(b, m)'
      BY <3>1, <3>2, <3>3, RestFields DEF Hand
    <3>5. (Queued(m) => Queued(m)')
          /\ \A g \in Gens : (InBox(g, m) => InBox(g, m)') /\ (OutBox(g, m) => OutBox(g, m)')
      BY <3>1 DEF Queued, InBox, OutBox
    <3> QED
      BY <2>1, <3>4, <3>5, EndedStays, StaysLocated
  <2>6. ASSUME NEW a \in Actors, NEW lease \in BOOLEAN, SpawnFails(a, lease) PROVE Located(m)'
    BY <2>1, <2>6, SendFailsLocated DEF SpawnFails
  <2>7. ASSUME NEW a \in Actors, Write(a) PROVE Located(m)'
    BY <2>1, <2>7, WriteLocated
  <2>8. ASSUME NEW a \in Actors, Mark(a) PROVE Located(m)'
    BY <2>1, <2>2, <2>8, RestsFacts, ThreadStaysLocated DEF Mark, Hand
  <2>9. ASSUME NEW g \in Gens, Clear(g) \/ MarkDead(g) \/ Death(g) PROVE Located(m)'
    <3>1. /\ Goes(g, "drain") \/ Goes(g, "gone") \/ Goes(g, "death")
          /\ act[g].pc \in {"clear", "death", "rest"} /\ UNCHANGED <<queue, inbox, outbox>>
      BY <2>9, RestFields DEF Clear, MarkDead, Death
    <3> QED
      BY <2>1, <2>2, <3>1, GoesFacts, ThreadStaysLocated DEF Hand
  <2>10. ASSUME NEW g \in Gens, Read(g) \/ Deliver(g) \/ Drain(g) \/ WorkerReads(g)
         PROVE  Located(m)'
    BY <2>1, <2>10, ReadLocated, DeliverLocated, DrainLocated, WorkerReadsLocated
  <2>11. ASSUME NEW g \in Gens, NEW f \in Replies, Emit(g, f), UNCHANGED <<queue, inbox, act>>
         PROVE  Located(m)'
    <3>1. \A h \in Gens : OutBox(h, m) => OutBox(h, m)'
      BY <2>11, EmitKeepsOutBox DEF GatewayInv
    <3>2. /\ Queued(m) => Queued(m)'
          /\ \A h \in Gens : InBox(h, m) => InBox(h, m)'
          /\ \A b \in Actors : Hand(b, m) => Hand(b, m)'
      BY <2>11 DEF Queued, InBox, Hand
    <3> QED
      BY <2>1, <3>1, <3>2, EndedStays, StaysLocated
  <2>12. ASSUME NEW g \in Gens, Heartbeat(g) PROVE Located(m)'
    <3>1. HeartbeatFrame(g) \in Replies
      BY DEF HeartbeatFrame, Replies
    <3> QED
      BY <2>11, <2>12, <3>1 DEF Heartbeat
  <2>13. ASSUME NEW g \in Gens, WorkerDone(g) PROVE Located(m)'
    <3>1. [kind |-> "done", chat |-> chatOf[running[g]], msg |-> running[g]] \in Replies
      BY <2>13 DEF WorkerDone, GatewayInv, TypeOK, Replies
    <3> QED
      BY <2>11, <2>13, <3>1 DEF WorkerDone
  <2>14. ASSUME NEW g \in Gens, WorkerRests(g) PROVE Located(m)'
    BY <2>1, <2>14, GenFacts, ThreadStaysLocated DEF WorkerRests, Others, Hand
  <2>15. ASSUME NEW g \in Gens, Crash(g) PROVE Located(m)'
    <3>1. /\ inbox \in [Gens -> Seq(Frames)] /\ inbox' = [inbox EXCEPT ![g] = <<>>]
          /\ UNCHANGED <<queue, outbox, act>>
          /\ lost' = lost \cup (({slot[g]} \cup {f.msg : f \in ToSet(inbox[g])}) \ {None})
      BY <2>15 DEF Crash, GatewayInv, TypeOK
    <3>2. InBox(g, m) => Ended(m)'
      BY <2>2, <3>1 DEF InBox, Ended, ToSet
    <3>3. \A h \in Gens : h # g /\ InBox(h, m) => InBox(h, m)'
      BY <3>1 DEF InBox
    <3>4. /\ Queued(m) => Queued(m)'
          /\ \A h \in Gens : OutBox(h, m) => OutBox(h, m)'
          /\ \A b \in Actors : Hand(b, m) => Hand(b, m)'
      BY <3>1 DEF Queued, OutBox, Hand
    <3> QED
      BY <2>1, <3>2, <3>3, <3>4, EndedStays, StaysLocated
  <2>17. ASSUME NEW g \in Gens, Exits(g) PROVE Located(m)'
    BY <2>1, <2>17, GenFacts, ThreadStaysLocated DEF Exits, Others, Hand
  <2>18. ASSUME NEW a \in Actors, NEW left \in BOOLEAN, HandshakeFails(a, left)
         PROVE  Located(m)'
    BY <2>1, <2>18, SendFailsLocated DEF HandshakeFails
  <2>16. \/ UNCHANGED vars \/ (\E plain \in BOOLEAN : Submit(plain)) \/ (\E c \in Chats : Stop(c))
         \/ (\E a \in Actors : Ensure(a) \/ Write(a) \/ Mark(a))
         \/ (\E a \in Actors, lease \in BOOLEAN : SpawnFails(a, lease))
         \/ (\E a \in Actors, left \in BOOLEAN : HandshakeFails(a, left))
         \/ (\E g \in Gens : \/ Read(g) \/ Deliver(g) \/ Clear(g) \/ Drain(g) \/ MarkDead(g)
                             \/ Death(g) \/ WorkerReads(g) \/ WorkerDone(g) \/ WorkerRests(g)
                             \/ Heartbeat(g) \/ Crash(g) \/ Exits(g))
    BY DEF Next, Thread, Reader, Turn
  <2> QED
    BY <1>1, <2>3, <2>4, <2>5, <2>6, <2>7, <2>8, <2>9, <2>10, <2>12, <2>13, <2>14, <2>15,
       <2>16, <2>17, <2>18
<1>3. (\E plain \in BOOLEAN : Submit(plain)) \/ UNCHANGED msgs
  BY DEF Next, Thread, Reader, Turn, Stop, Ensure, Write, Mark, SpawnFails, HandshakeFails, Read,
     Deliver, Clear, Drain, MarkDead, Death, WorkerReads, WorkerDone, WorkerRests, Heartbeat, Crash,
     Exits
<1> QED
  BY <1>1, <1>2, <1>3

----------------------------------------------------------------------------
(* The theorems. *)

LEMMA InitInv == Init => GatewayInv
<1> SUFFICES ASSUME Init PROVE GatewayInv
  OBVIOUS
<1>1. TypeOK
  BY InitType
<1>2. GenerationsInOrder /\ WorkIsHeld
  BY GenFacts, RestFields DEF Init, GenerationsInOrder, WorkIsHeld, Work
<1>3. OnePlaceEach
  BY RestFields DEF Init, OnePlaceEach, Carries
<1>4. WorkerHasWritten
  BY RestFields DEF Init, WorkerHasWritten, TurnsWritten, InboxWritten, OutboxWritten, CallsWritten
<1>5. Accounted
  BY DEF Init, Accounted
<1> QED
  BY <1>1, <1>2, <1>3, <1>4, <1>5 DEF GatewayInv

\* GatewayInv holds throughout every behaviour: the order of the generations,
\* the one place of each turn, and what the worker has been given.
THEOREM GatewayInvariant == Spec => []GatewayInv
<1>1. GatewayInv /\ [Next]_vars => GatewayInv'
  BY NextType, NextGenerations, NextHeld, NextOnePlace, NextWritten, NextAccounted DEF GatewayInv
<1> QED
  BY InitInv, <1>1, PTL DEF Spec

\* Every variable of the router, the supervisor and the pipes always has its type.
THEOREM GatewayTyped == Spec => []TypeOK
<1>1. GatewayInv => TypeOK
  BY DEF GatewayInv
<1> QED
  BY <1>1, GatewayInvariant, PTL

\* ensure_worker, called by the bot and by every reader: only the process in
\* the supervisor's table has a turn to run or frames to read, also when a
\* failed handshake has left another process alive.
THEOREM AtMostOneWorker == Spec => []OneWorker
<1>1. GatewayInv => OneWorker
  BY DEF GatewayInv, WorkIsHeld, OneWorker
<1> QED
  BY <1>1, GatewayInvariant, PTL

\* submit_turn, drain_queue, cmd_stop, the supervisor's send, the readers and a
\* crash of the worker: no submitted message vanishes without a trace.
THEOREM MessagesAccounted == Spec => []Accounted
<1>1. GatewayInv => Accounted
  BY DEF GatewayInv
<1> QED
  BY <1>1, GatewayInvariant, PTL

\* A message that was written to a worker as a turn is in no queue and no
\* thread is about to write it: a worker's death replays nothing.
THEOREM NothingReplayed == Spec => []NoReplay
<1>1. GatewayInv => NoReplay
  <2> SUFFICES ASSUME GatewayInv, NEW a \in Actors, NEW m \in written
               PROVE  /\ m \notin ToSet(queue)
                      /\ ~(act[a].op = "turn" /\ act[a].msg = m /\ act[a].pc \in {"ensure", "write"})
    BY DEF NoReplay
  <2>1. m \notin ToSet(queue)
    BY DEF GatewayInv, OnePlaceEach, ToSet
  <2>2. ~(Carries(a) /\ act[a].msg = m)
    BY DEF GatewayInv, OnePlaceEach
  <2> QED
    BY <2>1, <2>2 DEF Carries
<1> QED
  BY <1>1, GatewayInvariant, PTL
=============================================================================
