---------------------------- MODULE OutboxProofs ----------------------------
(***************************************************************************)
(* Proofs about the Telegram outbox: one draft request at a time, no draft *)
(* that reappears below its own message, and prose that is posted once,    *)
(* for every size of message, number of turns, texts, extras and faults.   *)
(***************************************************************************)
EXTENDS Outbox, FiniteSetTheorems, TLAPS

-----------------------------------------------------------------------------
(* Prose *)

LEMMA ChunksOf ==
  /\ Chunks(<<>>) = {}
  /\ \A S : \A s \in Seq(S) : Chunks(s) \subseteq S
BY DEF Chunks

LEMMA ChunksAppend ==
  ASSUME NEW S, NEW s \in Seq(S), NEW c \in S
  PROVE  Append(s, c) \in Seq(S) /\ Chunks(Append(s, c)) = Chunks(s) \cup {c}
<1>1. Append(s, c) \in Seq(S) /\ Len(Append(s, c)) = Len(s) + 1
  OBVIOUS
<1>2. \A i \in 1 .. Len(s) : Append(s, c)[i] = s[i]
  OBVIOUS
<1>3. Append(s, c)[Len(s) + 1] = c
  OBVIOUS
<1>4. Chunks(Append(s, c)) \subseteq Chunks(s) \cup {c}
  BY <1>1, <1>2, <1>3 DEF Chunks
<1>5. Chunks(s) \cup {c} \subseteq Chunks(Append(s, c))
  BY <1>1, <1>2, <1>3 DEF Chunks
<1>6. QED
  BY <1>1, <1>4, <1>5

(* Trimming keeps the last chunk and adds none. *)
LEMMA TrimKeeps ==
  ASSUME NEW S, NEW s \in Seq(S), NEW c \in S, NEW e, e = Trim(Append(s, c))
  PROVE  /\ e \in Seq(S) /\ Len(e) <= BufMax
         /\ c \in Chunks(e) /\ Chunks(e) \subseteq Chunks(s) \cup {c}
<1> DEFINE a == Append(s, c)
           k == Len(a) - BufMax
<1>0. BufMax \in Nat \ {0}
  BY OutboxAssumption
<1>1. a \in Seq(S) /\ Chunks(a) = Chunks(s) \cup {c} /\ Len(a) = Len(s) + 1
      /\ a[Len(a)] = c /\ Len(a) \in Nat \ {0}
  BY ChunksAppend
<1>a. e = Trim(a)
  OBVIOUS
<1> HIDE DEF a
<1>2. CASE Len(a) <= BufMax
  <2>1. e = a
    BY <1>0, <1>1, <1>a, <1>2 DEF Trim
  <2>2. QED
    BY <1>1, <1>2, <2>1
<1>3. CASE Len(a) > BufMax
  <2>a. e = SubSeq(a, k + 1, Len(a))
    BY <1>a, <1>3 DEF Trim
  <2>b. k \in Nat /\ k + BufMax = Len(a)
    BY <1>0, <1>1, <1>3
  <2>1. e = SubSeq(a, k + 1, Len(a)) /\ k \in Nat /\ k + BufMax = Len(a)
    BY <2>a, <2>b
  <2> HIDE DEF k
  <2>2. e \in Seq(S) /\ Len(e) = BufMax
    BY <1>0, <1>1, <2>1
  <2>3. \A i \in 1 .. BufMax : e[i] = a[k + i] /\ k + i \in 1 .. Len(a)
    BY <1>0, <1>1, <2>1
  <2>4. Chunks(e) \subseteq Chunks(a)
    BY <1>1, <2>2, <2>3 DEF Chunks
  <2>5. e[BufMax] = c
    BY <1>0, <1>1, <2>1, <2>3
  <2>6. c \in Chunks(e)
    BY <1>0, <2>2, <2>5 DEF Chunks
  <2>7. QED
    BY <1>0, <1>1, <2>2, <2>4, <2>6
<1>4. QED
  BY <1>0, <1>1, <1>2, <1>3

(* A number is always free. *)
LEMMA UnusedIsFree ==
  ASSUME TypeOK
  PROVE  /\ Unused \in Nat /\ Unused \notin chat.bubbles
         /\ \A t \in tasks : Unused # t.n /\ Unused # t.gen
<1> DEFINE ns == {t.n : t \in tasks}
           gs == {t.gen : t \in tasks}
           used == ns \cup gs \cup chat.bubbles
<1>1. IsFiniteSet(ns) /\ IsFiniteSet(gs) /\ IsFiniteSet(chat.bubbles)
  <2>1. [t \in tasks |-> t.n] \in Surjection(tasks, ns)
    BY DEF Surjection
  <2>2. [t \in tasks |-> t.gen] \in Surjection(tasks, gs)
    BY DEF Surjection
  <2> HIDE DEF ns, gs
  <2>3. QED
    BY <2>1, <2>2, FS_Surjection DEF TypeOK
<1>2. IsFiniteSet(used)
  <2>1. IsFiniteSet(ns \cup gs)
    BY <1>1, FS_Union
  <2>2. QED
    BY <1>1, <2>1, FS_Union
<1> HIDE DEF used
<1>3. Cardinality(used) \in Nat
  BY <1>2, FS_CardinalityType
<1>4. \E i \in 1 .. Cardinality(used) + 1 : i \notin used
  <2> SUFFICES ASSUME 1 .. Cardinality(used) + 1 \subseteq used PROVE FALSE
    OBVIOUS
  <2>1. Cardinality(1 .. Cardinality(used) + 1) = Cardinality(used) + 1
    BY <1>3, FS_Interval
  <2>2. Cardinality(1 .. Cardinality(used) + 1) <= Cardinality(used)
    BY <1>2, FS_Subset
  <2>3. QED
    BY <1>3, <2>1, <2>2
<1>5. Unused = CHOOSE i \in 1 .. Cardinality(used) + 1 : i \notin used
  BY DEF Unused, used
<1>6. Unused \in 1 .. Cardinality(used) + 1 /\ Unused \notin used
  BY <1>4, <1>5
<1>7. QED
  BY <1>3, <1>6 DEF used
-----------------------------------------------------------------------------
(* The draft and its request *)

Steps == {"create", "edit", "wait", "woken", "prose", "post", "tidy"}

(* A request that starts or is put off changes nothing else about the draft. *)
SameDraft ==
  /\ draft'.alive = draft.alive /\ draft'.gen = draft.gen /\ draft'.buf = draft.buf
  /\ \A f \in flights' : f \in flights \/ (draft.alive /\ f.gen = draft.gen)

LEMMA RequestTyped ==
  ASSUME TypeOK, FlightInv, draft.alive
  PROVE  Request(draft) \in Flight /\ Len(Request(draft).buf) <= BufMax
         /\ Request(draft).gen = draft.gen
BY DEF Request, TypeOK, Draft, Flight, FlightInv

LEMMA KeepAliveKeeps ==
  ASSUME TypeOK, FlightInv, KeepAlive(draft), UNCHANGED texts
  PROVE  /\ draft' \in Draft /\ Len(draft'.buf) <= BufMax
         /\ flights' \subseteq Flight /\ \A f \in flights' : Len(f.buf) <= BufMax
         /\ FlightInv' /\ SameDraft
<1>0. draft \in Draft
  BY DEF TypeOK
<1>1. CASE ~draft.alive
  <2>1. UNCHANGED <<draft, flights>>
    BY <1>1 DEF KeepAlive
  <2>2. QED
    BY <2>1 DEF TypeOK, FlightInv, SameDraft
<1>2. CASE draft.alive /\ ~draft.inflight
  <2>1. draft' = [draft EXCEPT !.inflight = TRUE] /\ flights' = flights \cup {Request(draft)}
    BY <1>2 DEF KeepAlive, MayStart
  <2>2. flights = {}
    BY <1>2 DEF FlightInv
  <2>3. draft' \in Draft /\ draft'.alive = draft.alive /\ draft'.gen = draft.gen
        /\ draft'.buf = draft.buf /\ draft'.inflight /\ draft'.pending = draft.pending
    BY <1>0, <2>1 DEF Draft
  <2>4. QED
    BY <1>2, <2>1, <2>2, <2>3, RequestTyped DEF TypeOK, FlightInv, SameDraft
<1>3. CASE draft.alive /\ draft.inflight
  <2>1. draft' = [draft EXCEPT !.pending = TRUE] /\ UNCHANGED flights
    BY <1>3 DEF KeepAlive, MayStart
  <2>2. draft' \in Draft /\ draft'.alive = draft.alive /\ draft'.gen = draft.gen
        /\ draft'.buf = draft.buf /\ draft'.inflight = draft.inflight
    BY <1>0, <2>1 DEF Draft
  <2>3. QED
    BY <1>3, <2>1, <2>2 DEF TypeOK, FlightInv, SameDraft
<1>4. QED
  BY <1>0, <1>1, <1>2, <1>3 DEF Draft

LEMMA FlushEndsKeeps ==
  ASSUME TypeOK, FlightInv, NEW f \in flights, NEW ok \in BOOLEAN, FlushEnds(f, ok)
  PROVE  /\ draft' \in Draft /\ Len(draft'.buf) <= BufMax
         /\ flights' \subseteq Flight /\ \A g \in flights' : Len(g.buf) <= BufMax
         /\ FlightInv' /\ SameDraft
         /\ tasks' = tasks \/ (tasks' = Woken /\ flights' = {})
<1> DEFINE d == IF ok THEN [draft EXCEPT !.sent = Len(f.buf), !.fresh = FALSE] ELSE draft
<1>0. draft \in Draft /\ flights = {f}
  BY DEF TypeOK, FlightInv
<1>1. d \in Draft /\ d.alive = draft.alive /\ d.gen = draft.gen /\ d.buf = draft.buf
      /\ d.pending = draft.pending /\ d.inflight = draft.inflight
  <2>1. Len(f.buf) \in 0 .. BufMax
    BY OutboxAssumption DEF TypeOK, Flight, Prose
  <2>2. QED
    BY <1>0, <2>1 DEF Draft
<1>2. CASE Trails(d)
  <2>1. draft' = [d EXCEPT !.pending = FALSE] /\ flights' = (flights \ {f}) \cup {Request(d)}
        /\ UNCHANGED tasks /\ draft.alive /\ draft.pending
    BY <1>1, <1>2 DEF FlushEnds, Trails
  <2>2. Request(d) = Request(draft)
    BY <1>1 DEF Request
  <2> HIDE DEF d
  <2>3. draft' \in Draft /\ draft'.alive = draft.alive /\ draft'.gen = draft.gen
        /\ draft'.buf = draft.buf /\ draft'.inflight = draft.inflight /\ ~draft'.pending
    BY <1>1, <2>1 DEF Draft
  <2>4. flights' = {Request(draft)} /\ texts' = texts
    BY <1>0, <2>1, <2>2 DEF FlushEnds
  <2>5. QED
    BY <2>1, <2>3, <2>4, RequestTyped DEF TypeOK, FlightInv, SameDraft
<1>3. CASE ~Trails(d)
  <2>1. draft' = [d EXCEPT !.inflight = FALSE] /\ flights' = flights \ {f} /\ tasks' = Woken
        /\ ~(draft.alive /\ draft.pending) /\ texts' = texts
    BY <1>1, <1>3 DEF FlushEnds, Trails, Wakes
  <2> HIDE DEF d
  <2>2. draft' \in Draft /\ draft'.alive = draft.alive /\ draft'.gen = draft.gen
        /\ draft'.buf = draft.buf /\ ~draft'.inflight /\ draft'.pending = draft.pending
    BY <1>1, <2>1 DEF Draft
  <2>3. flights' = {}
    BY <1>0, <2>1
  <2>4. QED
    BY <2>1, <2>2, <2>3 DEF TypeOK, FlightInv, SameDraft
<1>4. QED
  BY <1>2, <1>3

(* Deliveries and prose while the draft stays the same and tasks at most end *)
LEMMA SameDraftKeeps ==
  ASSUME OutboxInv, SameDraft, FlightInv', tasks' \subseteq tasks,
         \A t \in tasks : t.pc \in Delivering => t \in tasks',
         UNCHANGED <<dropped, again, texts>>, chat'.prose = chat.prose
  PROVE  DeliveryInv' /\ ProseInv' /\ ProseOnce'
<1> USE DEF OutboxInv
<1>1. DeliveryInv'
  BY DEF DeliveryInv, SameDraft
<1>2. \A t \in tasks : \A c : Holds(t, c) => t \in tasks'
  BY ChunksOf DEF ProseInv, Holds
<1>3. ProseInv'
  BY <1>2 DEF ProseInv, SameDraft, Holds
<1>4. ProseOnce'
  BY <1>2 DEF ProseOnce, SameDraft, Holds
<1>5. QED
  BY <1>1, <1>3, <1>4
(* The waiting deliveries wake up when no request is left. *)
LEMMA WokenKeeps ==
  ASSUME OutboxInv, SameDraft, tasks' = Woken, flights' = {},
         UNCHANGED <<bubble, chat, dropped, again, texts>>
  PROVE  /\ tasks' \subseteq Task /\ IsFiniteSet(tasks')
         /\ DeliveryInv' /\ NumbersInv' /\ ProseInv' /\ ProseOnce'
<1> USE DEF OutboxInv
<1> DEFINE w(t) == [t EXCEPT !.pc = IF t.pc = "wait" THEN "woken" ELSE @]
<1>1. tasks' = {w(t) : t \in tasks}
  BY DEF Woken
<1>2. ASSUME NEW t \in tasks
      PROVE  /\ w(t) \in Task /\ w(t).n = t.n /\ w(t).kind = t.kind /\ w(t).gen = t.gen
             /\ w(t).buf = t.buf
             /\ w(t).pc = IF t.pc = "wait" THEN "woken" ELSE t.pc
  BY DEF TypeOK, Task
<1>3. IsFiniteSet(tasks')
  <2>1. [t \in tasks |-> w(t)] \in Surjection(tasks, tasks')
    BY <1>1 DEF Surjection
  <2>2. QED
    BY <2>1, FS_Surjection DEF TypeOK
<1> HIDE DEF w
<1>4. ASSUME NEW u \in tasks'
      PROVE  \E t \in tasks : /\ u = w(t) /\ u \in Task /\ u.n = t.n /\ u.kind = t.kind
                              /\ u.gen = t.gen /\ u.buf = t.buf
                              /\ u.pc = IF t.pc = "wait" THEN "woken" ELSE t.pc
  BY <1>1, <1>2
<1>5. DeliveryInv'
  BY <1>4 DEF DeliveryInv, SameDraft, Delivering
<1>6. NumbersInv'
  BY <1>4 DEF NumbersInv
<1>7. \A c : (\E t \in tasks : Holds(t, c)) => \E u \in tasks' : Holds(u, c)
  BY <1>1, <1>2 DEF Holds
<1>8. ProseInv'
  <2>1. ASSUME NEW u \in tasks', u.pc \notin Delivering \/ u.kind = "notice"
        PROVE  u.buf = <<>>
    BY <1>4, <2>1 DEF ProseInv, Delivering
  <2>2. ASSUME NEW c \in 1 .. MaxTexts, c > texts
        PROVE  chat.prose[c] = 0 /\ c \notin Chunks(draft.buf) /\ \A u \in tasks' : ~Holds(u, c)
    BY <1>4, <2>2 DEF ProseInv, Holds
  <2>3. ASSUME NEW c \in 1 .. MaxTexts, ~draft.alive, c \in Chunks(draft.buf)
        PROVE  c \in dropped \/ chat.prose[c] > 0 \/ \E u \in tasks' : Holds(u, c)
    BY <1>7, <2>3 DEF ProseInv
  <2>4. ASSUME NEW c \in 1 .. MaxTexts, c \notin again, NEW u \in tasks', Holds(u, c)
        PROVE  /\ chat.prose[c] = 0
               /\ \A v \in tasks' : Holds(v, c) => u = v
               /\ c \in Chunks(draft.buf) =>
                    ~draft.alive /\ u.gen = draft.gen /\ u.pc \in {"wait", "woken"}
    BY <1>4, <2>4 DEF ProseInv, Holds
  <2>5. \A c \in 1 .. MaxTexts : c \notin again =>
          chat.prose[c] <= 1 /\ (c \in Chunks(draft.buf) => chat.prose[c] = 0)
    BY DEF ProseInv
  <2>6. QED
    BY <2>1, <2>2, <2>3, <2>4, <2>5 DEF ProseInv, SameDraft
<1>9. ProseOnce'
  BY <1>7 DEF ProseOnce, SameDraft, Holds
<1>10. tasks' \subseteq Task
  BY <1>4
<1>11. QED
  BY <1>3, <1>5, <1>6, <1>8, <1>9, <1>10

-----------------------------------------------------------------------------
(* The bubble *)

LEMMA UpsertAdds ==
  ASSUME TypeOK, NEW p, NEW kind \in {"tool", "ack", "status"}, Upsert(p, tasks, kind)
  PROVE  \/ tasks' = tasks
         \/ \E u \in Task : /\ tasks' = tasks \cup {u} /\ u.buf = <<>>
                            /\ u.pc \in {"create", "edit"}
                            /\ u.n \notin chat.bubbles
                            /\ \A t \in tasks : u.n # t.n /\ u.n # t.gen
<1> DEFINE u == [n |-> Unused, kind |-> kind, gen |-> 0, buf |-> <<>>,
                 pc |-> IF bubble = None THEN "create" ELSE "edit"]
<1>1. u \in Task /\ u.buf = <<>> /\ u.pc \in {"create", "edit"} /\ u.n = Unused
  BY UnusedIsFree DEF Task, Prose
<1>2. tasks' = tasks \/ tasks' = tasks \cup {u}
  BY DEF Upsert
<1> HIDE DEF u
<1>3. QED
  BY <1>1, <1>2, UnusedIsFree

LEMMA UpsertKeeps ==
  ASSUME OutboxInv, NEW p, NEW kind \in {"tool", "ack", "status"}, Upsert(p, tasks, kind),
         UNCHANGED <<draft, flights, bubble, chat, dropped, again, texts>>
  PROVE  OutboxInv'
<1> USE DEF OutboxInv
<1>0. FlightInv'
  BY DEF FlightInv
<1>1. CASE tasks' = tasks
  BY <1>1 DEF TypeOK, FlightInv, DeliveryInv, NumbersInv, ProseInv, ProseOnce
<1>2. ASSUME NEW u \in Task, tasks' = tasks \cup {u}, u.buf = <<>>, u.pc \in {"create", "edit"},
             u.n \notin chat.bubbles, \A t \in tasks : u.n # t.n /\ u.n # t.gen
      PROVE  OutboxInv'
  <2>1. \A c : ~Holds(u, c)
    BY <1>2, ChunksOf DEF Holds
  <2>2. TypeOK'
    BY <1>2, FS_AddElement DEF TypeOK
  <2>3. DeliveryInv' /\ NumbersInv'
    BY <1>2 DEF DeliveryInv, NumbersInv, Delivering
  <2>4. ProseInv'
    BY <1>2, <2>1 DEF ProseInv
  <2>5. ProseOnce'
    BY <1>2 DEF ProseOnce
  <2>6. QED
    BY <1>0, <2>2, <2>3, <2>4, <2>5
<1>3. QED
  BY <1>1, <1>2, UpsertAdds

LEMMA BubbleEndsKeeps ==
  ASSUME OutboxInv, NEW t \in tasks, NEW ok \in BOOLEAN, NEW served \in BOOLEAN,
         BubbleEnds(t, ok, served)
  PROVE  OutboxInv'
<1> USE DEF OutboxInv
<1>1. /\ t.pc \in {"create", "edit"} /\ (ok => served) /\ tasks' = tasks \ {t}
      /\ chat' = IF t.pc = "create" /\ served
                   THEN [chat EXCEPT !.bubbles = @ \cup {t.n}] ELSE chat
      /\ bubble' = IF t.pc = "create" /\ ok THEN t.n ELSE bubble
      /\ UNCHANGED <<dropped, again, texts>>
      /\ KeepAlive(draft) \/ UNCHANGED <<draft, flights>>
  BY DEF BubbleEnds
<1>2. /\ draft' \in Draft /\ Len(draft'.buf) <= BufMax
      /\ flights' \subseteq Flight /\ \A g \in flights' : Len(g.buf) <= BufMax
      /\ FlightInv' /\ SameDraft
  <2>1. CASE KeepAlive(draft)
    BY <1>1, <2>1, KeepAliveKeeps
  <2>2. CASE UNCHANGED <<draft, flights>>
    BY <1>1, <2>2 DEF TypeOK, FlightInv, SameDraft
  <2>3. QED
    BY <1>1, <2>1, <2>2
<1>3. chat'.prose = chat.prose
      /\ chat' \in [prose : [1 .. MaxTexts -> Nat], bubbles : SUBSET Nat]
      /\ chat'.bubbles = IF t.pc = "create" /\ served THEN chat.bubbles \cup {t.n} ELSE chat.bubbles
  BY <1>1 DEF TypeOK, Task
<1>4. IsFiniteSet(chat'.bubbles) /\ IsFiniteSet(tasks')
  BY <1>1, <1>3, FS_AddElement, FS_RemoveElement DEF TypeOK
<1>5. NumbersInv'
  <2>1. \A u \in tasks' : u \in tasks /\ u.n # t.n
    BY <1>1 DEF NumbersInv
  <2>2. QED
    BY <1>1, <1>3, <2>1 DEF NumbersInv
<1>6. TypeOK'
  BY <1>1, <1>2, <1>3, <1>4 DEF TypeOK
<1>7. DeliveryInv' /\ ProseInv' /\ ProseOnce'
  <2>1. tasks' \subseteq tasks /\ \A u \in tasks : u.pc \in Delivering => u \in tasks'
    BY <1>1 DEF Delivering
  <2>2. QED
    BY <1>1, <1>2, <1>3, <2>1, SameDraftKeeps
<1>8. QED
  BY <1>2, <1>5, <1>6, <1>7
-----------------------------------------------------------------------------
(* A chunk of prose *)

LEMMA TextKeeps ==
  ASSUME OutboxInv, Text
  PROVE  OutboxInv'
<1> USE DEF OutboxInv
<1> DEFINE c == texts + 1
           d == IF draft.alive THEN draft ELSE NextDraft(draft)
           b == Trim(Append(d.buf, c))
           e == [d EXCEPT !.buf = b]
<1>0. MaxTexts \in Nat /\ texts \in Nat
  BY OutboxAssumption DEF TypeOK
<1>1. c \in 1 .. MaxTexts /\ texts \in Nat /\ texts' = c
      /\ UNCHANGED <<tasks, bubble, chat, again>>
  <2>1. texts < MaxTexts /\ texts' = texts + 1 /\ UNCHANGED <<tasks, bubble, chat, again>>
    BY DEF Text
  <2>2. QED
    BY <1>0, <2>1
<1>2. d \in Draft /\ d.alive /\ d.gen > 0 /\ d.gen <= c /\ d.inflight = draft.inflight
      /\ (d.pending => draft.inflight)
  <2>1. CASE draft.alive
    BY <1>1, <2>1 DEF TypeOK, FlightInv, Draft
  <2>2. CASE ~draft.alive
    <3>1. d = [draft EXCEPT !.alive = TRUE, !.gen = @ + 1, !.buf = <<>>, !.sent = 0,
                            !.pending = FALSE, !.fresh = TRUE]
      BY <2>2 DEF NextDraft
    <3>2. draft \in Draft /\ draft.gen \in 0 .. texts
      BY DEF TypeOK, Draft, FlightInv
    <3>3. draft.gen + 1 \in 0 .. MaxTexts /\ draft.gen + 1 <= c /\ draft.gen + 1 > 0
      BY <1>0, <1>1, <3>2
    <3>4. 0 \in 0 .. BufMax /\ <<>> \in Prose
      BY OutboxAssumption DEF Prose
    <3> HIDE DEF d
    <3>5. QED
      BY <3>1, <3>2, <3>3, <3>4 DEF Draft
  <2>3. QED
    BY <2>1, <2>2 DEF TypeOK, Draft
<1>3. /\ draft.alive => d = draft
      /\ ~draft.alive => d.buf = <<>> /\ d.gen = draft.gen + 1
  BY DEF NextDraft, TypeOK, Draft
<1> HIDE DEF d
<1>4. d.buf \in Prose
  BY <1>2 DEF Draft
<1>5. b \in Prose /\ Len(b) <= BufMax /\ c \in Chunks(b) /\ Chunks(b) \subseteq Chunks(d.buf) \cup {c}
  <2> DEFINE S == 1 .. MaxTexts
  <2>1. d.buf \in Seq(S) /\ c \in S /\ Prose = Seq(S)
    BY <1>1, <1>4 DEF Prose
  <2> HIDE DEF S, c
  <2>2. b \in Seq(S) /\ Len(b) <= BufMax /\ c \in Chunks(b)
        /\ Chunks(b) \subseteq Chunks(d.buf) \cup {c}
    BY <2>1, TrimKeeps
  <2> HIDE DEF b
  <2>3. QED
    BY <2>1, <2>2
<1> HIDE DEF b
<1>6. e \in Draft /\ e.alive /\ e.gen = d.gen /\ e.buf = b /\ e.inflight = draft.inflight
      /\ e.pending = d.pending
  BY <1>2, <1>5 DEF Draft
<1>7. dropped' = dropped \cup (Chunks(d.buf) \ Chunks(b))
  BY <1>6 DEF Text, d, b
<1>8. /\ draft' \in Draft /\ draft'.alive /\ draft'.gen = d.gen /\ draft'.buf = b
      /\ flights' \subseteq Flight /\ \A f \in flights' : Len(f.buf) <= BufMax
      /\ \A f \in flights' : f \in flights \/ f.gen = d.gen
      /\ FlightInv'
  <2> HIDE DEF e
  <2>1. CASE draft.inflight
    <3>1. draft' = [e EXCEPT !.pending = TRUE] /\ UNCHANGED flights
      BY <1>6, <2>1 DEF Text, MayStart, e, d, b
    <3>2. draft' \in Draft /\ draft'.alive /\ draft'.gen = d.gen /\ draft'.buf = b
          /\ draft'.inflight = draft.inflight
      BY <1>6, <3>1 DEF Draft
    <3>3. QED
      BY <1>1, <1>2, <2>1, <3>1, <3>2 DEF TypeOK, FlightInv
  <2>2. CASE ~draft.inflight
    <3>1. PICK flush \in BOOLEAN :
            /\ draft' = [e EXCEPT !.inflight = flush]
            /\ flights' = IF flush THEN flights \cup {Request(e)} ELSE flights
      BY <1>6, <2>2 DEF Text, MayStart, FlushChoices, e, d, b
    <3>2. draft' \in Draft /\ draft'.alive /\ draft'.gen = d.gen /\ draft'.buf = b
          /\ draft'.inflight = flush /\ draft'.pending = d.pending
      BY <1>6, <3>1 DEF Draft
    <3>3. flights = {} /\ ~d.pending
      BY <1>2, <2>2 DEF FlightInv
    <3>4. Request(e) \in Flight /\ Request(e).gen = d.gen /\ Len(Request(e).buf) <= BufMax
      BY <1>2, <1>5, <1>6 DEF Request, Flight, Draft
    <3>5. QED
      BY <1>1, <1>2, <3>1, <3>2, <3>3, <3>4 DEF FlightInv
  <2>3. QED
    BY <2>1, <2>2 DEF TypeOK, Draft
<1> HIDE DEF e, c
<1>9. TypeOK'
  <2>1. Chunks(d.buf) \subseteq 1 .. MaxTexts
    BY <1>4, ChunksOf DEF Prose
  <2>2. dropped' \cup again' \subseteq 1 .. MaxTexts
    BY <1>1, <1>7, <2>1 DEF TypeOK
  <2>3. texts' \in 0 .. MaxTexts
    BY <1>1
  <2>4. QED
    BY <1>1, <1>5, <1>8, <2>2, <2>3 DEF TypeOK
<1>10. \A t \in tasks : t.gen \in Nat
  BY DEF TypeOK, Task
<1>11. draft.gen \in Nat /\ d.gen \in Nat
  BY <1>2 DEF TypeOK, Draft
<1>12. DeliveryInv'
  <2>1. ASSUME NEW t \in tasks, t.pc \in Delivering PROVE t.gen < d.gen
    BY <1>3, <1>10, <1>11, <2>1 DEF DeliveryInv
  <2>2. QED
    BY <1>1, <1>8, <1>10, <1>11, <2>1 DEF DeliveryInv
<1>13. NumbersInv'
  BY <1>1 DEF NumbersInv
<1>14. \A x : x \in Chunks(b) => x = c \/ (draft.alive /\ x \in Chunks(draft.buf))
  BY <1>3, <1>5, ChunksOf
<1>15. \A x \in 1 .. texts : x \in Chunks(draft.buf) =>
         \/ x \in Chunks(b) \cup dropped'
         \/ chat.prose[x] > 0
         \/ \E t \in tasks : Holds(t, x)
  <2> SUFFICES ASSUME NEW x \in 1 .. texts, x \in Chunks(draft.buf),
                      ~(x \in Chunks(b) \cup dropped')
               PROVE  chat.prose[x] > 0 \/ \E t \in tasks : Holds(t, x)
    OBVIOUS
  <2>1. x \in 1 .. MaxTexts
    BY <1>0 DEF TypeOK
  <2>2. ~draft.alive /\ x \notin dropped
    BY <1>3, <1>7
  <2>3. QED
    BY <2>1, <2>2 DEF ProseInv
<1>16. ProseOnce'
  <2>1. ASSUME NEW x \in 1 .. c
        PROVE  /\ x \in Chunks(b) \cup dropped' \/ chat.prose[x] > 0
                    \/ \E t \in tasks : Holds(t, x)
               /\ chat.prose[x] > 1 => x \in again
    <3>1. CASE x = c
      BY <1>1, <1>5, <3>1 DEF c, ProseInv
    <3>2. CASE x # c
      <4>1. x \in 1 .. texts
        BY <1>1, <3>2 DEF c
      <4>2. QED
        BY <1>7, <1>15, <4>1 DEF ProseOnce, Holds
    <3>3. QED
      BY <3>1, <3>2
  <2>2. QED
    BY <1>1, <1>8, <2>1 DEF ProseOnce, Holds
<1>17. ProseInv'
  <2>1. c \notin Chunks(draft.buf) /\ chat.prose[c] = 0 /\ \A t \in tasks : ~Holds(t, c)
    BY <1>1 DEF ProseInv, c
  <2>2. ASSUME NEW x \in 1 .. MaxTexts, x > c
        PROVE  chat.prose[x] = 0 /\ x \notin Chunks(b) /\ \A t \in tasks : ~Holds(t, x)
    <3>1. x > texts /\ x # c
      BY <1>1, <2>2 DEF c
    <3>2. QED
      BY <1>14, <3>1 DEF ProseInv
  <2>3. ASSUME NEW x \in 1 .. MaxTexts, x \notin again, x \in Chunks(b)
        PROVE  chat.prose[x] = 0 /\ \A t \in tasks : ~Holds(t, x)
    BY <1>14, <2>1, <2>3 DEF ProseInv
  <2>4. QED
    BY <1>1, <1>8, <2>2, <2>3 DEF ProseInv
<1>18. QED
  BY <1>8, <1>9, <1>12, <1>13, <1>16, <1>17
-----------------------------------------------------------------------------
(* Deliveries *)

(* What becomes of a delivery when the draft is out of its way *)
Succeeds(v, t) ==
  /\ v.n = t.n /\ v.kind = t.kind /\ v.buf = t.buf
  /\ \/ v.pc = "prose" /\ v.gen = t.gen /\ v.kind # "notice"
     \/ v.pc \in {"post", "tidy"} /\ v.buf = <<>>

LEMMA ContinueMoves ==
  ASSUME NEW others, NEW t \in Task, Continue(others, t), bubble \in Nat \cup {None},
         t.kind = "notice" => t.buf = <<>>
  PROVE  \/ /\ tasks' = others /\ t.buf = <<>> /\ bubble' = None
         \/ \E v \in Task : /\ tasks' = others \cup {v} /\ Succeeds(v, t)
                            /\ \/ v.pc # "tidy" /\ bubble' = bubble
                               \/ /\ v.pc = "tidy" /\ v.gen = bubble
                                  /\ bubble # None /\ bubble' = None
<1>1. CASE t.kind # "notice" /\ t.buf # <<>>
  <2> DEFINE v == [t EXCEPT !.pc = "prose"]
  <2>1. tasks' = others \cup {v} /\ bubble' = bubble
    BY <1>1 DEF Continue
  <2>2. v \in Task /\ v.n = t.n /\ v.kind = t.kind /\ v.buf = t.buf /\ v.pc = "prose"
        /\ v.gen = t.gen
    BY DEF Task
  <2> HIDE DEF v
  <2>3. QED
    BY <1>1, <2>1, <2>2 DEF Succeeds
<1>2. CASE ~(t.kind # "notice" /\ t.buf # <<>>) /\ t.kind = "done"
  <2>1. t.buf = <<>> /\ bubble' = None
    BY <1>2 DEF Continue, Cleanup
  <2>2. CASE bubble = None
    BY <1>2, <2>1, <2>2 DEF Continue, Cleanup
  <2>3. CASE bubble # None
    <3> DEFINE v == [t EXCEPT !.pc = "tidy", !.gen = bubble]
    <3>1. tasks' = others \cup {v}
      BY <1>2, <2>3 DEF Continue, Cleanup
    <3>2. v \in Task /\ v.n = t.n /\ v.kind = t.kind /\ v.buf = t.buf /\ v.pc = "tidy"
          /\ v.gen = bubble
      BY <2>3 DEF Task
    <3> HIDE DEF v
    <3>3. QED
      BY <2>1, <2>3, <3>1, <3>2 DEF Succeeds
  <2>4. QED
    BY <2>2, <2>3
<1>3. CASE ~(t.kind # "notice" /\ t.buf # <<>>) /\ t.kind # "done"
  <2> DEFINE v == [t EXCEPT !.pc = "post"]
  <2>1. tasks' = others \cup {v} /\ bubble' = bubble
    BY <1>3 DEF Continue
  <2>2. v \in Task /\ v.n = t.n /\ v.kind = t.kind /\ v.buf = t.buf /\ v.pc = "post"
    BY DEF Task
  <2> HIDE DEF v
  <2>3. QED
    BY <1>3, <2>1, <2>2 DEF Succeeds
<1>4. QED
  BY <1>1, <1>2, <1>3

(* A delivery goes on under its number, in the place of the task it was. *)
LEMMA HandOver ==
  ASSUME OutboxInv, NEW others, others \subseteq tasks, NEW t \in Task, Continue(others, t),
         \A v \in others : v.n # t.n, t.kind = "notice" => t.buf = <<>>,
         chat'.bubbles = chat.bubbles
  PROVE  /\ tasks' \subseteq Task /\ IsFiniteSet(tasks') /\ others \subseteq tasks'
         /\ bubble' \in chat.bubbles \cup {None} /\ NumbersInv'
         /\ \A v \in tasks' : v \in others \/ Succeeds(v, t)
         /\ \A v, w \in tasks' : v \notin others /\ w \notin others => v = w
         /\ t.buf # <<>> => \E v \in tasks' : v.buf = t.buf
<1> USE DEF OutboxInv
<1>1. IsFiniteSet(others) /\ others \subseteq Task
  BY FS_Subset DEF TypeOK
<1>2. bubble \in Nat \cup {None}
  BY DEF TypeOK
<1>3. CASE tasks' = others /\ t.buf = <<>> /\ bubble' = None
  <2>1. NumbersInv'
    <3>1. \A u \in tasks' : u.pc = "tidy" => u.gen # bubble'
      BY <1>3, <1>1, OutboxAssumption DEF Task
    <3>2. QED
      BY <1>3, <3>1 DEF NumbersInv
  <2>2. QED
    BY <1>1, <1>3, <2>1
<1>4. ASSUME NEW v \in Task, tasks' = others \cup {v}, Succeeds(v, t),
             \/ v.pc # "tidy" /\ bubble' = bubble
             \/ v.pc = "tidy" /\ v.gen = bubble /\ bubble # None /\ bubble' = None
      PROVE  /\ tasks' \subseteq Task /\ IsFiniteSet(tasks') /\ others \subseteq tasks'
             /\ bubble' \in chat.bubbles \cup {None} /\ NumbersInv'
             /\ \A u \in tasks' : u \in others \/ Succeeds(u, t)
             /\ \A u, w \in tasks' : u \notin others /\ w \notin others => u = w
             /\ t.buf # <<>> => \E u \in tasks' : u.buf = t.buf
  <2>1. IsFiniteSet(tasks') /\ tasks' \subseteq Task
    BY <1>1, <1>4, FS_AddElement
  <2>2. v.n = t.n /\ v.pc # "create" /\ v.buf = t.buf
    BY <1>4 DEF Succeeds
  <2>3. bubble' \in chat.bubbles \cup {None} /\ bubble \in chat.bubbles \cup {None}
    BY <1>4 DEF TypeOK
  <2>4. \A u, w \in tasks' : u.n = w.n => u = w
    BY <1>4, <2>2 DEF NumbersInv
  <2>5. \A u \in tasks' : u.pc = "create" => u \in tasks /\ u.n \notin chat.bubbles
    BY <1>4, <2>2 DEF NumbersInv
  <2>6. ASSUME NEW u \in tasks', u.pc = "tidy"
        PROVE  u.gen # bubble' /\ \A w \in tasks' : w.pc = "create" => w.n # u.gen
    <3>1. u.gen \in Nat
      BY <2>1 DEF Task
    <3>2. CASE u = v
      BY <1>4, <2>3, <2>5, <2>6, <3>1, <3>2, OutboxAssumption
    <3>3. CASE u # v
      <4>1. u \in tasks
        BY <1>4, <3>3
      <4>2. u.gen # bubble /\ \A w \in tasks : w.pc = "create" => w.n # u.gen
        BY <2>6, <4>1 DEF NumbersInv
      <4>3. QED
        BY <1>4, <2>5, <3>1, <4>2, OutboxAssumption
    <3>4. QED
      BY <3>2, <3>3
  <2>7. NumbersInv'
    BY <2>4, <2>5, <2>6 DEF NumbersInv
  <2>8. QED
    BY <1>4, <2>1, <2>2, <2>3, <2>7
<1>5. QED
  BY <1>2, <1>3, <1>4, ContinueMoves
(* What a waiting delivery has in hand is Held. *)
LEMMA WaitingIsHeld ==
  ASSUME NEW t \in tasks, t.pc \in {"wait", "woken"}, NEW c, Holds(t, c)
  PROVE  c \in Held
<1>1. Chunks(t.buf) \in {Chunks(u.buf) : u \in {v \in tasks : v.pc \in {"wait", "woken"}}}
  OBVIOUS
<1>2. QED
  BY <1>1 DEF Held, Holds

(* _commit_draft and _invalidate_draft: the draft is given up, and its prose is
   in the hands of the new delivery or dropped. *)
LEMMA DeliverKeeps ==
  ASSUME OutboxInv, NEW kind \in {"done", "card", "notice"}, Deliver(kind), UNCHANGED texts
  PROVE  OutboxInv'
<1> USE DEF OutboxInv
<1> DEFINE d == [draft EXCEPT !.alive = FALSE, !.pending = FALSE]
           new == [n |-> Unused, kind |-> kind, gen |-> draft.gen, pc |-> "wait",
                   buf |-> IF kind = "notice" THEN <<>> ELSE draft.buf]
<1>0. draft \in Draft /\ draft.buf \in Prose /\ draft.gen \in Nat /\ <<>> \in Prose
  BY DEF TypeOK, Draft, Prose
<1>1. PICK t : t = new
  OBVIOUS
<1>2. /\ t \in Task /\ t.kind = kind /\ t.gen = draft.gen /\ t.pc = "wait" /\ t.n = Unused
      /\ t.buf = IF kind = "notice" THEN <<>> ELSE draft.buf
  BY <1>0, <1>1, UnusedIsFree DEF Task
<1>3. /\ \A v \in tasks : v.n # t.n /\ v.gen # t.n
      /\ t.n \notin chat.bubbles
  BY <1>2, UnusedIsFree
<1>4. /\ dropped' = IF kind = "notice" THEN dropped \cup Chunks(draft.buf) ELSE dropped
      /\ again' = again \cup (Chunks(t.buf) \cap Held)
      /\ UNCHANGED <<flights, chat>>
  BY <1>1 DEF Deliver
<1> DEFINE Fresh(v) == /\ v.buf = t.buf /\ v.kind = kind
                       /\ \/ /\ v.pc \in Delivering /\ v.gen = draft.gen
                             /\ v.pc # "wait" => flights = {} /\ draft'.buf = <<>>
                             /\ v.pc # "wait" => v.kind # "notice"
                          \/ v.pc \notin Delivering /\ v.buf = <<>>
           Moved == /\ draft' \in Draft /\ ~draft'.alive /\ ~draft'.pending
                    /\ draft'.gen = draft.gen /\ draft'.inflight = draft.inflight
                    /\ draft'.buf = draft.buf \/ draft'.buf = <<>>
                    /\ tasks \subseteq tasks' /\ tasks' \subseteq Task /\ IsFiniteSet(tasks')
                    /\ bubble' \in chat.bubbles \cup {None} /\ NumbersInv'
                    /\ \A v \in tasks' : v \in tasks \/ Fresh(v)
                    /\ \A v, w \in tasks' : v \notin tasks /\ w \notin tasks => v = w
                    /\ t.buf # <<>> => \E v \in tasks' : v.buf = t.buf
<1>a. d \in Draft /\ d.alive = FALSE /\ d.pending = FALSE /\ d.gen = draft.gen
      /\ d.buf = draft.buf /\ d.inflight = draft.inflight
  BY <1>0 DEF Draft
<1>5. ASSUME draft.inflight PROVE Moved
  <2>1. draft' = d /\ tasks' = tasks \cup {t} /\ UNCHANGED <<progress, bubble>>
    BY <1>0, <1>1, <1>5 DEF Deliver, Waits, Draft
  <2>2. IsFiniteSet(tasks') /\ tasks' \subseteq Task
    BY <1>2, <2>1, FS_AddElement DEF TypeOK
  <2>3. NumbersInv'
    BY <1>2, <1>3, <1>4, <2>1 DEF NumbersInv
  <2>4. Fresh(t)
    BY <1>2 DEF Delivering
  <2> HIDE DEF Fresh
  <2>5. Moved
    BY <1>4, <1>a, <2>1, <2>2, <2>3, <2>4 DEF TypeOK
  <2>6. QED
    BY <2>5
<1>6. ASSUME ~draft.inflight PROVE Moved
  <2>1. draft' = Restarted(d) /\ Continue(tasks, t)
    BY <1>0, <1>1, <1>6 DEF Deliver, Waits, Draft, Continue, Cleanup
  <2>2. /\ tasks' \subseteq Task /\ IsFiniteSet(tasks') /\ tasks \subseteq tasks'
        /\ bubble' \in chat.bubbles \cup {None} /\ NumbersInv'
        /\ \A v \in tasks' : v \in tasks \/ Succeeds(v, t)
        /\ \A v, w \in tasks' : v \notin tasks /\ w \notin tasks => v = w
        /\ t.buf # <<>> => \E v \in tasks' : v.buf = t.buf
    BY <1>2, <1>3, <1>4, <2>1, HandOver
  <2> HIDE DEF d
  <2>3. draft' \in Draft /\ ~draft'.alive /\ ~draft'.pending /\ draft'.gen = draft.gen
        /\ draft'.inflight = draft.inflight /\ draft'.buf = <<>>
    <3>1. 0 \in 0 .. BufMax
      BY OutboxAssumption
    <3>2. draft' = [d EXCEPT !.alive = FALSE, !.buf = <<>>, !.sent = 0,
                             !.pending = FALSE, !.fresh = TRUE]
      BY <2>1 DEF Restarted
    <3>3. QED
      BY <1>0, <1>a, <3>1, <3>2 DEF Draft
  <2>4. flights = {}
    BY <1>6 DEF FlightInv
  <2>5. ASSUME NEW v, Succeeds(v, t) PROVE Fresh(v)
    BY <1>2, <2>3, <2>4, <2>5 DEF Succeeds, Delivering
  <2> HIDE DEF Fresh
  <2>6. QED
    BY <2>2, <2>3, <2>5
<1>7. Moved
  BY <1>0, <1>5, <1>6 DEF Draft
<1> HIDE DEF d, new
<1>8. TypeOK'
  <2>1. Len(draft'.buf) <= BufMax
    BY <1>7, OutboxAssumption DEF TypeOK
  <2>2. Chunks(draft.buf) \subseteq 1 .. MaxTexts /\ Chunks(t.buf) \subseteq 1 .. MaxTexts
    BY <1>0, <1>2, ChunksOf DEF Task, Prose
  <2>3. dropped' \cup again' \subseteq 1 .. MaxTexts
    BY <1>4, <2>2 DEF TypeOK
  <2> HIDE DEF Fresh
  <2>4. QED
    BY <1>4, <1>7, <2>1, <2>3 DEF TypeOK
<1>9. FlightInv'
  BY <1>4, <1>7 DEF FlightInv
<1>10. DeliveryInv'
  <2>1. ASSUME NEW v \in tasks', v.pc \in Delivering
        PROVE  v.gen <= draft.gen /\ (v.pc # "wait" => \A f \in flights : v.gen < f.gen)
    <3>1. CASE v \in tasks
      BY <2>1, <3>1 DEF DeliveryInv
    <3>2. CASE v \notin tasks
      BY <1>0, <1>7, <2>1, <3>2
    <3>3. QED
      BY <3>1, <3>2
  <2> HIDE DEF Fresh
  <2>2. QED
    BY <1>4, <1>7, <2>1 DEF DeliveryInv
<1>11. \A c \in Chunks(t.buf) : kind # "notice" /\ c \in Chunks(draft.buf)
  BY <1>2, ChunksOf
<1>12. \A c \in Chunks(draft.buf) : c \in dropped' \/ \E v \in tasks' : Holds(v, c)
  <2>1. CASE kind = "notice"
    BY <1>4, <2>1
  <2>2. CASE kind # "notice"
    <3>1. t.buf = draft.buf
      BY <1>2, <2>2
    <3> HIDE DEF Fresh
    <3>2. QED
      BY <1>7, <3>1, ChunksOf DEF Holds
  <2>3. QED
    BY <2>1, <2>2
<1>13. \A c \in Chunks(draft'.buf) : draft'.buf = draft.buf /\ c \in Chunks(draft.buf)
  BY <1>7, ChunksOf
<1>14. ASSUME NEW v \in tasks', v \notin tasks, NEW c, Holds(v, c)
       PROVE  /\ c \in Chunks(t.buf) /\ v.pc \in Delivering /\ v.gen = draft.gen
              /\ v.pc # "wait" => draft'.buf = <<>>
  BY <1>7, <1>14, ChunksOf DEF Holds
<1>15. ASSUME NEW v \in tasks', v.pc \notin Delivering \/ v.kind = "notice"
       PROVE  v.buf = <<>>
  <2>1. CASE v \in tasks
    BY <1>15, <2>1 DEF ProseInv
  <2>2. CASE v \notin tasks
    BY <1>2, <1>7, <1>15, <2>2
  <2>3. QED
    BY <2>1, <2>2
<1>16. ASSUME NEW c \in 1 .. MaxTexts, c > texts
       PROVE  chat.prose[c] = 0 /\ c \notin Chunks(draft'.buf) /\ \A v \in tasks' : ~Holds(v, c)
  BY <1>11, <1>13, <1>14, <1>16 DEF ProseInv
<1>17. ASSUME NEW c \in 1 .. MaxTexts, c \notin again'
       PROVE  /\ chat.prose[c] <= 1
              /\ \A v, w \in tasks' : Holds(v, c) /\ Holds(w, c) => v = w
              /\ \A v \in tasks' : Holds(v, c) => chat.prose[c] = 0
              /\ c \in Chunks(draft'.buf) =>
                   /\ chat.prose[c] = 0
                   /\ \A v \in tasks' : Holds(v, c) =>
                        v.gen = draft.gen /\ v.pc \in {"wait", "woken"}
  <2>0. c \notin again
    BY <1>4, <1>17
  <2>1. CASE c \in Chunks(t.buf)
    <3>1. \A v \in tasks : ~Holds(v, c)
      <4> SUFFICES ASSUME NEW v \in tasks, Holds(v, c) PROVE FALSE
        OBVIOUS
      <4>1. v.pc \in {"wait", "woken"}
        BY <1>11, <2>0, <2>1 DEF ProseInv
      <4>2. c \in Held
        BY <4>1, WaitingIsHeld
      <4>3. QED
        BY <1>4, <1>17, <2>1, <4>2
    <3>2. chat.prose[c] = 0
      BY <1>11, <2>0, <2>1 DEF ProseInv
    <3>3. \A v, w \in tasks' : Holds(v, c) /\ Holds(w, c) => v = w
      BY <1>7, <3>1
    <3>4. ASSUME NEW v \in tasks', Holds(v, c), c \in Chunks(draft'.buf)
          PROVE  v.gen = draft.gen /\ v.pc \in {"wait", "woken"}
      BY <1>14, <3>1, <3>4, ChunksOf
    <3>5. QED
      BY <3>2, <3>3, <3>4
  <2>2. CASE c \notin Chunks(t.buf)
    <3>1. \A v \in tasks' : Holds(v, c) => v \in tasks
      BY <1>14, <2>2
    <3>2. QED
      BY <1>13, <2>0, <3>1 DEF ProseInv
  <2>3. QED
    BY <2>1, <2>2
<1>18. ProseInv'
  <2>1. ~draft'.alive /\ draft'.gen = draft.gen /\ tasks \subseteq tasks'
    BY <1>7
  <2> HIDE DEF Fresh, Moved
  <2>2. QED
    BY <1>4, <1>12, <1>13, <1>15, <1>16, <1>17, <2>1 DEF ProseInv
<1>19. ProseOnce'
  <2>1. tasks \subseteq tasks'
    BY <1>7
  <2>2. ASSUME NEW c \in 1 .. texts
        PROVE  /\ c \in dropped' \/ chat.prose[c] > 0 \/ \E v \in tasks' : Holds(v, c)
               /\ chat.prose[c] > 1 => c \in again'
    <3> HIDE DEF Fresh, Moved
    <3>1. c \in dropped => c \in dropped'
      BY <1>4
    <3>2. QED
      BY <1>4, <1>12, <2>1, <3>1 DEF ProseOnce, Holds
  <2> HIDE DEF Fresh, Moved
  <2>3. QED
    BY <1>4, <2>2 DEF ProseOnce, Holds
<1>20. QED
  <2> HIDE DEF Fresh
  <2>1. NumbersInv'
    BY <1>7
  <2> HIDE DEF Moved
  <2>2. QED
    BY <1>8, <1>9, <1>10, <1>18, <1>19, <2>1
(* A woken delivery clears the draft it took, and no newer one. *)
LEMMA ResumeKeeps ==
  ASSUME OutboxInv, NEW t \in tasks, Resume(t)
  PROVE  OutboxInv'
<1> USE DEF OutboxInv
<1> DEFINE others == tasks \ {t}
<1>0. draft \in Draft /\ draft.gen \in Nat /\ t \in Task /\ t.gen \in Nat
  BY DEF TypeOK, Draft, Task
<1>1. /\ t.pc = "woken" /\ t.pc \in Delivering /\ Continue(others, t)
      /\ draft' = IF draft.gen = t.gen THEN Restarted(draft) ELSE draft
      /\ UNCHANGED <<flights, chat, dropped, again, texts>>
  BY DEF Resume, MayRestart, Delivering, counters
<1>2. /\ others \subseteq tasks /\ \A v \in others : v.n # t.n
      /\ t.kind = "notice" => t.buf = <<>>
  BY DEF NumbersInv, ProseInv
<1> HIDE DEF others
<1>3. /\ tasks' \subseteq Task /\ IsFiniteSet(tasks') /\ others \subseteq tasks'
      /\ bubble' \in chat.bubbles \cup {None} /\ NumbersInv'
      /\ \A v \in tasks' : v \in others \/ Succeeds(v, t)
      /\ \A v, w \in tasks' : v \notin others /\ w \notin others => v = w
      /\ t.buf # <<>> => \E v \in tasks' : v.buf = t.buf
  BY <1>0, <1>1, <1>2, HandOver
<1>4. /\ draft' \in Draft /\ draft'.gen = draft.gen /\ draft'.inflight = draft.inflight
      /\ draft'.alive = draft.alive /\ draft'.pending = draft.pending
      /\ draft'.buf = IF draft.gen = t.gen THEN <<>> ELSE draft.buf
      /\ draft.gen = t.gen => ~draft.alive
  <2>1. draft.gen = t.gen => ~draft.alive /\ ~draft.pending
    BY <1>0, <1>1 DEF DeliveryInv, FlightInv
  <2>2. CASE draft.gen = t.gen
    <3>1. 0 \in 0 .. BufMax /\ <<>> \in Prose
      BY OutboxAssumption DEF Prose
    <3>2. draft' = [draft EXCEPT !.alive = FALSE, !.buf = <<>>, !.sent = 0,
                                 !.pending = FALSE, !.fresh = TRUE]
      BY <1>1, <2>2 DEF Restarted
    <3>3. QED
      BY <1>0, <2>1, <2>2, <3>1, <3>2 DEF Draft
  <2>3. CASE draft.gen # t.gen
    BY <1>0, <1>1, <2>3
  <2>4. QED
    BY <2>2, <2>3
<1>5. TypeOK'
  <2>1. Len(draft'.buf) <= BufMax
    BY <1>4, OutboxAssumption DEF TypeOK
  <2>2. QED
    BY <1>1, <1>3, <1>4, <2>1 DEF TypeOK
<1>6. FlightInv'
  BY <1>1, <1>4 DEF FlightInv
<1>7. DeliveryInv'
  <2>1. ASSUME NEW v \in tasks', v.pc \in Delivering
        PROVE  /\ v.gen <= draft.gen /\ (draft.alive => v.gen < draft.gen)
               /\ v.pc # "wait" => \A f \in flights : v.gen < f.gen
    <3>1. CASE v \in others
      BY <1>2, <2>1, <3>1 DEF DeliveryInv
    <3>2. CASE v \notin others
      <4>1. v.gen = t.gen
        BY <1>3, <2>1, <3>2 DEF Succeeds, Delivering
      <4>2. QED
        BY <1>1, <4>1 DEF DeliveryInv
    <3>3. QED
      BY <3>1, <3>2
  <2>2. QED
    BY <1>1, <1>4, <2>1 DEF DeliveryInv
<1>8. ASSUME NEW c
      PROVE  /\ (\E v \in tasks : Holds(v, c)) => \E v \in tasks' : Holds(v, c)
             /\ \A v \in tasks' : Holds(v, c) => v \in others \/ (v \notin others /\ Holds(t, c))
  <2>1. Holds(t, c) => \E v \in tasks' : Holds(v, c)
    BY <1>3, ChunksOf DEF Holds
  <2>2. QED
    BY <1>3, <2>1 DEF Holds, Succeeds, others
<1>9. ASSUME NEW v \in tasks', v.pc \notin Delivering \/ v.kind = "notice"
      PROVE  v.buf = <<>>
  BY <1>2, <1>3, <1>9 DEF ProseInv, Succeeds, Delivering
<1>10. \A c : c \in Chunks(draft'.buf) => draft'.buf = draft.buf /\ t.gen # draft.gen
  BY <1>4, ChunksOf
<1>11. ASSUME NEW c \in 1 .. MaxTexts, c > texts
       PROVE  chat.prose[c] = 0 /\ c \notin Chunks(draft'.buf) /\ \A v \in tasks' : ~Holds(v, c)
  BY <1>2, <1>8, <1>10, <1>11 DEF ProseInv
<1>12. ASSUME NEW c \in 1 .. MaxTexts, c \notin again
       PROVE  /\ chat.prose[c] <= 1
              /\ \A v, w \in tasks' : Holds(v, c) /\ Holds(w, c) => v = w
              /\ \A v \in tasks' : Holds(v, c) => chat.prose[c] = 0
              /\ c \in Chunks(draft'.buf) =>
                   /\ chat.prose[c] = 0
                   /\ \A v \in tasks' : Holds(v, c) =>
                        ~draft.alive /\ v.gen = draft.gen /\ v.pc \in {"wait", "woken"}
  <2>1. ASSUME NEW v \in tasks', NEW w \in tasks', Holds(v, c), Holds(w, c) PROVE v = w
    <3>1. CASE v \in others /\ w \in others
      BY <1>2, <1>12, <2>1, <3>1 DEF ProseInv
    <3>2. CASE v \notin others /\ w \notin others
      BY <1>3, <3>2
    <3>3. CASE v \in others /\ w \notin others
      <4>1. Holds(t, c) /\ v \in tasks /\ v # t
        BY <1>2, <1>8, <2>1, <3>3 DEF others
      <4>2. QED
        BY <1>12, <2>1, <4>1 DEF ProseInv
    <3>4. CASE v \notin others /\ w \in others
      <4>1. Holds(t, c) /\ w \in tasks /\ w # t
        BY <1>2, <1>8, <2>1, <3>4 DEF others
      <4>2. QED
        BY <1>12, <2>1, <4>1 DEF ProseInv
    <3>5. QED
      BY <3>1, <3>2, <3>3, <3>4
  <2>2. \A v \in tasks' : Holds(v, c) => chat.prose[c] = 0
    BY <1>2, <1>8, <1>12 DEF ProseInv
  <2>3. ASSUME c \in Chunks(draft'.buf), NEW v \in tasks', Holds(v, c)
        PROVE  ~draft.alive /\ v.gen = draft.gen /\ v.pc \in {"wait", "woken"}
    <3>1. c \in Chunks(draft.buf) /\ t.gen # draft.gen
      BY <1>10, <2>3
    <3>2. ~Holds(t, c)
      BY <1>12, <3>1 DEF ProseInv
    <3>3. v \in tasks
      BY <1>2, <1>8, <2>3, <3>2
    <3>4. QED
      BY <1>12, <2>3, <3>1, <3>3 DEF ProseInv
  <2>4. chat.prose[c] <= 1 /\ (c \in Chunks(draft'.buf) => chat.prose[c] = 0)
    BY <1>10, <1>12 DEF ProseInv
  <2>5. QED
    BY <2>1, <2>2, <2>3, <2>4
<1>13. \A c \in 1 .. MaxTexts : ~draft.alive /\ c \in Chunks(draft.buf) =>
         c \in dropped \/ chat.prose[c] > 0 \/ \E v \in tasks' : Holds(v, c)
  BY <1>8 DEF ProseInv
<1>14. ProseInv'
  BY <1>1, <1>4, <1>9, <1>10, <1>11, <1>12, <1>13 DEF ProseInv
<1>15. ProseOnce'
  <2>1. ASSUME NEW c \in 1 .. texts
        PROVE  \/ c \in Chunks(draft'.buf) \cup dropped \/ chat.prose[c] > 0
               \/ \E v \in tasks' : Holds(v, c)
    <3>1. c \in 1 .. MaxTexts
      BY OutboxAssumption DEF TypeOK
    <3>2. CASE draft'.buf = draft.buf
      BY <1>8, <3>2 DEF ProseOnce, Holds
    <3>3. CASE draft'.buf # draft.buf
      BY <1>4, <1>8, <1>13, <3>1, <3>3 DEF ProseOnce, Holds
    <3>4. QED
      BY <3>2, <3>3
  <2>2. QED
    BY <1>1, <2>1 DEF ProseOnce, Holds
<1>16. QED
  BY <1>3, <1>5, <1>6, <1>7, <1>14, <1>15
(* A message is posted or given up, or the bubble is deleted. *)
LEMMA PostEndsKeeps ==
  ASSUME OutboxInv, NEW t \in tasks, NEW ok \in BOOLEAN, NEW served \in BOOLEAN,
         PostEnds(t, ok, served)
  PROVE  OutboxInv'
<1> USE DEF OutboxInv
<1> DEFINE others == tasks \ {t}
           posted == t.pc = "prose" /\ served
<1>0. t \in Task /\ t.gen \in Nat /\ t.buf \in Prose /\ Chunks(t.buf) \subseteq 1 .. MaxTexts
  BY ChunksOf DEF TypeOK, Task, Prose
<1>1. /\ t.pc \in {"prose", "post", "tidy"} /\ (ok => served)
      /\ UNCHANGED <<draft, flights, again, texts>>
      /\ dropped' = IF t.pc = "prose" /\ ~served THEN dropped \cup Chunks(t.buf) ELSE dropped
  BY DEF PostEnds
<1>2. /\ chat' \in [prose : [1 .. MaxTexts -> Nat], bubbles : SUBSET Nat]
      /\ chat'.bubbles = IF t.pc = "tidy" /\ served THEN chat.bubbles \ {t.gen} ELSE chat.bubbles
      /\ \A c \in 1 .. MaxTexts :
           chat'.prose[c] = IF posted /\ c \in Chunks(t.buf) THEN chat.prose[c] + 1
                                                             ELSE chat.prose[c]
  <2>0. chat \in [prose : [1 .. MaxTexts -> Nat], bubbles : SUBSET Nat]
    BY DEF TypeOK
  <2>1. CASE ~served \/ t.pc = "post"
    BY <2>0, <2>1 DEF PostEnds
  <2>2. CASE served /\ t.pc = "prose"
    <3>1. chat' = [chat EXCEPT !.prose = [c \in 1 .. MaxTexts |->
                     IF c \in Chunks(t.buf) THEN @[c] + 1 ELSE @[c]]]
      BY <2>2 DEF PostEnds
    <3>2. chat'.bubbles = chat.bubbles /\ chat'.prose =
            [c \in 1 .. MaxTexts |-> IF c \in Chunks(t.buf) THEN chat.prose[c] + 1
                                                           ELSE chat.prose[c]]
      BY <2>0, <3>1
    <3>3. chat' \in [prose : [1 .. MaxTexts -> Nat], bubbles : SUBSET Nat]
      <4> DEFINE P == [c \in 1 .. MaxTexts |-> IF c \in Chunks(t.buf) THEN chat.prose[c] + 1
                                                                      ELSE chat.prose[c]]
      <4>0. chat.prose \in [1 .. MaxTexts -> Nat]
        BY <2>0
      <4>a. ASSUME NEW c \in 1 .. MaxTexts
            PROVE  (IF c \in Chunks(t.buf) THEN chat.prose[c] + 1 ELSE chat.prose[c]) \in Nat
        <5>1. chat.prose[c] \in Nat
          BY <4>0
        <5>2. QED
          BY <5>1
      <4>1. P \in [1 .. MaxTexts -> Nat]
        BY <4>a, Zenon
      <4>2. chat' = [chat EXCEPT !.prose = P]
        BY <3>1
      <4> HIDE DEF P
      <4>3. QED
        BY <2>0, <4>1, <4>2
    <3>4. QED
      BY <2>2, <3>2, <3>3
  <2>3. CASE served /\ t.pc = "tidy"
    <3>1. chat' = [chat EXCEPT !.bubbles = @ \ {t.gen}]
      BY <2>3 DEF PostEnds
    <3>2. QED
      BY <2>0, <2>3, <3>1
  <2>4. QED
    BY <1>1, <2>1, <2>2, <2>3
<1>3. others \subseteq tasks /\ \A v \in others : v.n # t.n
  BY DEF NumbersInv
<1> DEFINE Ended == /\ tasks' \subseteq Task /\ IsFiniteSet(tasks') /\ others \subseteq tasks'
                    /\ bubble' \in chat'.bubbles \cup {None} /\ NumbersInv'
                    /\ \A v \in tasks' : v \in others \/
                         /\ v.buf = <<>>
                         /\ v.pc \in Delivering => /\ v.pc = "prose" /\ t.pc = "prose"
                                                   /\ v.gen = t.gen
<1>4. ASSUME ok, t.pc = "prose" PROVE Ended
  <2>1. PICK e : e = [t EXCEPT !.buf = <<>>]
    OBVIOUS
  <2>2. e \in Task /\ e.n = t.n /\ e.kind = t.kind /\ e.gen = t.gen /\ e.buf = <<>>
    <3>1. <<>> \in Prose
      BY DEF Prose
    <3>2. QED
      BY <1>0, <2>1, <3>1 DEF Task
  <2>3. Continue(others, e)
    BY <1>4, <2>1 DEF PostEnds, Continue, Cleanup
  <2>4. chat'.bubbles = chat.bubbles
    BY <1>2, <1>4
  <2> HIDE DEF others
  <2>5. /\ tasks' \subseteq Task /\ IsFiniteSet(tasks') /\ others \subseteq tasks'
        /\ bubble' \in chat.bubbles \cup {None} /\ NumbersInv'
        /\ \A v \in tasks' : v \in others \/ Succeeds(v, e)
    BY <1>3, <2>2, <2>3, <2>4, HandOver
  <2>6. QED
    BY <1>4, <2>2, <2>4, <2>5 DEF Succeeds, Delivering
<1>5. ASSUME ~(ok /\ t.pc = "prose") PROVE Ended
  <2>1. tasks' = others /\ UNCHANGED bubble
    BY <1>5 DEF PostEnds
  <2>2. IsFiniteSet(tasks') /\ tasks' \subseteq Task
    BY <2>1, FS_RemoveElement DEF TypeOK
  <2>3. bubble' \in chat'.bubbles \cup {None}
    BY <1>2, <2>1 DEF TypeOK, NumbersInv
  <2>4. NumbersInv'
    BY <1>2, <1>3, <2>1 DEF NumbersInv
  <2> HIDE DEF others
  <2>5. QED
    BY <2>1, <2>2, <2>3, <2>4
<1>6. Ended
  BY <1>4, <1>5
<1> HIDE DEF others
<1>7. TypeOK'
  <2>1. IsFiniteSet(chat'.bubbles)
    <3> DEFINE B == chat.bubbles
    <3>1. IsFiniteSet(B)
      BY DEF TypeOK
    <3>2. chat'.bubbles \in SUBSET B
      BY <1>2
    <3> HIDE DEF B
    <3>3. QED
      BY <3>1, <3>2, FS_Subset
  <2>2. dropped' \cup again' \subseteq 1 .. MaxTexts
    BY <1>0, <1>1 DEF TypeOK
  <2>3. QED
    BY <1>1, <1>2, <1>6, <2>1, <2>2 DEF TypeOK
<1>8. FlightInv'
  BY <1>1 DEF FlightInv
<1>9. DeliveryInv'
  <2>1. ASSUME NEW v \in tasks', v.pc \in Delivering
        PROVE  /\ v.gen <= draft.gen /\ (draft.alive => v.gen < draft.gen)
               /\ v.pc # "wait" => \A f \in flights : v.gen < f.gen
    <3>1. CASE v \in others
      BY <1>3, <2>1, <3>1 DEF DeliveryInv
    <3>2. CASE v \notin others
      <4>1. v.gen = t.gen /\ t.pc = "prose"
        BY <1>6, <2>1, <3>2
      <4>2. QED
        BY <4>1 DEF DeliveryInv, Delivering
    <3>3. QED
      BY <3>1, <3>2
  <2>2. QED
    BY <1>1, <2>1 DEF DeliveryInv
<1>10. \A v \in tasks' : \A c : Holds(v, c) => v \in others
  BY <1>6, ChunksOf DEF Holds
<1>11. \A c : Holds(t, c) => t.pc = "prose"
  BY <1>1, ChunksOf DEF ProseInv, Holds, Delivering
<1>12. ASSUME NEW c \in 1 .. MaxTexts
       PROVE  (\E v \in tasks : Holds(v, c)) \/ chat.prose[c] > 0 \/ c \in dropped
                => c \in dropped' \/ chat'.prose[c] > 0 \/ \E v \in tasks' : Holds(v, c)
  <2>0. chat.prose[c] \in Nat
    BY DEF TypeOK
  <2>1. CASE chat.prose[c] > 0 \/ c \in dropped
    BY <1>1, <1>2, <2>0, <2>1
  <2>2. CASE Holds(t, c)
    BY <1>1, <1>2, <1>11, <2>0, <2>2 DEF Holds
  <2>3. ASSUME NEW v \in tasks, Holds(v, c), v # t PROVE \E w \in tasks' : Holds(w, c)
    BY <1>6, <2>3 DEF others
  <2>4. QED
    BY <2>1, <2>2, <2>3
<1>13. ASSUME NEW v \in tasks', v.pc \notin Delivering \/ v.kind = "notice"
       PROVE  v.buf = <<>>
  BY <1>3, <1>6, <1>13 DEF ProseInv
<1>14. ASSUME NEW c \in 1 .. MaxTexts, c > texts
       PROVE  chat'.prose[c] = 0 /\ c \notin Chunks(draft.buf) /\ \A v \in tasks' : ~Holds(v, c)
  <2>1. chat.prose[c] = 0 /\ ~Holds(t, c)
    BY <1>14 DEF ProseInv
  <2>2. QED
    BY <1>2, <1>3, <1>10, <1>14, <2>1 DEF ProseInv, Holds
<1>15. ASSUME NEW c \in 1 .. MaxTexts, c \notin again
       PROVE  /\ chat'.prose[c] <= 1
              /\ \A v, w \in tasks' : Holds(v, c) /\ Holds(w, c) => v = w
              /\ \A v \in tasks' : Holds(v, c) => chat'.prose[c] = 0
              /\ c \in Chunks(draft.buf) =>
                   /\ chat'.prose[c] = 0
                   /\ \A v \in tasks' : Holds(v, c) =>
                        ~draft.alive /\ v.gen = draft.gen /\ v.pc \in {"wait", "woken"}
  <2>1. CASE Holds(t, c)
    <3>1. chat.prose[c] = 0 /\ chat'.prose[c] <= 1
      BY <1>2, <1>15, <2>1 DEF ProseInv
    <3>2. \A v \in tasks' : ~Holds(v, c)
      BY <1>10, <1>15, <2>1 DEF ProseInv, others
    <3>3. c \notin Chunks(draft.buf)
      BY <1>11, <1>15, <2>1 DEF ProseInv
    <3>4. QED
      BY <3>1, <3>2, <3>3
  <2>2. CASE ~Holds(t, c)
    <3>1. chat'.prose[c] = chat.prose[c]
      BY <1>2, <2>2 DEF Holds
    <3>2. QED
      BY <1>3, <1>10, <1>15, <3>1 DEF ProseInv
  <2>3. QED
    BY <2>1, <2>2
<1>16. ProseInv'
  <2>1. ASSUME NEW c \in 1 .. MaxTexts, ~draft.alive, c \in Chunks(draft.buf)
        PROVE  c \in dropped' \/ chat'.prose[c] > 0 \/ \E v \in tasks' : Holds(v, c)
    BY <1>12, <2>1 DEF ProseInv
  <2> HIDE DEF Ended
  <2>2. QED
    BY <1>1, <1>13, <1>14, <1>15, <2>1 DEF ProseInv
<1>17. ProseOnce'
  <2>1. ASSUME NEW c \in 1 .. texts
        PROVE  /\ \/ c \in Chunks(draft.buf) \cup dropped' \/ chat'.prose[c] > 0
                  \/ \E v \in tasks' : Holds(v, c)
               /\ chat'.prose[c] > 1 => c \in again
    <3>1. c \in 1 .. MaxTexts /\ chat'.prose[c] \in Nat
      BY <1>2, OutboxAssumption DEF TypeOK
    <3>2. chat'.prose[c] > 1 => c \in again
      BY <1>15, <3>1
    <3>3. QED
      BY <1>12, <3>1, <3>2 DEF ProseOnce, Holds
  <2>2. QED
    BY <1>1, <2>1 DEF ProseOnce, Holds
<1>18. QED
  <2>1. NumbersInv'
    BY <1>6
  <2> HIDE DEF Ended
  <2>2. QED
    BY <1>7, <1>8, <1>9, <1>16, <1>17, <2>1

-----------------------------------------------------------------------------
(* Every step *)

LEMMA InitKept == Init => OutboxInv
<1> SUFFICES ASSUME Init PROVE OutboxInv
  OBVIOUS
<1>0. /\ MaxTexts \in Nat /\ BufMax \in Nat /\ <<>> \in Prose
  BY OutboxAssumption DEF Prose
<1>1. /\ draft.alive = FALSE /\ draft.gen = 0 /\ draft.buf = <<>> /\ draft.pending = FALSE
      /\ draft.inflight = FALSE /\ draft \in Draft
  BY <1>0 DEF Init, Draft
<1>2. IsFiniteSet(tasks) /\ IsFiniteSet(chat.bubbles)
  BY FS_EmptySet DEF Init
<1>3. TypeOK
  BY <1>0, <1>1, <1>2 DEF Init, TypeOK
<1>4. FlightInv /\ DeliveryInv /\ NumbersInv
  BY <1>1 DEF Init, FlightInv, DeliveryInv, NumbersInv
<1>5. ProseInv /\ ProseOnce
  BY <1>0, <1>1, ChunksOf DEF Init, ProseInv, ProseOnce
<1>6. QED
  BY <1>3, <1>4, <1>5 DEF OutboxInv

LEMMA UnchangedKept ==
  ASSUME OutboxInv, UNCHANGED <<draft, flights, tasks, bubble, chat, dropped, again, texts>>
  PROVE  OutboxInv'
BY DEF OutboxInv, TypeOK, FlightInv, DeliveryInv, NumbersInv, ProseInv, ProseOnce, Holds

LEMMA NextKept == OutboxInv /\ [Next]_vars => OutboxInv'
<1> SUFFICES ASSUME OutboxInv, [Next]_vars PROVE OutboxInv'
  OBVIOUS
<1>1. CASE StartTurn
  BY <1>1, UnchangedKept DEF StartTurn
<1>2. CASE Text
  BY <1>2, TextKeeps
<1>3. CASE ToolEvent
  BY <1>3, UpsertKeeps DEF ToolEvent
<1>4. CASE BusyAck
  BY <1>4, UpsertKeeps DEF BusyAck
<1>5. CASE Notice
  BY <1>5, DeliverKeeps DEF Notice
<1>6. ASSUME NEW quiet \in BOOLEAN, Status(quiet) PROVE OutboxInv'
  <2>1. CASE ~turn
    BY <1>6, <2>1, UnchangedKept DEF Status
  <2>2. CASE turn /\ quiet /\ ~progress.now.beat
    BY <1>6, <2>2, UpsertKeeps DEF Status
  <2>3. CASE turn /\ ~(quiet /\ ~progress.now.beat)
    <3>1. KeepAlive(draft) /\ UNCHANGED <<tasks, bubble, chat, dropped, again, texts>>
      BY <1>6, <2>3 DEF Status
    <3>2. /\ draft' \in Draft /\ Len(draft'.buf) <= BufMax
          /\ flights' \subseteq Flight /\ \A f \in flights' : Len(f.buf) <= BufMax
          /\ FlightInv' /\ SameDraft
      BY <3>1, KeepAliveKeeps DEF OutboxInv
    <3>3. DeliveryInv' /\ ProseInv' /\ ProseOnce'
      BY <3>1, <3>2, SameDraftKeeps
    <3>4. TypeOK' /\ NumbersInv'
      BY <3>1, <3>2 DEF OutboxInv, TypeOK, NumbersInv
    <3>5. QED
      BY <3>2, <3>3, <3>4 DEF OutboxInv
  <2>4. QED
    BY <2>1, <2>2, <2>3
<1>7. ASSUME NEW kind \in {"done", "card", "notice"}, Finish(kind) PROVE OutboxInv'
  BY <1>7, DeliverKeeps DEF Finish
<1>8. ASSUME NEW f \in flights, NEW ok \in BOOLEAN, FlushEnds(f, ok) PROVE OutboxInv'
  <2>1. /\ draft' \in Draft /\ Len(draft'.buf) <= BufMax
        /\ flights' \subseteq Flight /\ \A g \in flights' : Len(g.buf) <= BufMax
        /\ FlightInv' /\ SameDraft
        /\ tasks' = tasks \/ (tasks' = Woken /\ flights' = {})
    BY <1>8, FlushEndsKeeps DEF OutboxInv
  <2>2. UNCHANGED <<bubble, chat, dropped, again, texts>>
    BY <1>8 DEF FlushEnds
  <2>3. CASE tasks' = tasks
    <3>1. DeliveryInv' /\ ProseInv' /\ ProseOnce'
      BY <2>1, <2>2, <2>3, SameDraftKeeps
    <3>2. TypeOK' /\ NumbersInv'
      BY <2>1, <2>2, <2>3 DEF OutboxInv, TypeOK, NumbersInv
    <3>3. QED
      BY <2>1, <3>1, <3>2 DEF OutboxInv
  <2>4. CASE tasks' = Woken /\ flights' = {}
    <3>1. /\ tasks' \subseteq Task /\ IsFiniteSet(tasks')
          /\ DeliveryInv' /\ NumbersInv' /\ ProseInv' /\ ProseOnce'
      BY <2>1, <2>2, <2>4, WokenKeeps
    <3>2. TypeOK'
      BY <2>1, <2>2, <3>1 DEF OutboxInv, TypeOK
    <3>3. QED
      BY <2>1, <3>1, <3>2 DEF OutboxInv
  <2>5. QED
    BY <2>1, <2>3, <2>4
<1>9. ASSUME NEW t \in tasks, NEW ok \in BOOLEAN, NEW served \in BOOLEAN,
             BubbleEnds(t, ok, served) \/ PostEnds(t, ok, served)
      PROVE  OutboxInv'
  BY <1>9, BubbleEndsKeeps, PostEndsKeeps
<1>10. ASSUME NEW t \in tasks, Resume(t) PROVE OutboxInv'
  BY <1>10, ResumeKeeps
<1>11. CASE UNCHANGED vars
  BY <1>11, UnchangedKept DEF vars, counters
<1>12. QED
  BY <1>1, <1>2, <1>3, <1>4, <1>5, <1>6, <1>7, <1>8, <1>9, <1>10, <1>11
     DEF Next, Requests

(* The invariant of the outbox *)
THEOREM OutboxInvariant == Spec => []OutboxInv
<1>1. Init => OutboxInv
  BY InitKept
<1>2. OutboxInv /\ [Next]_vars => OutboxInv'
  BY NextKept
<1>3. QED
  BY <1>1, <1>2, PTL DEF Spec

LEMMA InvImpliesDraftInv == OutboxInv => DraftInv
<1> SUFFICES ASSUME OutboxInv PROVE DraftInv
  OBVIOUS
<1> USE DEF OutboxInv
<1>1. OneFlight
  <2>1. CASE flights = {}
    BY <2>1, FS_EmptySet DEF OneFlight
  <2>2. ASSUME NEW f \in flights PROVE OneFlight
    <3>1. flights = {f}
      BY DEF FlightInv
    <3>2. QED
      <4>1. Cardinality(flights) = 1
        BY <3>1, FS_Singleton
      <4>2. QED
        BY <4>1 DEF OneFlight
  <2>3. QED
    BY <2>1, <2>2
<1>2. NoStrandedFlush
  BY DEF NoStrandedFlush, FlightInv
<1>3. NoGhostDraft
  <2>1. \A t \in tasks, f \in flights : t.gen \in Nat /\ f.gen \in Nat
    BY OutboxAssumption DEF TypeOK, Task, Flight
  <2>2. \A t \in tasks, f \in flights : t.pc = "prose" => t.gen < f.gen
    BY DEF DeliveryInv, Delivering
  <2>3. QED
    BY <2>1, <2>2 DEF NoGhostDraft
<1>4. QED
  BY <1>1, <1>2, <1>3 DEF DraftInv

(* One sendMessageDraft at a time, none that carries prose already posted, and
   no chunk left waiting for a request that is over. *)
THEOREM DraftIsSafe == Spec => []DraftInv
BY OutboxInvariant, InvImpliesDraftInv, PTL

(* Prose is never lost without a trace, and posted twice only when a second
   delivery took it during the first one's wait. *)
THEOREM ProsePostedOnce == Spec => []ProseOnce
<1>1. OutboxInv => ProseOnce
  BY DEF OutboxInv
<1>2. QED
  BY <1>1, OutboxInvariant, PTL
=============================================================================
