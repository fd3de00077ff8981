-------------------------- MODULE CheckpointsProofs --------------------------
(***************************************************************************)
(* Proofs about Checkpoints: CheckpointInv is inductive, and with it, for  *)
(* stacks of any depth and any number of sessions, the stacks are whole    *)
(* between two operations, a restore loses no work, and the refs implement *)
(* the histories of UndoHistory.                                           *)
(***************************************************************************)
EXTENDS Checkpoints, SequenceTheorems, FiniteSetTheorems, WellFoundedInduction, TLAPS

-----------------------------------------------------------------------------
(* What a list of ref writes leaves in a stack. *)

LEMMA Greatest ==
  ASSUME NEW m \in Nat, NEW T, T \subseteq 0 .. m, T # {}
  PROVE  \E x \in T : \A y \in T : y <= x
<1> DEFINE D == {m - y : y \in T}
<1>1. D \subseteq Nat /\ D # {}
  <2>1. \A y \in T : m - y \in Nat
    OBVIOUS
  <2>2. D \subseteq Nat
    BY <2>1
  <2>3. PICK y \in T : TRUE
    OBVIOUS
  <2>4. m - y \in D
    OBVIOUS
  <2>5. QED
    BY <2>2, <2>4
<1>2. IsWellFoundedOn(OpToRel(<, Nat), Nat)
  BY NatLessThanWellFounded
<1>3. PICK d \in D : \A e \in D : ~(<<e, d>> \in OpToRel(<, Nat))
  <2> HIDE DEF D
  <2>1. QED
    BY <1>1, <1>2, WFMin
<1>4. PICK x \in T : d = m - x
  OBVIOUS
<1>5. ASSUME NEW y \in T PROVE y <= x
  <2>1. m - y \in D /\ m - y \in Nat /\ m - x \in Nat
    OBVIOUS
  <2>2. ~(m - y < m - x)
    BY <1>3, <1>4, <2>1 DEF OpToRel
  <2>3. QED
    BY <2>2
<1>6. QED
  BY <1>5

To(w, st, i) == w.st = st /\ w.i = i

LEMMA LastWrite ==
  ASSUME NEW ws \in Seq(Writes), NEW st, NEW i, NEW j \in 1 .. Len(ws), To(ws[j], st, i),
         \A l \in (j + 1) .. Len(ws) : ~To(ws[l], st, i)
  PROVE  LastTo(ws, st, i) = j
<1> DEFINE IsLast(k) == /\ k > 0 => ws[k].st = st /\ ws[k].i = i
                        /\ \A l \in (k + 1) .. Len(ws) : ~(ws[l].st = st /\ ws[l].i = i)
<1>1. j \in 0 .. Len(ws) /\ IsLast(j)
  BY DEF To
<1>2. ASSUME NEW k \in 0 .. Len(ws), IsLast(k) PROVE k = j
  <2>1. ~(k > j)
    BY <1>2 DEF To
  <2>2. ~(k < j)
    BY <1>2 DEF To
  <2>3. QED
    BY <2>1, <2>2
<1>3. LastTo(ws, st, i) = CHOOSE k \in 0 .. Len(ws) : IsLast(k)
  BY DEF LastTo
<1> HIDE DEF IsLast
<1>4. QED
  BY <1>1, <1>2, <1>3

LEMMA NoWrite ==
  ASSUME NEW ws \in Seq(Writes), NEW st, NEW i, \A l \in 1 .. Len(ws) : ~To(ws[l], st, i)
  PROVE  LastTo(ws, st, i) = 0
<1> DEFINE IsLast(k) == /\ k > 0 => ws[k].st = st /\ ws[k].i = i
                        /\ \A l \in (k + 1) .. Len(ws) : ~(ws[l].st = st /\ ws[l].i = i)
<1>1. 0 \in 0 .. Len(ws) /\ IsLast(0)
  BY DEF To
<1>2. ASSUME NEW k \in 0 .. Len(ws), IsLast(k) PROVE k = 0
  BY <1>2 DEF To
<1>3. LastTo(ws, st, i) = CHOOSE k \in 0 .. Len(ws) : IsLast(k)
  BY DEF LastTo
<1> HIDE DEF IsLast
<1>4. QED
  BY <1>1, <1>2, <1>3

LEMMA SomeLast ==
  ASSUME NEW ws \in Seq(Writes), NEW st, NEW i
  PROVE  \/ \A l \in 1 .. Len(ws) : ~To(ws[l], st, i)
         \/ \E j \in 1 .. Len(ws) : /\ To(ws[j], st, i)
                                    /\ \A l \in (j + 1) .. Len(ws) : ~To(ws[l], st, i)
<1> DEFINE T == {l \in 1 .. Len(ws) : To(ws[l], st, i)}
<1>1. T \subseteq 0 .. Len(ws) /\ Len(ws) \in Nat
  OBVIOUS
<1>2. CASE T = {}
  BY <1>2
<1>3. CASE T # {}
  <2>1. PICK j \in T : \A l \in T : l <= j
    <3> HIDE DEF T
    <3>1. QED
      BY <1>1, <1>3, Greatest
  <2>2. \A l \in (j + 1) .. Len(ws) : l \notin T
    BY <1>1, <2>1
  <2>3. QED
    BY <2>1, <2>2
<1>4. QED
  BY <1>2, <1>3

LEMMA AfterLast ==
  ASSUME NEW ws \in Seq(Writes), NEW f \in Refs, NEW st, NEW i \in Indexes, NEW j \in 1 .. Len(ws),
         To(ws[j], st, i), \A l \in (j + 1) .. Len(ws) : ~To(ws[l], st, i)
  PROVE  After(st, f, ws)[i] = ws[j].snap
<1>1. LastTo(ws, st, i) = j /\ j # 0 /\ ws # <<>>
  BY LastWrite
<1>2. QED
  BY <1>1 DEF After

LEMMA AfterNone ==
  ASSUME NEW ws \in Seq(Writes), NEW f \in Refs, NEW st, NEW i \in Indexes,
         \A l \in 1 .. Len(ws) : ~To(ws[l], st, i)
  PROVE  After(st, f, ws)[i] = f[i]
<1>1. LastTo(ws, st, i) = 0
  BY NoWrite
<1>2. QED
  BY <1>1 DEF After

LEMMA AfterType ==
  ASSUME NEW ws \in Seq(Writes), NEW f \in Refs, NEW st
  PROVE  After(st, f, ws) \in Refs
<1>1. ASSUME NEW i \in Indexes PROVE After(st, f, ws)[i] \in Entries
  <2>1. CASE \A l \in 1 .. Len(ws) : ~To(ws[l], st, i)
    <3>1. After(st, f, ws)[i] = f[i]
      BY <2>1, AfterNone
    <3>2. QED
      BY <3>1 DEF Refs
  <2>2. ASSUME NEW j \in 1 .. Len(ws), To(ws[j], st, i),
               \A l \in (j + 1) .. Len(ws) : ~To(ws[l], st, i)
        PROVE  After(st, f, ws)[i] \in Entries
    <3>1. After(st, f, ws)[i] = ws[j].snap
      BY <2>2, AfterLast
    <3>2. ws[j] \in Writes
      BY <2>2
    <3>3. QED
      BY <3>1, <3>2 DEF Writes
  <2>3. QED
    BY <2>1, <2>2, SomeLast
<1>2. DOMAIN After(st, f, ws) = Indexes /\ After(st, f, ws) = [i \in Indexes |-> After(st, f, ws)[i]]
  BY DEF After, Refs
<1>3. QED
  BY <1>1, <1>2 DEF Refs

LEMMA SameRefs ==
  ASSUME NEW f \in Refs, NEW g \in Refs, \A i \in Indexes : f[i] = g[i]
  PROVE  f = g
BY DEF Refs

(* Writes that do not touch a stack leave it *)
LEMMA AfterOthers ==
  ASSUME NEW ws \in Seq(Writes), NEW f \in Refs, NEW st, \A l \in 1 .. Len(ws) : ws[l].st # st
  PROVE  After(st, f, ws) = f
<1>1. ASSUME NEW i \in Indexes PROVE After(st, f, ws)[i] = f[i]
  BY <1>1, AfterNone DEF To
<1>2. QED
  BY <1>1, AfterType, SameRefs

LEMMA ConcatFacts ==
  ASSUME NEW a \in Seq(Writes), NEW b \in Seq(Writes)
  PROVE  /\ a \o b \in Seq(Writes) /\ Len(a) \in Nat /\ Len(b) \in Nat
         /\ Len(a \o b) = Len(a) + Len(b)
         /\ \A l \in 1 .. Len(a) : (a \o b)[l] = a[l]
         /\ \A l \in 1 .. Len(b) : (a \o b)[Len(a) + l] = b[l]
OBVIOUS

(* One list after the other *)
LEMMA AfterConcat ==
  ASSUME NEW a \in Seq(Writes), NEW b \in Seq(Writes), NEW f \in Refs, NEW st
  PROVE  After(st, f, a \o b) = After(st, After(st, f, a), b)
<1> DEFINE c == a \o b
           g == After(st, f, a)
<1>1. /\ c \in Seq(Writes) /\ Len(a) \in Nat /\ Len(b) \in Nat /\ Len(c) = Len(a) + Len(b)
      /\ \A l \in 1 .. Len(a) : c[l] = a[l]
      /\ \A l \in 1 .. Len(b) : c[Len(a) + l] = b[l]
  BY ConcatFacts
<1>2. g \in Refs
  BY AfterType
<1>3. \A l \in (Len(a) + 1) .. Len(c) : l - Len(a) \in 1 .. Len(b) /\ c[l] = b[l - Len(a)]
  BY <1>1
<1> HIDE DEF c
<1>4. ASSUME NEW i \in Indexes PROVE After(st, f, c)[i] = After(st, g, b)[i]
  <2>1. ASSUME NEW j \in 1 .. Len(b), To(b[j], st, i),
               \A l \in (j + 1) .. Len(b) : ~To(b[l], st, i)
        PROVE  After(st, f, c)[i] = After(st, g, b)[i]
    <3> DEFINE k == Len(a) + j
    <3>1. k \in 1 .. Len(c) /\ c[k] = b[j]
      BY <1>1
    <3>2. \A l \in (k + 1) .. Len(c) : ~To(c[l], st, i)
      BY <1>1, <1>3, <2>1
    <3> HIDE DEF k
    <3>a. To(c[k], st, i)
      BY <2>1, <3>1
    <3>3. After(st, f, c)[i] = b[j].snap
      <4>0. c \in Seq(Writes) /\ k \in 1 .. Len(c)
        BY <1>1, <3>1
      <4>1. After(st, f, c)[i] = c[k].snap
        BY <3>2, <3>a, <4>0, AfterLast
      <4>2. QED
        BY <3>1, <4>1
    <3>4. After(st, g, b)[i] = b[j].snap
      BY <1>2, <2>1, AfterLast
    <3>5. QED
      BY <3>3, <3>4
  <2>2. ASSUME \A l \in 1 .. Len(b) : ~To(b[l], st, i) PROVE After(st, f, c)[i] = After(st, g, b)[i]
    <3>1. After(st, g, b)[i] = g[i]
      BY <1>2, <2>2, AfterNone
    <3>2. \A l \in (Len(a) + 1) .. Len(c) : ~To(c[l], st, i)
      BY <1>3, <2>2
    <3>3. ASSUME NEW j \in 1 .. Len(a), To(a[j], st, i),
                 \A l \in (j + 1) .. Len(a) : ~To(a[l], st, i)
          PROVE  After(st, f, c)[i] = g[i]
      <4>1. g[i] = a[j].snap
        BY <3>3, AfterLast
      <4>a. j \in 1 .. Len(c) /\ c[j] = a[j]
        BY <1>1
      <4>b. ASSUME NEW l \in (j + 1) .. Len(c) PROVE ~To(c[l], st, i)
        <5>1. CASE l \in 1 .. Len(a)
          BY <1>1, <3>3, <5>1
        <5>2. CASE l \in (Len(a) + 1) .. Len(c)
          BY <3>2, <5>2
        <5>3. QED
          BY <1>1, <5>1, <5>2
      <4>2. j \in 1 .. Len(c) /\ c[j] = a[j] /\ \A l \in (j + 1) .. Len(c) : ~To(c[l], st, i)
        BY <4>a, <4>b
      <4>3. After(st, f, c)[i] = c[j].snap
        <5>1. c \in Seq(Writes) /\ To(c[j], st, i)
          BY <1>1, <3>3, <4>a
        <5>2. QED
          BY <4>2, <5>1, AfterLast
      <4>4. QED
        BY <4>1, <4>2, <4>3
    <3>4. ASSUME \A l \in 1 .. Len(a) : ~To(a[l], st, i) PROVE After(st, f, c)[i] = g[i]
      <4>1. g[i] = f[i]
        BY <3>4, AfterNone
      <4>2. \A l \in 1 .. Len(c) : ~To(c[l], st, i)
        BY <1>1, <3>2, <3>4
      <4>3. QED
        BY <1>1, <4>1, <4>2, AfterNone
    <3>5. QED
      BY <3>1, <3>3, <3>4, SomeLast
  <2>3. QED
    BY <2>1, <2>2, SomeLast
<1>5. After(st, f, c) \in Refs /\ After(st, g, b) \in Refs
  BY <1>1, <1>2, AfterType
<1>6. After(st, f, c) = After(st, g, b)
  BY <1>4, <1>5, SameRefs
<1>7. QED
  BY <1>6 DEF c

(* One write *)
Written(st, f, w) == IF w.st = st THEN [f EXCEPT ![w.i] = w.snap] ELSE f

LEMMA AfterOne ==
  ASSUME NEW w \in Writes, NEW f \in Refs, NEW st
  PROVE  After(st, f, <<w>>) = Written(st, f, w) /\ Written(st, f, w) \in Refs
<1> DEFINE ws == <<w>>
<1>1. ws \in Seq(Writes) /\ Len(ws) = 1 /\ ws[1] = w
  OBVIOUS
<1> HIDE DEF ws
<1>2. Written(st, f, w) \in Refs
  BY DEF Written, Refs, Writes
<1>3. ASSUME NEW i \in Indexes PROVE After(st, f, ws)[i] = Written(st, f, w)[i]
  <2>1. CASE To(w, st, i)
    <3>a. 1 \in 1 .. Len(ws) /\ To(ws[1], st, i) /\ \A l \in 2 .. Len(ws) : ~To(ws[l], st, i)
      BY <1>1, <2>1
    <3>1. After(st, f, ws)[i] = ws[1].snap
      BY <1>1, <3>a, AfterLast
    <3>2. QED
      BY <1>1, <2>1, <3>1 DEF To, Written, Refs
  <2>2. CASE ~To(w, st, i)
    <3>1. After(st, f, ws)[i] = f[i]
      BY <1>1, <2>2, AfterNone
    <3>2. QED
      BY <2>2, <3>1 DEF To, Written, Refs
  <2>3. QED
    BY <2>1, <2>2
<1>4. After(st, f, ws) = Written(st, f, w)
  BY <1>1, <1>2, <1>3, AfterType, SameRefs
<1>5. QED
  BY <1>2, <1>4 DEF ws

LEMMA AfterHead ==
  ASSUME NEW ws \in Seq(Writes), ws # <<>>, NEW f \in Refs, NEW st
  PROVE  After(st, Written(st, f, Head(ws)), Tail(ws)) = After(st, f, ws)
<1> DEFINE w == Head(ws)
           a == <<w>>
           b == Tail(ws)
<1>1. w \in Writes /\ b \in Seq(Writes) /\ a \in Seq(Writes) /\ ws = a \o b
  OBVIOUS
<1>2. After(st, f, a) = Written(st, f, w)
  BY <1>1, AfterOne
<1> HIDE DEF w, a, b
<1>3. After(st, f, a \o b) = After(st, After(st, f, a), b)
  BY <1>1, AfterConcat
<1>4. After(st, Written(st, f, w), b) = After(st, f, ws)
  BY <1>1, <1>2, <1>3, Zenon
<1>5. QED
  BY <1>4 DEF w, b

-----------------------------------------------------------------------------
(* What the lists of the stack operations do to a stack without holes. *)

Shape(f, n) == \A i \in Indexes : f[i] # None <=> i < n

Pushed(f, s) == [i \in Indexes |-> IF i = 0 THEN s ELSE f[i - 1]]
CutAt(f, a) == [i \in Indexes |-> IF i < a THEN f[i] ELSE None]

LEMMA IndexFacts ==
  /\ Indexes = 0 .. (MaxStack + MaxFaults) /\ MaxStack \in Nat \ {0} /\ MaxFaults \in Nat
  /\ Cardinality(Indexes) = MaxStack + MaxFaults + 1
  /\ \A i \in Indexes : i \in Nat
BY CheckpointsAssumption, FS_Interval DEF Indexes

LEMMA RunIs ==
  ASSUME NEW f \in Refs, NEW n \in 0 .. (MaxStack + 1), Shape(f, n), NEW a \in 0 .. MaxStack,
         n <= MaxStack + MaxFaults + 1
  PROVE  RunFrom(f, a) = IF a < n THEN n - a ELSE 0
<1> DEFINE r == IF a < n THEN n - a ELSE 0
           Run(m) == /\ a + m \notin Indexes \/ f[a + m] = None
                     /\ \A i \in a .. (a + m - 1) : i \in Indexes /\ f[i] # None
<1>0. n \in Nat /\ a \in Nat /\ r \in Nat /\ r <= MaxStack + MaxFaults + 1 /\ a + r >= n
      /\ (r > 0 => a + r = n)
  BY IndexFacts
<1> HIDE DEF r
<1>1. r \in 0 .. Cardinality(Indexes)
  BY <1>0, IndexFacts
<1>2. Run(r)
  <2>1. a + r \notin Indexes \/ f[a + r] = None
    BY <1>0 DEF Shape
  <2>2. ASSUME NEW i \in a .. (a + r - 1) PROVE i \in Indexes /\ f[i] # None
    <3>1. i \in Nat /\ i < n
      BY <1>0, <2>2
    <3>2. i \in Indexes
      BY <3>1, IndexFacts
    <3>3. QED
      BY <3>1, <3>2 DEF Shape
  <2>3. QED
    BY <2>1, <2>2
<1>3. ASSUME NEW m \in 0 .. Cardinality(Indexes), Run(m) PROVE m = r
  <2>0. m \in Nat
    BY IndexFacts
  <2>1. ASSUME m < r PROVE FALSE
    <3>1. a + m < n /\ a + m \in Nat
      BY <1>0, <2>0, <2>1
    <3>2. a + m \in Indexes
      BY <3>1, IndexFacts
    <3>3. QED
      BY <1>3, <3>1, <3>2 DEF Shape
  <2>2. ASSUME m > r PROVE FALSE
    <3>1. a + r \in a .. (a + m - 1)
      BY <1>0, <2>0, <2>2
    <3>2. a + r \in Indexes /\ f[a + r] # None
      BY <1>3, <3>1
    <3>3. a + r < n
      BY <3>2 DEF Shape
    <3>4. QED
      BY <1>0, <3>3
  <2>3. QED
    BY <1>0, <2>0, <2>1, <2>2
<1>4. RunFrom(f, a) = CHOOSE m \in 0 .. Cardinality(Indexes) : Run(m)
  BY DEF RunFrom
<1> HIDE DEF Run
<1>5. RunFrom(f, a) = r
  BY <1>1, <1>2, <1>3, <1>4
<1>6. QED
  BY <1>5 DEF r

LEMMA WriteFacts ==
  ASSUME NEW st \in Stacks \cup {"snap"}, NEW i \in Nat, NEW s \in Entries
  PROVE  /\ Write(st, i, s) \in Writes /\ Write(st, i, s).st = st
         /\ Write(st, i, s).i = i /\ Write(st, i, s).snap = s
BY DEF Write, Writes

LEMMA ListFacts ==
  ASSUME NEW n \in Nat, NEW f \in [1 .. n -> Writes]
  PROVE  f \in Seq(Writes) /\ Len(f) = n
OBVIOUS

(* _prune_stack and _stack_clear *)
LEMMA DropIs ==
  ASSUME NEW st \in Stacks, NEW f \in Refs, NEW n \in 0 .. (MaxStack + 1), Shape(f, n),
         n <= MaxStack + MaxFaults + 1, NEW a \in 0 .. MaxStack
  PROVE  LET d == DropWrites(st, f, a) IN
         /\ d \in Seq(Writes) /\ \A l \in 1 .. Len(d) : d[l].st = st
         /\ After(st, f, d) = CutAt(f, a)
<1> DEFINE r == RunFrom(f, a)
           d == [i \in 1 .. r |-> Delete(st, a + i - 1)]
<1>1. r \in Nat /\ r = IF a < n THEN n - a ELSE 0
  BY RunIs, IndexFacts
<1> HIDE DEF r
<1>2. ASSUME NEW i \in 1 .. r
      PROVE  /\ d[i] \in Writes /\ d[i].st = st /\ d[i].i = a + i - 1 /\ d[i].snap = None
  <2>1. a + i - 1 \in Nat /\ None \in Entries /\ d[i] = Write(st, a + i - 1, None)
    BY <1>1, <1>2 DEF Delete, Entries
  <2>2. QED
    BY <2>1, WriteFacts
<1>3. d \in Seq(Writes) /\ Len(d) = r
  BY <1>1, <1>2, ListFacts
<1>4. CutAt(f, a) \in Refs
  BY DEF CutAt, Refs, Entries
<1> HIDE DEF d
<1>5. ASSUME NEW x \in Indexes PROVE After(st, f, d)[x] = CutAt(f, a)[x]
  <2>0. x \in Nat /\ a \in Nat /\ n \in Nat /\ (f[x] # None <=> x < n)
        /\ CutAt(f, a)[x] = IF x < a THEN f[x] ELSE None
    BY IndexFacts DEF Shape, CutAt
  <2>1. CASE a <= x /\ x < a + r
    <3> DEFINE j == x - a + 1
    <3>1. j \in 1 .. Len(d) /\ a + j - 1 = x /\ \A l \in (j + 1) .. Len(d) : l \in 1 .. r /\ a + l - 1 # x
      BY <1>1, <1>3, <2>0, <2>1
    <3> HIDE DEF j
    <3>2. To(d[j], st, x) /\ d[j].snap = None /\ \A l \in (j + 1) .. Len(d) : ~To(d[l], st, x)
      BY <1>2, <1>3, <3>1 DEF To
    <3>3. After(st, f, d)[x] = None
      BY <1>3, <3>1, <3>2, AfterLast
    <3>4. QED
      BY <2>0, <2>1, <3>3
  <2>2. CASE ~(a <= x /\ x < a + r)
    <3>1. \A l \in 1 .. Len(d) : ~To(d[l], st, x)
      BY <1>1, <1>2, <1>3, <2>0, <2>2 DEF To
    <3>2. After(st, f, d)[x] = f[x]
      BY <1>3, <3>1, AfterNone
    <3>3. x >= a => f[x] = None
      BY <1>1, <2>0, <2>2
    <3>4. QED
      BY <2>0, <3>2, <3>3
  <2>3. QED
    BY <2>1, <2>2
<1>6. After(st, f, d) = CutAt(f, a)
  BY <1>3, <1>4, <1>5, AfterType, SameRefs
<1>7. DropWrites(st, f, a) = d
  BY DEF DropWrites, d, r
<1>8. QED
  BY <1>2, <1>3, <1>6, <1>7

(* _stack_push *)
LEMMA PushIs ==
  ASSUME NEW st \in Stacks, NEW f \in Refs, NEW n \in 0 .. MaxStack, Shape(f, n), NEW s \in Entries
  PROVE  LET d == PushWrites(st, f, s) IN
         /\ d \in Seq(Writes) /\ \A l \in 1 .. Len(d) : d[l].st = st
         /\ After(st, f, d) = Pushed(f, s)
<1> DEFINE q == [i \in 1 .. n |-> Write(st, n - i + 1, f[n - i])]
           w == Write(st, 0, s)
           one == <<w>>
           d == q \o one
<1>0. n \in Nat /\ n <= MaxStack /\ 0 \in Indexes /\ \A i \in 0 .. n : i \in Indexes
  BY IndexFacts
<1>1. RunFrom(f, 0) = n
  BY <1>0, RunIs, IndexFacts
<1>2. PushWrites(st, f, s) = d
  BY <1>1 DEF PushWrites
<1>3. ASSUME NEW i \in 1 .. n
      PROVE  /\ q[i] \in Writes /\ q[i].st = st /\ q[i].i = n - i + 1 /\ q[i].snap = f[n - i]
  <2>1. n - i + 1 \in Nat /\ n - i \in Indexes
    BY <1>0
  <2>2. f[n - i] \in Entries
    BY <2>1 DEF Refs
  <2>3. q[i] = Write(st, n - i + 1, f[n - i])
    OBVIOUS
  <2>4. QED
    BY <2>1, <2>2, <2>3, WriteFacts
<1>4. q \in Seq(Writes) /\ Len(q) = n
  BY <1>0, <1>3, ListFacts
<1>5. w \in Writes /\ w.st = st /\ w.i = 0 /\ w.snap = s
  BY WriteFacts
<1>6. one \in Seq(Writes) /\ Len(one) = 1 /\ one[1] = w
  BY <1>5
<1>7. Pushed(f, s) \in Refs
  <2>1. ASSUME NEW i \in Indexes PROVE (IF i = 0 THEN s ELSE f[i - 1]) \in Entries
    <3>1. i # 0 => i - 1 \in Indexes
      BY IndexFacts
    <3>2. QED
      BY <3>1 DEF Refs
  <2>2. QED
    BY <2>1 DEF Pushed, Refs
<1> HIDE DEF q, w
<1>8. After(st, f, one) = Written(st, f, w) /\ \A g \in Refs : After(st, g, one) = Written(st, g, w)
  BY <1>5, AfterOne
<1> HIDE DEF one
<1>9. d \in Seq(Writes) /\ \A l \in 1 .. Len(d) : d[l].st = st
  <2>1. /\ Len(d) = n + 1 /\ d \in Seq(Writes)
        /\ \A l \in 1 .. n : d[l] = q[l]
        /\ d[n + 1] = one[1]
    <3>1. /\ d \in Seq(Writes) /\ Len(d) = Len(q) + Len(one)
          /\ \A l \in 1 .. Len(q) : d[l] = q[l]
          /\ \A l \in 1 .. Len(one) : d[Len(q) + l] = one[l]
      BY <1>4, <1>6, ConcatFacts
    <3> HIDE DEF d
    <3>2. d[Len(q) + 1] = one[1]
      BY <1>6, <3>1
    <3>3. QED
      BY <1>4, <1>6, <3>1, <3>2
  <2> HIDE DEF d
  <2>2. ASSUME NEW l \in 1 .. Len(d) PROVE d[l].st = st
    <3>1. CASE l \in 1 .. n
      BY <1>3, <2>1, <3>1
    <3>2. CASE l = n + 1
      BY <1>5, <1>6, <2>1, <3>2
    <3>3. QED
      BY <1>0, <2>1, <3>1, <3>2
  <2>3. QED
    BY <2>1, <2>2
<1> DEFINE g == After(st, f, q)
<1>10. g \in Refs
  BY <1>4, AfterType
<1>11. ASSUME NEW x \in Indexes PROVE g[x] = IF x \in 1 .. n THEN f[x - 1] ELSE f[x]
  <2>0. x \in Nat
    BY IndexFacts
  <2>1. CASE x \in 1 .. n
    <3> DEFINE j == n - x + 1
    <3>1. /\ j \in 1 .. Len(q) /\ j \in 1 .. n /\ n - j + 1 = x /\ n - j = x - 1
          /\ \A l \in (j + 1) .. Len(q) : l \in 1 .. n /\ n - l + 1 # x
      BY <1>0, <1>4, <2>0, <2>1
    <3> HIDE DEF j
    <3>2. To(q[j], st, x) /\ q[j].snap = f[x - 1] /\ \A l \in (j + 1) .. Len(q) : ~To(q[l], st, x)
      BY <1>3, <3>1 DEF To
    <3>3. g[x] = f[x - 1]
      BY <1>4, <3>1, <3>2, AfterLast
    <3>4. QED
      BY <2>1, <3>3
  <2>2. CASE x \notin 1 .. n
    <3>1. \A l \in 1 .. n : n - l + 1 # x
      BY <1>0, <2>0, <2>2
    <3>2. \A l \in 1 .. Len(q) : ~To(q[l], st, x)
      BY <1>3, <1>4, <3>1 DEF To
    <3>3. g[x] = f[x]
      BY <1>4, <3>2, AfterNone
    <3>4. QED
      BY <2>2, <3>3
  <2>3. QED
    BY <2>1, <2>2
<1> HIDE DEF g
<1>12. Written(st, g, w) = [g EXCEPT ![0] = s]
  BY <1>5 DEF Written
<1>13. ASSUME NEW x \in Indexes PROVE Written(st, g, w)[x] = Pushed(f, s)[x]
  <2>1. CASE x = 0
    BY <1>10, <1>12, <2>1 DEF Pushed, Refs
  <2>2. CASE x # 0
    <3>0. x \in Nat /\ x - 1 \in Indexes /\ Pushed(f, s)[x] = f[x - 1]
      BY <2>2, IndexFacts DEF Pushed
    <3>1. Written(st, g, w)[x] = g[x]
      BY <1>10, <1>12, <2>2 DEF Refs
    <3>2. x > n => f[x] = None /\ f[x - 1] = None
      BY <1>0, <3>0 DEF Shape
    <3>3. QED
      BY <1>0, <1>11, <2>2, <3>0, <3>1, <3>2
  <2>3. QED
    BY <2>1, <2>2
<1>14. Written(st, g, w) \in Refs
  BY <1>5, <1>10, AfterOne
<1>15. After(st, g, one) = Pushed(f, s)
  BY <1>7, <1>8, <1>10, <1>13, <1>14, SameRefs
<1>16. After(st, f, d) = After(st, g, one)
  BY <1>4, <1>6, AfterConcat DEF g
<1>17. QED
  BY <1>2, <1>9, <1>15, <1>16

LEMMA Halves ==
  ASSUME NEW m \in Nat
  PROVE  /\ \A i \in 1 .. m : /\ 2 * i - 1 \in 1 .. 2 * m /\ 2 * i \in 1 .. 2 * m
                              /\ ((2 * i - 1) + 1) \div 2 = i /\ (2 * i - 1) % 2 = 1
                              /\ (2 * i + 1) \div 2 = i /\ (2 * i) % 2 = 0
         /\ \A l \in 1 .. 2 * m : \E i \in 1 .. m : l = 2 * i - 1 \/ l = 2 * i
<1>1. \A i \in 1 .. m : /\ 2 * i - 1 \in 1 .. 2 * m /\ 2 * i \in 1 .. 2 * m
                        /\ ((2 * i - 1) + 1) \div 2 = i /\ (2 * i - 1) % 2 = 1
                        /\ (2 * i + 1) \div 2 = i /\ (2 * i) % 2 = 0
  OBVIOUS
<1>2. ASSUME NEW l \in 1 .. 2 * m PROVE \E i \in 1 .. m : l = 2 * i - 1 \/ l = 2 * i
  <2> DEFINE h == (l + 1) \div 2
  <2>1. h \in 1 .. m /\ (l = 2 * h - 1 \/ l = 2 * h)
    OBVIOUS
  <2>2. QED
    BY <2>1
<1>3. QED
  BY <1>1, <1>2

(* _stack_pop *)
LEMMA PopIs ==
  ASSUME NEW st \in Stacks, NEW f \in Refs, NEW n \in 1 .. MaxStack, Shape(f, n)
  PROVE  LET d == PopWrites(st, f) IN
         /\ d \in Seq(Writes) /\ \A l \in 1 .. Len(d) : d[l].st = st
         /\ After(st, f, d) = Popped(f)
<1> DEFINE m == n - 1
           w == Delete(st, 0)
           one == <<w>>
           q == [j \in 1 .. 2 * m |->
                   LET i == (j + 1) \div 2
                   IN  IF j % 2 = 1 THEN Write(st, i - 1, f[i]) ELSE Delete(st, i)]
           d == one \o q
<1>0. n \in Nat /\ n <= MaxStack /\ m \in Nat /\ 0 \in Indexes /\ \A i \in 0 .. n : i \in Indexes
  BY IndexFacts
<1>1. RunFrom(f, 0) = n
  BY <1>0, RunIs, IndexFacts
<1>2. PopWrites(st, f) = d
  BY <1>1 DEF PopWrites
<1>3. None \in Entries
  BY DEF Entries
<1>4. w \in Writes /\ w.st = st /\ w.i = 0 /\ w.snap = None
  BY <1>3, WriteFacts DEF Delete
<1>5. one \in Seq(Writes) /\ Len(one) = 1 /\ one[1] = w
  BY <1>4
<1> DEFINE odd(i) == 2 * i - 1
           even(i) == 2 * i
<1>6. /\ \A i \in 1 .. m : odd(i) \in 1 .. 2 * m /\ even(i) \in 1 .. 2 * m
      /\ \A l \in 1 .. 2 * m : \E i \in 1 .. m : l = odd(i) \/ l = even(i)
  BY <1>0, Halves
<1>7. ASSUME NEW i \in 1 .. m PROVE q[odd(i)] = Write(st, i - 1, f[i]) /\ q[even(i)] = Delete(st, i)
  <2>1. /\ 2 * i - 1 \in 1 .. 2 * m /\ 2 * i \in 1 .. 2 * m
        /\ ((2 * i - 1) + 1) \div 2 = i /\ (2 * i - 1) % 2 = 1
        /\ (2 * i + 1) \div 2 = i /\ (2 * i) % 2 = 0
    BY <1>0, <1>7, Halves
  <2>2. QED
    BY <2>1
<1> HIDE DEF q, m, w
<1>8. ASSUME NEW i \in 1 .. m
      PROVE  /\ q[odd(i)] \in Writes /\ q[odd(i)].st = st
             /\ q[odd(i)].i = i - 1 /\ q[odd(i)].snap = f[i]
             /\ q[even(i)] \in Writes /\ q[even(i)].st = st
             /\ q[even(i)].i = i /\ q[even(i)].snap = None
  <2>1. i \in Nat /\ i - 1 \in Nat /\ i \in Indexes
    BY <1>0 DEF m
  <2>2. f[i] \in Entries
    BY <2>1 DEF Refs
  <2>3. QED
    BY <1>3, <1>7, <2>1, <2>2, WriteFacts DEF Delete
<1>9. q \in Seq(Writes) /\ Len(q) = 2 * m /\ \A l \in 1 .. 2 * m : q[l].st = st
  <2>1. \A l \in 1 .. 2 * m : q[l] \in Writes /\ q[l].st = st
    BY <1>6, <1>8
  <2>2. q \in [1 .. 2 * m -> Writes] /\ 2 * m \in Nat
    BY <1>0, <2>1 DEF q
  <2>3. QED
    BY <2>1, <2>2, ListFacts
<1>10. d \in Seq(Writes) /\ \A l \in 1 .. Len(d) : d[l].st = st
  <2>1. /\ d \in Seq(Writes) /\ Len(d) = Len(one) + Len(q)
        /\ \A l \in 1 .. Len(one) : d[l] = one[l]
        /\ \A l \in 1 .. Len(q) : d[Len(one) + l] = q[l]
    BY <1>5, <1>9, ConcatFacts
  <2> HIDE DEF d, one
  <2>2. ASSUME NEW l \in 1 .. Len(d) PROVE d[l].st = st
    <3>1. CASE l = 1
      BY <1>4, <1>5, <2>1, <3>1
    <3>2. CASE l # 1
      <4>1. l - 1 \in 1 .. Len(q) /\ l = Len(one) + (l - 1)
        BY <1>0, <1>5, <1>9, <2>1, <3>2
      <4>2. d[l] = q[l - 1]
        BY <2>1, <4>1
      <4>3. QED
        BY <1>9, <4>1, <4>2
    <3>3. QED
      BY <3>1, <3>2
  <2>3. QED
    BY <2>1, <2>2
<1> DEFINE g == Written(st, f, w)
<1>11. g \in Refs /\ After(st, f, one) = g
  BY <1>4, AfterOne
<1>12. \A x \in Indexes : g[x] = IF x = 0 THEN None ELSE f[x]
  BY <1>4 DEF Written, Refs
<1>13. Popped(f) \in Refs
  BY DEF Popped, Refs, Entries
<1> HIDE DEF g, one, odd, even
<1>14. ASSUME NEW x \in Indexes PROVE After(st, g, q)[x] = Popped(f)[x]
  <2>0. x \in Nat /\ Popped(f)[x] = IF x + 1 \in Indexes THEN f[x + 1] ELSE None
    BY IndexFacts DEF Popped
  <2>1. CASE x < m
    <3> DEFINE j == odd(x + 1)
    <3>1. x + 1 \in 1 .. m /\ x + 1 \in Indexes
      BY <1>0, <2>0, <2>1 DEF m
    <3>2. j \in 1 .. Len(q) /\ q[j].st = st /\ q[j].i = x /\ q[j].snap = f[x + 1]
      <4>1. q[j].i = (x + 1) - 1
        BY <1>8, <3>1
      <4>2. QED
        BY <1>6, <1>8, <1>9, <2>0, <3>1, <4>1
    <3>3. ASSUME NEW l \in (j + 1) .. Len(q) PROVE ~To(q[l], st, x)
      <4>1. l \in 1 .. 2 * m
        BY <1>0, <1>9, <2>0, <3>3 DEF odd
      <4>2. PICK i \in 1 .. m : l = odd(i) \/ l = even(i)
        BY <1>6, <4>1
      <4>3. l = odd(i) => i # x + 1
        BY <1>0, <2>0, <3>3 DEF odd
      <4>4. l = even(i) => i # x
        BY <1>0, <2>0, <3>3 DEF odd, even
      <4>5. i \in Nat
        BY <1>0
      <4>6. CASE l = odd(i)
        <5>1. q[l].i = i - 1
          BY <1>8, <4>2, <4>6
        <5>2. q[l].i # x
          BY <2>0, <4>3, <4>5, <4>6, <5>1
        <5>3. QED
          BY <5>2 DEF To
      <4>7. CASE l = even(i)
        BY <1>8, <4>2, <4>4, <4>7 DEF To
      <4>8. QED
        BY <4>2, <4>6, <4>7
    <3> HIDE DEF j
    <3>4. After(st, g, q)[x] = q[j].snap
      BY <1>9, <1>11, <3>2, <3>3, AfterLast DEF To
    <3>5. QED
      BY <2>0, <3>1, <3>2, <3>4
  <2>2. CASE x = m /\ m > 0
    <3> DEFINE j == even(m)
    <3>1. m \in 1 .. m
      BY <1>0, <2>2
    <3>2. j \in 1 .. Len(q) /\ q[j].st = st /\ q[j].i = x /\ q[j].snap = None
      BY <1>6, <1>8, <1>9, <2>2, <3>1
    <3>3. \A l \in (j + 1) .. Len(q) : ~To(q[l], st, x)
      BY <1>0, <1>9 DEF even
    <3> HIDE DEF j
    <3>4. After(st, g, q)[x] = None
      BY <1>9, <1>11, <3>2, <3>3, AfterLast DEF To
    <3>5. x + 1 \in Indexes => f[x + 1] = None
      BY <1>0, <2>0, <2>2 DEF Shape, m
    <3>6. QED
      BY <2>0, <3>4, <3>5
  <2>3. CASE x > m \/ m = 0
    <3>1. ASSUME NEW l \in 1 .. Len(q) PROVE ~To(q[l], st, x)
      <4>1. PICK i \in 1 .. m : l = odd(i) \/ l = even(i)
        BY <1>6, <1>9
      <4>2. i \in Nat /\ i <= m /\ m > 0 /\ x > m
        BY <1>0, <2>0, <2>3
      <4>3. q[l].i \in {i - 1, i}
        BY <1>8, <4>1
      <4>4. QED
        BY <1>0, <2>0, <4>2, <4>3 DEF To
    <3>2. After(st, g, q)[x] = g[x]
      BY <1>9, <1>11, <3>1, AfterNone
    <3>3. g[x] = None
      <4>1. x # 0 => x >= n
        BY <1>0, <2>0, <2>3 DEF m
      <4>2. x # 0 => f[x] = None
        BY <1>0, <2>0, <4>1 DEF Shape
      <4>3. QED
        BY <1>12, <4>2
    <3>4. x + 1 \in Indexes => f[x + 1] = None
      BY <1>0, <2>0, <2>3 DEF Shape, m
    <3>5. QED
      BY <2>0, <3>2, <3>3, <3>4
  <2>4. QED
    BY <1>0, <2>0, <2>1, <2>2, <2>3
<1>15. After(st, g, q) = Popped(f)
  BY <1>9, <1>11, <1>13, <1>14, AfterType, SameRefs
<1>16. After(st, f, d) = After(st, g, q)
  BY <1>5, <1>9, <1>11, AfterConcat DEF d
<1>17. QED
  BY <1>2, <1>10, <1>15, <1>16

(* The snapshots a list stores *)
Stored(ws) == {w.snap : w \in {v \in ToSet(ws) : v.st = "snap"}}

(* A list that writes to one place only *)
Only(ws, st) == ws \in Seq(Writes) /\ \A l \in 1 .. Len(ws) : ws[l].st = st

LEMMA StoredIs ==
  ASSUME NEW ws \in Seq(Writes)
  PROVE  \A s : s \in Stored(ws) <=> \E l \in 1 .. Len(ws) : ws[l].st = "snap" /\ ws[l].snap = s
BY DEF Stored, ToSet

LEMMA StoredEmpty ==
  Stored(<<>>) = {} /\ <<>> \in Seq(Writes) /\ \A st, f : After(st, f, <<>>) = f
BY DEF Stored, ToSet, After

LEMMA OnlyFacts ==
  ASSUME NEW ws, NEW st, Only(ws, st)
  PROVE  /\ ws \in Seq(Writes)
         /\ \A o : o # st => \A g \in Refs : After(o, g, ws) = g
         /\ st \in Stacks => Stored(ws) = {}
<1>1. ws \in Seq(Writes) /\ \A l \in 1 .. Len(ws) : ws[l].st = st
  BY DEF Only
<1>2. ASSUME NEW o, o # st, NEW g \in Refs PROVE After(o, g, ws) = g
  BY <1>1, <1>2, AfterOthers
<1>3. ASSUME st \in Stacks PROVE Stored(ws) = {}
  <2>1. st # "snap"
    BY <1>3 DEF Stacks
  <2>2. \A s : s \notin Stored(ws)
    BY <1>1, <2>1, StoredIs
  <2>3. QED
    BY <2>2
<1>4. QED
  BY <1>1, <1>2, <1>3

LEMMA StoredConcat ==
  ASSUME NEW a \in Seq(Writes), NEW b \in Seq(Writes)
  PROVE  Stored(a \o b) = Stored(a) \cup Stored(b)
<1> DEFINE c == a \o b
<1>1. /\ c \in Seq(Writes) /\ Len(a) \in Nat /\ Len(b) \in Nat /\ Len(c) = Len(a) + Len(b)
      /\ \A l \in 1 .. Len(a) : c[l] = a[l]
      /\ \A l \in 1 .. Len(b) : c[Len(a) + l] = b[l]
  BY ConcatFacts
<1> HIDE DEF c
<1>2. /\ \A l \in 1 .. Len(a) : l \in 1 .. Len(c)
      /\ \A l \in 1 .. Len(b) : Len(a) + l \in 1 .. Len(c)
      /\ \A l \in 1 .. Len(c) : l \in 1 .. Len(a) \/ (l - Len(a) \in 1 .. Len(b) /\ l = Len(a) + (l - Len(a)))
  BY <1>1
<1>3. ASSUME NEW s \in Stored(a) PROVE s \in Stored(c)
  BY <1>1, <1>2, <1>3, StoredIs
<1>4. ASSUME NEW s \in Stored(b) PROVE s \in Stored(c)
  <2>1. PICK l \in 1 .. Len(b) : b[l].st = "snap" /\ b[l].snap = s
    BY <1>4, StoredIs
  <2>2. PICK k \in 1 .. Len(c) : c[k] = b[l]
    BY <1>1, <1>2
  <2>3. c[k].st = "snap" /\ c[k].snap = s
    BY <2>1, <2>2
  <2>4. QED
    BY <1>1, <2>3, StoredIs
<1>5. ASSUME NEW s \in Stored(c) PROVE s \in Stored(a) \cup Stored(b)
  <2>1. PICK l \in 1 .. Len(c) : c[l].st = "snap" /\ c[l].snap = s
    BY <1>1, <1>5, StoredIs
  <2>2. CASE l \in 1 .. Len(a)
    BY <1>1, <2>1, <2>2, StoredIs
  <2>3. CASE l - Len(a) \in 1 .. Len(b) /\ l = Len(a) + (l - Len(a))
    <3>1. c[l] = b[l - Len(a)]
      BY <1>1, <2>3
    <3>2. QED
      BY <2>1, <2>3, <3>1, StoredIs
  <2>4. QED
    BY <1>2, <2>2, <2>3
<1>6. Stored(c) = Stored(a) \cup Stored(b)
  BY <1>3, <1>4, <1>5
<1>7. QED
  BY <1>6 DEF c

LEMMA StoreIs ==
  ASSUME NEW s \in Snapshots
  PROVE  Only(<<Store(s)>>, "snap") /\ Stored(<<Store(s)>>) = {s}
<1> DEFINE w == Store(s)
           ws == <<w>>
<1>1. w \in Writes /\ w.st = "snap" /\ w.snap = s
  BY WriteFacts DEF Store, Entries
<1> HIDE DEF w
<1>2. ws \in Seq(Writes) /\ Len(ws) = 1 /\ ws[1] = w
  BY <1>1
<1> HIDE DEF ws
<1>3. \A l \in 1 .. Len(ws) : l = 1
  BY <1>2
<1>4. Only(ws, "snap")
  BY <1>1, <1>2, <1>3 DEF Only
<1>5. \A z : z \in Stored(ws) <=> z = s
  <2>1. 1 \in 1 .. Len(ws)
    BY <1>2
  <2>2. QED
    BY <1>1, <1>2, <1>3, <2>1, StoredIs
<1>6. Stored(ws) = {s}
  BY <1>5
<1>7. QED
  BY <1>4, <1>6 DEF ws, w

LEMMA PushedShape ==
  ASSUME NEW f \in Refs, NEW n \in 0 .. MaxStack, Shape(f, n), NEW s \in Snapshots
  PROVE  /\ Pushed(f, s) \in Refs /\ Shape(Pushed(f, s), n + 1)
         /\ n + 1 \in 0 .. (MaxStack + 1) /\ n + 1 <= MaxStack + MaxFaults + 1
<1>0. n \in Nat /\ s # None /\ s \in Entries
  BY CheckpointsAssumption, IndexFacts DEF Entries
<1>1. ASSUME NEW i \in Indexes
      PROVE  Pushed(f, s)[i] \in Entries /\ (Pushed(f, s)[i] # None <=> i < n + 1)
  <2>1. CASE i = 0
    BY <1>0, <2>1 DEF Pushed
  <2>2. CASE i # 0
    <3>1. i \in Nat /\ i - 1 \in Indexes
      BY <2>2, IndexFacts
    <3>2. Pushed(f, s)[i] = f[i - 1] /\ (f[i - 1] # None <=> i - 1 < n) /\ f[i - 1] \in Entries
      BY <2>2, <3>1 DEF Pushed, Shape, Refs
    <3>3. QED
      BY <1>0, <3>1, <3>2
  <2>3. QED
    BY <2>1, <2>2
<1>2. Pushed(f, s) = [i \in Indexes |-> Pushed(f, s)[i]]
  BY DEF Pushed
<1>3. QED
  BY <1>0, <1>1, <1>2, IndexFacts DEF Refs, Shape

(* A snapshot is stored, pushed, and the stack pruned *)
LEMMA SaveIs ==
  ASSUME NEW st \in Stacks, NEW f \in Refs, NEW n \in 0 .. MaxStack, Shape(f, n), NEW s \in Snapshots
  PROVE  LET d == SaveWrites(st, f, s) IN
         /\ d \in Seq(Writes) /\ Stored(d) = {s}
         /\ After(st, f, d) = CutAt(Pushed(f, s), MaxStack)
         /\ \A o \in Stacks : o # st => \A g \in Refs : After(o, g, d) = g
<1> DEFINE a == <<Store(s)>>
           b == PushWrites(st, f, s)
           h == Pushed(f, s)
           c == DropWrites(st, h, MaxStack)
           ab == a \o b
           d == ab \o c
<1>1. Only(a, "snap") /\ Stored(a) = {s}
  BY StoreIs
<1>2. Only(b, st) /\ After(st, f, b) = h
  BY PushIs DEF Only, Entries
<1>3. h \in Refs /\ Shape(h, n + 1) /\ n + 1 \in 0 .. (MaxStack + 1) /\ n + 1 <= MaxStack + MaxFaults + 1
  BY PushedShape
<1> HIDE DEF a, b, h
<1>4. Only(c, st) /\ After(st, h, c) = CutAt(h, MaxStack)
  BY <1>3, DropIs, IndexFacts DEF Only
<1>5. SaveWrites(st, f, s) = d
  BY <1>2 DEF SaveWrites, a, b, h
<1> HIDE DEF c
<1>6. /\ a \in Seq(Writes) /\ b \in Seq(Writes) /\ c \in Seq(Writes)
      /\ \A o \in Stacks : \A g \in Refs : After(o, g, a) = g
      /\ \A o \in Stacks : o # st => \A g \in Refs : After(o, g, b) = g /\ After(o, g, c) = g
      /\ Stored(b) = {} /\ Stored(c) = {}
  BY <1>1, <1>2, <1>4, OnlyFacts DEF Stacks
<1>7. ab \in Seq(Writes) /\ Stored(ab) = {s}
      /\ \A o \in Stacks : \A g \in Refs : After(o, g, ab) = After(o, g, b)
  <2>1. ab \in Seq(Writes)
    BY <1>6, ConcatFacts
  <2>2. Stored(ab) = Stored(a) \cup Stored(b)
    BY <1>6, StoredConcat
  <2>3. ASSUME NEW o \in Stacks, NEW g \in Refs PROVE After(o, g, ab) = After(o, g, b)
    <3>1. After(o, g, ab) = After(o, After(o, g, a), b)
      BY <1>6, AfterConcat
    <3>2. QED
      BY <1>6, <3>1
  <2>4. QED
    BY <1>1, <1>6, <2>1, <2>2, <2>3
<1> HIDE DEF ab
<1>8. d \in Seq(Writes) /\ Stored(d) = {s}
  <2>1. d \in Seq(Writes)
    BY <1>6, <1>7, ConcatFacts
  <2>2. Stored(d) = Stored(ab) \cup Stored(c)
    BY <1>6, <1>7, StoredConcat
  <2>3. QED
    BY <1>6, <1>7, <2>1, <2>2
<1>9. ASSUME NEW o \in Stacks, NEW g \in Refs PROVE After(o, g, d) = After(o, After(o, g, b), c)
  <2>1. After(o, g, d) = After(o, After(o, g, ab), c)
    BY <1>6, <1>7, AfterConcat
  <2>2. QED
    BY <1>7, <2>1
<1>10. After(st, f, d) = CutAt(h, MaxStack)
  BY <1>2, <1>4, <1>9
<1>11. ASSUME NEW o \in Stacks, o # st, NEW g \in Refs PROVE After(o, g, d) = g
  BY <1>6, <1>9, <1>11
<1>12. QED
  BY <1>5, <1>8, <1>10, <1>11 DEF h

(* Two lists in a row, for all stacks at once *)
LEMMA BothFacts ==
  ASSUME NEW a \in Seq(Writes), NEW b \in Seq(Writes)
  PROVE  /\ a \o b \in Seq(Writes) /\ Stored(a \o b) = Stored(a) \cup Stored(b)
         /\ \A o : \A g \in Refs : After(o, g, a \o b) = After(o, After(o, g, a), b)
BY ConcatFacts, StoredConcat, AfterConcat

(* CheckpointManager.snapshot *)
LEMMA SnapshotIs ==
  ASSUME NEW r \in [Stacks -> Refs], NEW n \in 0 .. MaxStack, Shape(r["undo"], n),
         NEW m \in 0 .. MaxStack, Shape(r["redo"], m), NEW s \in Snapshots
  PROVE  LET d == SnapshotWrites(r, s) IN
         /\ d \in Seq(Writes) /\ Stored(d) = {s}
         /\ After("undo", r["undo"], d) = CutAt(Pushed(r["undo"], s), MaxStack)
         /\ After("redo", r["redo"], d) = CutAt(r["redo"], 0)
<1> DEFINE f == r["undo"]
           z == r["redo"]
           a == <<Store(s)>>
           b == PushWrites("undo", f, s)
           h == Pushed(f, s)
           e == DropWrites("redo", z, 0)
           c == DropWrites("undo", h, MaxStack)
           ab == a \o b
           abe == ab \o e
           d == abe \o c
<1>0. f \in Refs /\ z \in Refs /\ {"undo", "redo"} = Stacks /\ "undo" # "redo"
  BY DEF Stacks
<1>1. Only(a, "snap") /\ Stored(a) = {s}
  BY StoreIs
<1>2. Only(b, "undo") /\ After("undo", f, b) = h
  BY <1>0, PushIs DEF Only, Entries
<1>3. h \in Refs /\ Shape(h, n + 1) /\ n + 1 \in 0 .. (MaxStack + 1) /\ n + 1 <= MaxStack + MaxFaults + 1
  BY <1>0, PushedShape
<1>4. Only(e, "redo") /\ After("redo", z, e) = CutAt(z, 0)
  <2>1. m \in 0 .. (MaxStack + 1) /\ m <= MaxStack + MaxFaults + 1 /\ 0 \in 0 .. MaxStack
    BY IndexFacts
  <2>2. QED
    BY <1>0, <2>1, DropIs DEF Only
<1>5. SnapshotWrites(r, s) = d
  BY <1>2 DEF SnapshotWrites
<1> HIDE DEF a, b, h, e, f, z
<1>6. Only(c, "undo") /\ After("undo", h, c) = CutAt(h, MaxStack)
  <2>1. MaxStack \in 0 .. MaxStack /\ "undo" \in Stacks
    BY <1>0, IndexFacts
  <2>2. QED
    BY <1>0, <1>3, <2>1, DropIs DEF Only
<1> HIDE DEF c
<1>7. /\ a \in Seq(Writes) /\ b \in Seq(Writes) /\ c \in Seq(Writes) /\ e \in Seq(Writes)
      /\ Stored(b) = {} /\ Stored(c) = {} /\ Stored(e) = {}
      /\ \A g \in Refs : /\ After("undo", g, a) = g /\ After("redo", g, a) = g
                         /\ After("redo", g, b) = g /\ After("redo", g, c) = g
                         /\ After("undo", g, e) = g
  BY <1>0, <1>1, <1>2, <1>4, <1>6, OnlyFacts
<1>8. /\ ab \in Seq(Writes) /\ Stored(ab) = {s}
      /\ After("undo", f, ab) = h /\ After("redo", z, ab) = z
  BY <1>0, <1>1, <1>2, <1>7, BothFacts
<1> HIDE DEF ab
<1>9. /\ abe \in Seq(Writes) /\ Stored(abe) = {s}
      /\ After("undo", f, abe) = h /\ After("redo", z, abe) = CutAt(z, 0)
  BY <1>0, <1>3, <1>4, <1>7, <1>8, BothFacts
<1>10. CutAt(z, 0) \in Refs
  BY <1>4, <1>7, <1>0, AfterType
<1> HIDE DEF abe
<1>11. /\ d \in Seq(Writes) /\ Stored(d) = {s}
       /\ After("undo", f, d) = CutAt(h, MaxStack) /\ After("redo", z, d) = CutAt(z, 0)
  BY <1>0, <1>6, <1>7, <1>9, <1>10, BothFacts
<1>12. QED
  BY <1>5, <1>11 DEF f, z, h

(* A stack with what was captured on top, if anything was *)
KeptAs(f, s) == IF s = None THEN f ELSE CutAt(Pushed(f, s), MaxStack)

(* What undo, redo, abort and rewind write once the tree is restored *)
LEMMA KeptIs ==
  ASSUME NEW r \in [Stacks -> Refs], NEW n \in 0 .. MaxStack, Shape(r["undo"], n),
         NEW m \in 0 .. MaxStack, Shape(r["redo"], m), NEW s \in Entries,
         NEW kind \in {"undo", "redo", "abort", "rewind"}, s = None => kind \in {"rewind", "abort"}
  PROVE  LET d == KeptWrites(r, kind, s) IN
         /\ d \in Seq(Writes) /\ Stored(d) = (IF s = None THEN {} ELSE {s})
         /\ After("undo", r["undo"], d) =
              IF kind \in {"undo", "abort"} \/ s = None THEN r["undo"]
              ELSE CutAt(Pushed(r["undo"], s), MaxStack)
         /\ After("redo", r["redo"], d) =
              IF kind \in {"undo", "abort"} THEN KeptAs(r["redo"], s)
              ELSE IF kind = "redo" THEN r["redo"] ELSE CutAt(r["redo"], 0)
<1>0. /\ r["undo"] \in Refs /\ r["redo"] \in Refs /\ "undo" \in Stacks /\ "redo" \in Stacks
      /\ s # None => s \in Snapshots
  BY DEF Stacks, Entries
<1>1. CASE kind \in {"undo", "abort"} /\ s # None
  <2>1. KeptWrites(r, kind, s) = SaveWrites("redo", r["redo"], s) /\ s \in Snapshots /\ s # None
    BY <1>0, <1>1 DEF KeptWrites, KeptOn
  <2>2. QED
    BY <1>0, <1>1, <2>1, SaveIs DEF KeptAs
<1>2. CASE kind = "redo"
  <2>1. KeptWrites(r, kind, s) = SaveWrites("undo", r["undo"], s) /\ s \in Snapshots /\ s # None
    BY <1>0, <1>2 DEF KeptWrites, KeptOn
  <2> DEFINE d == SaveWrites("undo", r["undo"], s)
  <2>2. /\ d \in Seq(Writes) /\ Stored(d) = {s}
        /\ After("undo", r["undo"], d) = CutAt(Pushed(r["undo"], s), MaxStack)
        /\ After("redo", r["redo"], d) = r["redo"]
    BY <1>0, <2>1, SaveIs
  <2> HIDE DEF d
  <2>3. KeptWrites(r, kind, s) = d
    BY <2>1 DEF d
  <2>4. kind \notin {"undo", "abort"} /\ s # None
    BY <1>2, <2>1
  <2>5. QED
    BY <1>2, <2>2, <2>3, <2>4, Zenon
<1>3. CASE kind = "rewind"
  <2> DEFINE a == IF s = None THEN <<>> ELSE SaveWrites("undo", r["undo"], s)
             e == DropWrites("redo", r["redo"], 0)
             d == a \o e
  <2>1. KeptWrites(r, kind, s) = d
    BY <1>3 DEF KeptWrites, KeptOn
  <2>2. Only(e, "redo") /\ After("redo", r["redo"], e) = CutAt(r["redo"], 0)
    <3>1. m \in 0 .. (MaxStack + 1) /\ m <= MaxStack + MaxFaults + 1 /\ 0 \in 0 .. MaxStack
      BY IndexFacts
    <3>2. QED
      BY <1>0, <3>1, DropIs DEF Only
  <2>3. e \in Seq(Writes) /\ Stored(e) = {} /\ \A g \in Refs : After("undo", g, e) = g
    BY <1>0, <2>2, OnlyFacts
  <2> HIDE DEF e
  <2>4. /\ a \in Seq(Writes) /\ Stored(a) = (IF s = None THEN {} ELSE {s})
        /\ After("undo", r["undo"], a) =
             (IF s = None THEN r["undo"] ELSE CutAt(Pushed(r["undo"], s), MaxStack))
        /\ After("redo", r["redo"], a) = r["redo"]
    <3>1. CASE s = None
      <4>1. a = <<>> /\ a \in Seq(Writes)
        BY <3>1
      <4>2. Stored(<<>>) = {}
        BY DEF Stored, ToSet
      <4>3. QED
        BY <3>1, <4>1, <4>2 DEF After
    <3>2. CASE s # None
      BY <1>0, <3>2, SaveIs
    <3>3. QED
      BY <3>1, <3>2
  <2>5. After("undo", r["undo"], a) \in Refs
    BY <1>0, <2>4, AfterType
  <2> HIDE DEF a
  <2>6. /\ d \in Seq(Writes) /\ Stored(d) = Stored(a) \cup Stored(e)
        /\ After("undo", r["undo"], d) = After("undo", After("undo", r["undo"], a), e)
        /\ After("redo", r["redo"], d) = After("redo", After("redo", r["redo"], a), e)
    BY <1>0, <2>3, <2>4, BothFacts
  <2> HIDE DEF d
  <2>7. Stored(d) = (IF s = None THEN {} ELSE {s})
    BY <2>3, <2>4, <2>6
  <2>8. After("undo", r["undo"], d) =
          (IF s = None THEN r["undo"] ELSE CutAt(Pushed(r["undo"], s), MaxStack))
    BY <2>3, <2>4, <2>5, <2>6
  <2>9. After("redo", r["redo"], d) = CutAt(r["redo"], 0)
    BY <2>2, <2>4, <2>6
  <2>10. kind \notin {"undo", "abort"} /\ kind # "redo"
    BY <1>3
  <2>11. QED
    BY <2>1, <2>6, <2>7, <2>8, <2>9, <2>10, Zenon
<1>4. CASE kind \in {"undo", "abort"} /\ s = None
  <2>1. KeptWrites(r, kind, s) = <<>>
    BY <1>4 DEF KeptWrites, KeptOn
  <2>2. QED
    BY <1>4, <2>1, StoredEmpty DEF KeptAs
<1>5. QED
  BY <1>1, <1>2, <1>3, <1>4

-----------------------------------------------------------------------------
(* The same lists on any stack, with holes after a fault. *)

LEMMA RunType ==
  ASSUME NEW f \in Refs, NEW a \in Nat
  PROVE  /\ RunFrom(f, a) \in Nat
         /\ \A i \in a .. (a + RunFrom(f, a) - 1) : i \in Indexes /\ f[i] # None
         /\ a \in Indexes /\ f[a] # None => RunFrom(f, a) >= 1
         /\ a + RunFrom(f, a) \notin Indexes \/ f[a + RunFrom(f, a)] = None
<1> DEFINE Full(m) == \A i \in a .. (a + m - 1) : i \in Indexes /\ f[i] # None
           Run(m) == (a + m \notin Indexes \/ f[a + m] = None) /\ Full(m)
           top == Cardinality(Indexes)
           T == {m \in 0 .. top : Full(m)}
<1>0. top \in Nat /\ top = MaxStack + MaxFaults + 1
  BY IndexFacts
<1>1. T \subseteq 0 .. top /\ 0 \in T
  BY <1>0
<1>2. PICK x \in T : \A y \in T : y <= x
  <2> HIDE DEF T, top
  <2>1. QED
    BY <1>0, <1>1, Greatest
<1>3. x \in 0 .. top /\ Full(x) /\ x \in Nat
  BY <1>0, <1>2
<1>4. ASSUME a + x \in Indexes, f[a + x] # None PROVE FALSE
  <2>1. x + 1 \in 0 .. top
    BY <1>0, <1>3, <1>4, IndexFacts
  <2>2. ASSUME NEW i \in a .. (a + (x + 1) - 1) PROVE i \in Indexes /\ f[i] # None
    <3>1. i \in a .. (a + x - 1) \/ i = a + x
      BY <1>3
    <3>2. QED
      BY <1>3, <1>4, <3>1
  <2>3. x + 1 \in T
    BY <2>1, <2>2
  <2>4. x + 1 <= x
    BY <1>2, <2>3
  <2>5. QED
    BY <1>3, <2>4
<1>5. \E m \in 0 .. top : Run(m)
  BY <1>3, <1>4
<1>6. RunFrom(f, a) = CHOOSE m \in 0 .. top : Run(m)
  BY DEF RunFrom
<1> HIDE DEF Run, top
<1>7. RunFrom(f, a) \in 0 .. top /\ Run(RunFrom(f, a))
  BY <1>5, <1>6
<1>8. RunFrom(f, a) \in Nat
  BY <1>0, <1>7
<1>9. ASSUME a \in Indexes, f[a] # None PROVE RunFrom(f, a) >= 1
  <2>1. RunFrom(f, a) # 0
    <3>1. SUFFICES ASSUME RunFrom(f, a) = 0 PROVE FALSE
      OBVIOUS
    <3>2. Run(0)
      BY <1>7, <3>1
    <3>3. a + 0 = a
      OBVIOUS
    <3>4. QED
      BY <1>9, <3>2, <3>3 DEF Run
  <2>2. QED
    BY <1>8, <2>1
<1>10. QED
  BY <1>7, <1>8, <1>9 DEF Run

LEMMA DropAny ==
  ASSUME NEW st \in Stacks, NEW f \in Refs, NEW a \in Nat
  PROVE  Only(DropWrites(st, f, a), st)
<1> DEFINE r == RunFrom(f, a)
           d == [i \in 1 .. r |-> Delete(st, a + i - 1)]
<1>1. r \in Nat
  BY RunType
<1> HIDE DEF r
<1>2. ASSUME NEW i \in 1 .. r PROVE d[i] \in Writes /\ d[i].st = st
  <2>1. a + i - 1 \in Nat /\ None \in Entries /\ d[i] = Write(st, a + i - 1, None)
    BY <1>1, <1>2 DEF Delete, Entries
  <2>2. QED
    BY <2>1, WriteFacts
<1>3. d \in Seq(Writes) /\ Len(d) = r
  BY <1>1, <1>2, ListFacts
<1>4. DropWrites(st, f, a) = d
  BY DEF DropWrites, r
<1> HIDE DEF d
<1>5. QED
  BY <1>2, <1>3, <1>4 DEF Only

LEMMA OnlyConcat ==
  ASSUME NEW a, NEW b, NEW st, Only(a, st), Only(b, st)
  PROVE  Only(a \o b, st)
<1> DEFINE c == a \o b
<1>0. a \in Seq(Writes) /\ b \in Seq(Writes)
  BY DEF Only
<1>1. /\ c \in Seq(Writes) /\ Len(a) \in Nat /\ Len(b) \in Nat /\ Len(c) = Len(a) + Len(b)
      /\ \A l \in 1 .. Len(a) : c[l] = a[l]
      /\ \A l \in 1 .. Len(b) : c[Len(a) + l] = b[l]
  BY <1>0, ConcatFacts
<1> HIDE DEF c
<1>2. ASSUME NEW l \in 1 .. Len(c) PROVE c[l].st = st
  <2>1. CASE l \in 1 .. Len(a)
    BY <1>1, <2>1 DEF Only
  <2>2. CASE l \notin 1 .. Len(a)
    <3>1. l - Len(a) \in 1 .. Len(b) /\ l = Len(a) + (l - Len(a))
      BY <1>1, <2>2
    <3>2. c[l] = b[l - Len(a)]
      BY <1>1, <3>1
    <3>3. QED
      BY <3>1, <3>2 DEF Only
  <2>3. QED
    BY <2>1, <2>2
<1>3. Only(c, st)
  BY <1>1, <1>2 DEF Only
<1>4. QED
  BY <1>3 DEF c

LEMMA OnlyOne ==
  ASSUME NEW w \in Writes
  PROVE  Only(<<w>>, w.st)
<1> DEFINE ws == <<w>>
<1>1. ws \in Seq(Writes) /\ Len(ws) = 1 /\ ws[1] = w
  OBVIOUS
<1> HIDE DEF ws
<1>2. \A l \in 1 .. Len(ws) : ws[l] = w
  BY <1>1
<1>3. Only(ws, w.st)
  BY <1>1, <1>2 DEF Only
<1>4. QED
  BY <1>3 DEF ws

LEMMA PushAny ==
  ASSUME NEW st \in Stacks, NEW f \in Refs, NEW s \in Entries
  PROVE  Only(PushWrites(st, f, s), st)
<1> DEFINE n == RunFrom(f, 0)
           q == [i \in 1 .. n |-> Write(st, n - i + 1, f[n - i])]
           w == Write(st, 0, s)
<1>1. n \in Nat /\ \A i \in 0 .. (0 + n - 1) : i \in Indexes
  BY RunType
<1>2. PushWrites(st, f, s) = q \o <<w>>
  BY DEF PushWrites
<1> HIDE DEF n
<1>3. ASSUME NEW i \in 1 .. n PROVE q[i] \in Writes /\ q[i].st = st
  <2>1. n - i + 1 \in Nat /\ n - i \in Indexes
    BY <1>1
  <2>2. f[n - i] \in Entries
    BY <2>1 DEF Refs
  <2>3. q[i] = Write(st, n - i + 1, f[n - i])
    OBVIOUS
  <2>4. QED
    BY <2>1, <2>2, <2>3, WriteFacts
<1>4. q \in Seq(Writes) /\ Len(q) = n
  BY <1>1, <1>3, ListFacts
<1>5. w \in Writes /\ w.st = st
  BY WriteFacts
<1> HIDE DEF q, w
<1>6. Only(q, st)
  BY <1>3, <1>4 DEF Only
<1>7. Only(<<w>>, st)
  BY <1>5, OnlyOne
<1>8. QED
  BY <1>2, <1>6, <1>7, OnlyConcat

LEMMA PopAny ==
  ASSUME NEW st \in Stacks, NEW f \in Refs, f[0] # None
  PROVE  Only(PopWrites(st, f), st)
<1> DEFINE n == RunFrom(f, 0)
           m == n - 1
           w == Delete(st, 0)
           q == [j \in 1 .. 2 * m |->
                   LET i == (j + 1) \div 2
                   IN  IF j % 2 = 1 THEN Write(st, i - 1, f[i]) ELSE Delete(st, i)]
<1>a. 0 \in Indexes /\ 0 \in Nat
  BY IndexFacts
<1>0. n \in Nat /\ n >= 1 /\ \A i \in 0 .. (0 + n - 1) : i \in Indexes
  BY <1>a, RunType
<1>1. PopWrites(st, f) = <<w>> \o q
  BY DEF PopWrites
<1> HIDE DEF n
<1>2. m \in Nat /\ \A i \in 1 .. m : i \in Indexes
  BY <1>0
<1> HIDE DEF m
<1>3. None \in Entries
  BY DEF Entries
<1>4. w \in Writes /\ w.st = st
  BY <1>3, WriteFacts DEF Delete
<1>5. ASSUME NEW j \in 1 .. 2 * m PROVE q[j] \in Writes /\ q[j].st = st
  <2> DEFINE i == (j + 1) \div 2
  <2>1. i \in 1 .. m
    BY <1>2
  <2>2. q[j] = IF j % 2 = 1 THEN Write(st, i - 1, f[i]) ELSE Delete(st, i)
    OBVIOUS
  <2> HIDE DEF i
  <2>3. i \in Nat /\ i - 1 \in Nat /\ f[i] \in Entries
    BY <1>2, <2>1 DEF Refs
  <2>4. QED
    BY <1>3, <2>2, <2>3, WriteFacts DEF Delete
<1>6. q \in Seq(Writes) /\ Len(q) = 2 * m
  BY <1>2, <1>5, ListFacts
<1> HIDE DEF q, w
<1>7. Only(q, st)
  BY <1>5, <1>6 DEF Only
<1>8. Only(<<w>>, st)
  BY <1>4, OnlyOne
<1>9. QED
  BY <1>1, <1>7, <1>8, OnlyConcat

LEMMA SaveAny ==
  ASSUME NEW st \in Stacks, NEW f \in Refs, NEW s \in Snapshots
  PROVE  SaveWrites(st, f, s) \in Seq(Writes) /\ Stored(SaveWrites(st, f, s)) = {s}
<1> DEFINE a == <<Store(s)>>
           b == PushWrites(st, f, s)
           h == After(st, f, b)
           c == DropWrites(st, h, MaxStack)
           ab == a \o b
<1>0. s \in Entries /\ MaxStack \in Nat
  BY IndexFacts DEF Entries
<1>1. Only(a, "snap") /\ Stored(a) = {s} /\ a \in Seq(Writes)
  BY StoreIs, OnlyFacts
<1>2. b \in Seq(Writes) /\ Stored(b) = {}
  BY <1>0, PushAny, OnlyFacts
<1>3. h \in Refs
  BY <1>2, AfterType
<1>4. c \in Seq(Writes) /\ Stored(c) = {}
  <2> HIDE DEF h
  <2>1. QED
    BY <1>0, <1>3, DropAny, OnlyFacts
<1>5. SaveWrites(st, f, s) = ab \o c
  BY DEF SaveWrites
<1> HIDE DEF a, b, c
<1>6. ab \in Seq(Writes) /\ Stored(ab) = {s}
  BY <1>1, <1>2, BothFacts
<1> HIDE DEF ab
<1>7. ab \o c \in Seq(Writes) /\ Stored(ab \o c) = {s}
  BY <1>4, <1>6, BothFacts
<1>8. QED
  BY <1>5, <1>7, Zenon

LEMMA SnapshotAny ==
  ASSUME NEW r \in [Stacks -> Refs], NEW s \in Snapshots
  PROVE  SnapshotWrites(r, s) \in Seq(Writes) /\ Stored(SnapshotWrites(r, s)) = {s}
<1> DEFINE a == <<Store(s)>>
           b == PushWrites("undo", r["undo"], s)
           h == After("undo", r["undo"], b)
           e == DropWrites("redo", r["redo"], 0)
           c == DropWrites("undo", h, MaxStack)
           ab == a \o b
           abe == ab \o e
<1>0. /\ s \in Entries /\ MaxStack \in Nat /\ 0 \in Nat /\ "undo" \in Stacks /\ "redo" \in Stacks
      /\ r["undo"] \in Refs /\ r["redo"] \in Refs
  BY IndexFacts DEF Entries, Stacks
<1>1. Only(a, "snap") /\ Stored(a) = {s} /\ a \in Seq(Writes)
  BY StoreIs, OnlyFacts
<1>2. b \in Seq(Writes) /\ Stored(b) = {}
  BY <1>0, PushAny, OnlyFacts
<1>3. h \in Refs
  BY <1>0, <1>2, AfterType
<1>4. c \in Seq(Writes) /\ Stored(c) = {}
  <2> HIDE DEF h
  <2>1. QED
    BY <1>0, <1>3, DropAny, OnlyFacts
<1>5. e \in Seq(Writes) /\ Stored(e) = {}
  BY <1>0, DropAny, OnlyFacts
<1>6. SnapshotWrites(r, s) = abe \o c
  BY DEF SnapshotWrites
<1> HIDE DEF a, b, c, e
<1>7. ab \in Seq(Writes) /\ Stored(ab) = {s}
  BY <1>1, <1>2, BothFacts
<1> HIDE DEF ab
<1>8. abe \in Seq(Writes) /\ Stored(abe) = {s}
  BY <1>5, <1>7, BothFacts
<1> HIDE DEF abe
<1>9. abe \o c \in Seq(Writes) /\ Stored(abe \o c) = {s}
  BY <1>4, <1>8, BothFacts
<1>10. QED
  BY <1>6, <1>9, Zenon

LEMMA KeptAny ==
  ASSUME NEW r \in [Stacks -> Refs], NEW s \in Entries,
         NEW kind \in {"undo", "redo", "abort", "rewind"}, s = None => kind \in {"rewind", "abort"}
  PROVE  /\ KeptWrites(r, kind, s) \in Seq(Writes)
         /\ Stored(KeptWrites(r, kind, s)) = (IF s = None THEN {} ELSE {s})
<1>0. /\ r["undo"] \in Refs /\ r["redo"] \in Refs /\ "undo" \in Stacks /\ "redo" \in Stacks
      /\ s # None => s \in Snapshots
  BY DEF Stacks, Entries
<1>1. CASE kind \in {"undo", "abort"} /\ s # None
  <2>1. KeptWrites(r, kind, s) = SaveWrites("redo", r["redo"], s) /\ s \in Snapshots /\ s # None
    BY <1>0, <1>1 DEF KeptWrites, KeptOn
  <2>2. QED
    BY <1>0, <2>1, SaveAny
<1>2. CASE kind = "redo"
  <2>1. KeptWrites(r, kind, s) = SaveWrites("undo", r["undo"], s) /\ s \in Snapshots /\ s # None
    BY <1>0, <1>2 DEF KeptWrites, KeptOn
  <2>2. QED
    BY <1>0, <2>1, SaveAny
<1>3. CASE kind = "rewind"
  <2> DEFINE a == IF s = None THEN <<>> ELSE SaveWrites("undo", r["undo"], s)
             e == DropWrites("redo", r["redo"], 0)
             d == a \o e
  <2>1. KeptWrites(r, kind, s) = d
    BY <1>3 DEF KeptWrites, KeptOn
  <2>2. e \in Seq(Writes) /\ Stored(e) = {}
    BY <1>0, DropAny, OnlyFacts
  <2>3. a \in Seq(Writes) /\ Stored(a) = (IF s = None THEN {} ELSE {s})
    <3>1. CASE s = None
      <4>1. a = <<>> /\ a \in Seq(Writes)
        BY <3>1
      <4>2. Stored(<<>>) = {}
        BY DEF Stored, ToSet
      <4>3. QED
        BY <3>1, <4>1, <4>2
    <3>2. CASE s # None
      BY <1>0, <3>2, SaveAny
    <3>3. QED
      BY <3>1, <3>2
  <2> HIDE DEF a, e
  <2>4. d \in Seq(Writes) /\ Stored(d) = Stored(a) \cup Stored(e)
    BY <2>2, <2>3, BothFacts
  <2> HIDE DEF d
  <2>5. Stored(d) = (IF s = None THEN {} ELSE {s})
    BY <2>2, <2>3, <2>4
  <2>6. QED
    BY <2>1, <2>4, <2>5, Zenon
<1>4. CASE kind \in {"undo", "abort"} /\ s = None
  <2>1. KeptWrites(r, kind, s) = <<>>
    BY <1>4 DEF KeptWrites, KeptOn
  <2>2. QED
    BY <1>4, <2>1, StoredEmpty
<1>5. QED
  BY <1>1, <1>2, <1>3, <1>4

-----------------------------------------------------------------------------
(* Whole stacks stay whole. *)

LEMMA WholeShape ==
  ASSUME NEW f, NEW S, Whole(f, S)
  PROVE  \E n \in 0 .. MaxStack : Shape(f, n)
BY DEF Whole, Shape

LEMMA WholeMore ==
  ASSUME NEW f, NEW S, NEW T, S \subseteq T, Whole(f, S)
  PROVE  Whole(f, T)
BY DEF Whole

LEMMA WholeCleared ==
  ASSUME NEW f, NEW S
  PROVE  Whole(CutAt(f, 0), S)
<1>1. \A i \in Indexes : CutAt(f, 0)[i] = None /\ ~(i < 0)
  BY IndexFacts DEF CutAt
<1>2. 0 \in 0 .. MaxStack
  BY IndexFacts
<1>3. QED
  BY <1>1, <1>2 DEF Whole, Present

LEMMA WholeSaved ==
  ASSUME NEW f \in Refs, NEW S, Whole(f, S), NEW s \in Snapshots, s \notin S
  PROVE  Whole(CutAt(Pushed(f, s), MaxStack), S \cup {s})
<1> DEFINE g == CutAt(Pushed(f, s), MaxStack)
<1>1. PICK n \in 0 .. MaxStack : \A i \in Indexes : f[i] # None <=> i < n
  BY DEF Whole
<1> DEFINE m == IF n < MaxStack THEN n + 1 ELSE MaxStack
<1>0. n \in Nat /\ m \in 0 .. MaxStack /\ m \in Nat /\ (n < MaxStack => m = n + 1)
      /\ (n = MaxStack => m = n) /\ MaxStack \in Nat /\ MaxStack > 0
  BY IndexFacts
<1> HIDE DEF m
<1>2. s # None /\ s \notin {f[i] : i \in Present(f)}
  BY CheckpointsAssumption DEF Whole
<1>3. ASSUME NEW i \in Indexes
      PROVE  /\ i = 0 => g[i] = s
             /\ i # 0 => i - 1 \in Indexes /\ g[i] = (IF i < MaxStack THEN f[i - 1] ELSE None)
  BY IndexFacts, <1>0 DEF CutAt, Pushed
<1> HIDE DEF g
<1>4. ASSUME NEW i \in Indexes PROVE g[i] # None <=> i < m
  <2>0. i \in Nat
    BY IndexFacts
  <2>1. CASE i = 0
    BY <1>0, <1>2, <1>3, <2>1
  <2>2. CASE i # 0
    <3>1. i - 1 \in Indexes /\ g[i] = (IF i < MaxStack THEN f[i - 1] ELSE None)
      BY <1>3, <2>2
    <3>2. f[i - 1] # None <=> i - 1 < n
      BY <1>1, <3>1
    <3>3. CASE i < MaxStack
      BY <1>0, <2>0, <3>1, <3>2, <3>3
    <3>4. CASE ~(i < MaxStack)
      BY <1>0, <2>0, <3>1, <3>4
    <3>5. QED
      BY <3>3, <3>4
  <2>3. QED
    BY <2>1, <2>2
<1>5. ASSUME NEW i \in Present(g), i # 0 PROVE i - 1 \in Present(f) /\ g[i] = f[i - 1] /\ i \in Nat
  BY <1>3, <1>5, IndexFacts DEF Present
<1>6. ASSUME NEW i \in Present(g), NEW j \in Present(g), g[i] = g[j] PROVE i = j
  <2>1. CASE i = 0 /\ j = 0
    BY <2>1
  <2>2. CASE i = 0 /\ j # 0
    <3>1. g[i] = s /\ g[j] = f[j - 1] /\ j - 1 \in Present(f)
      BY <1>3, <1>5, <2>2 DEF Present
    <3>2. QED
      BY <1>2, <1>6, <3>1
  <2>3. CASE i # 0 /\ j = 0
    <3>1. g[j] = s /\ g[i] = f[i - 1] /\ i - 1 \in Present(f)
      BY <1>3, <1>5, <2>3 DEF Present
    <3>2. QED
      BY <1>2, <1>6, <3>1
  <2>4. CASE i # 0 /\ j # 0
    <3>1. f[i - 1] = f[j - 1] /\ i - 1 \in Present(f) /\ j - 1 \in Present(f) /\ i \in Nat /\ j \in Nat
      BY <1>5, <1>6, <2>4
    <3>2. i - 1 = j - 1
      BY <3>1 DEF Whole
    <3>3. QED
      BY <3>1, <3>2
  <2>5. QED
    BY <2>1, <2>2, <2>3, <2>4
<1>7. ASSUME NEW i \in Present(g) PROVE g[i] \in S \cup {s}
  <2>1. CASE i = 0
    BY <1>3, <2>1 DEF Present
  <2>2. CASE i # 0
    BY <1>5, <2>2 DEF Whole
  <2>3. QED
    BY <2>1, <2>2
<1>8. \E k \in 0 .. MaxStack : \A i \in Indexes : g[i] # None <=> i < k
  BY <1>0, <1>4
<1>9. Whole(g, S \cup {s})
  BY <1>6, <1>7, <1>8 DEF Whole
<1>10. QED
  BY <1>9 DEF g

LEMMA WholePopped ==
  ASSUME NEW f \in Refs, NEW S, Whole(f, S), f[0] # None
  PROVE  Popped(f) \in Refs /\ Whole(Popped(f), S) /\ Pushed(Popped(f), f[0]) = f /\ f[0] \in S
<1> DEFINE g == Popped(f)
<1>1. PICK n \in 0 .. MaxStack : \A i \in Indexes : f[i] # None <=> i < n
  BY DEF Whole
<1>0. n \in Nat /\ n > 0 /\ n - 1 \in 0 .. MaxStack /\ 0 \in Indexes /\ MaxStack \in Nat /\ n <= MaxStack
  <2>1. 0 \in Indexes /\ n \in Nat /\ MaxStack \in Nat /\ n <= MaxStack
    BY IndexFacts
  <2>2. 0 < n
    BY <1>1, <2>1
  <2>3. QED
    BY <2>1, <2>2
<1>2. ASSUME NEW i \in Indexes
      PROVE  /\ i \in Nat /\ g[i] = (IF i + 1 \in Indexes THEN f[i + 1] ELSE None)
             /\ g[i] \in Entries
  BY IndexFacts DEF Popped, Refs, Entries
<1>3. g \in Refs
  BY <1>2 DEF Popped, Refs
<1>4. ASSUME NEW i \in Indexes PROVE g[i] # None <=> i < n - 1
  <2>1. CASE i + 1 \in Indexes
    <3>1. f[i + 1] # None <=> i + 1 < n
      BY <1>1, <2>1
    <3>2. QED
      BY <1>0, <1>2, <2>1, <3>1
  <2>2. CASE i + 1 \notin Indexes
    <3>1. ~(i < n - 1)
      BY <1>0, <1>2, <2>2, IndexFacts
    <3>2. QED
      BY <1>2, <2>2, <3>1
  <2>3. QED
    BY <2>1, <2>2
<1>5. ASSUME NEW i \in Indexes PROVE Pushed(g, f[0])[i] = f[i]
  <2>1. CASE i = 0
    BY <2>1 DEF Pushed
  <2>2. CASE i # 0
    <3>1. i - 1 \in Indexes /\ (i - 1) + 1 = i /\ Pushed(g, f[0])[i] = g[i - 1]
      BY <2>2, IndexFacts DEF Pushed
    <3>2. QED
      BY <1>2, <3>1
  <2>3. QED
    BY <2>1, <2>2
<1>6. Pushed(g, f[0]) = f
  <2>1. Pushed(g, f[0]) = [i \in Indexes |-> Pushed(g, f[0])[i]]
    BY DEF Pushed
  <2>2. f = [i \in Indexes |-> f[i]]
    BY DEF Refs
  <2>3. QED
    BY <1>5, <2>1, <2>2
<1> HIDE DEF g
<1>7. ASSUME NEW i \in Present(g) PROVE i + 1 \in Present(f) /\ g[i] = f[i + 1] /\ i \in Nat
  BY <1>2 DEF Present
<1>8. ASSUME NEW i \in Present(g), NEW j \in Present(g), g[i] = g[j] PROVE i = j
  <2>1. i + 1 \in Present(f) /\ j + 1 \in Present(f) /\ f[i + 1] = f[j + 1] /\ i \in Nat /\ j \in Nat
    BY <1>7, <1>8
  <2>2. i + 1 = j + 1
    BY <2>1 DEF Whole
  <2>3. QED
    BY <2>1, <2>2
<1>9. \A i \in Present(g) : g[i] \in S
  BY <1>7 DEF Whole
<1>10. Whole(g, S)
  <2>1. \E k \in 0 .. MaxStack : \A i \in Indexes : g[i] # None <=> i < k
    BY <1>0, <1>4
  <2>2. QED
    BY <1>8, <1>9, <2>1 DEF Whole
<1>11. f[0] \in S
  BY <1>0 DEF Whole, Present
<1>12. QED
  BY <1>3, <1>6, <1>10, <1>11 DEF g

(* _stack_push puts back what _stack_pop took *)
LEMMA WholePush ==
  ASSUME NEW st \in Stacks, NEW f \in Refs, NEW S, Whole(f, S), f[0] # None
  PROVE  LET d == PushWrites(st, Popped(f), f[0]) IN Only(d, st) /\ After(st, Popped(f), d) = f
<1>0. Popped(f) \in Refs /\ Whole(Popped(f), S) /\ Pushed(Popped(f), f[0]) = f
  BY WholePopped
<1>1. PICK n \in 0 .. MaxStack : Shape(Popped(f), n)
  BY <1>0, WholeShape
<1>2. f[0] \in Entries
  BY IndexFacts DEF Refs
<1>3. QED
  BY <1>0, <1>1, <1>2, PushIs DEF Only

LEMMA WholePop ==
  ASSUME NEW st \in Stacks, NEW f \in Refs, NEW S, Whole(f, S), f[0] # None
  PROVE  After(st, f, PopWrites(st, f)) = Popped(f)
<1>1. PICK n \in 0 .. MaxStack : Shape(f, n)
  BY WholeShape
<1>2. n \in 1 .. MaxStack
  <2>1. 0 \in Indexes
    BY IndexFacts
  <2>2. 0 < n
    BY <1>1, <2>1 DEF Shape
  <2>3. QED
    BY <2>2, IndexFacts
<1>3. QED
  BY <1>1, <1>2, PopIs

-----------------------------------------------------------------------------
(* Steps that leave the refs, the lock and the snapshots in the making alone. *)

Turns == {"none", "start", "stream", "edited", "gate", "end"}

(* What the sessions hold has its type *)
SessionsOK ==
  /\ fork \in [Sessions -> Nat] /\ humans \in [Sessions -> Nat] /\ turn \in [Sessions -> Turns]
  /\ task \in [Sessions -> [Runs -> Tasks]] /\ op \in [Sessions -> Commands]

(* No snapshot is in the making that was not before *)
TasksKept ==
  \A q \in Sessions, l \in Runs :
    Building(q, l)' => Building(q, l) /\ task'[q][l].snap = task[q][l].snap

LEMMA NoneFacts ==
  None \notin Snapshots /\ None \notin Sessions /\ None \in Entries /\ Snapshots \subseteq Entries
BY CheckpointsAssumption DEF Entries

LEMMA StoringIs ==
  /\ Storing = snaps \cup Stored(todo)
  /\ (Storing)' = snaps' \cup Stored(todo')
BY DEF Storing, Stored

(* Only snapshots are stored *)
LEMMA StoringType ==
  ASSUME TypeOK, LockInv
  PROVE  Storing \subseteq Snapshots /\ lock.pre \in Entries
<1>1. snaps \subseteq Snapshots /\ todo \in Seq(Writes) /\ lock.pre \in Entries
  BY DEF TypeOK, Locks
<1>2. \A s \in Stored(todo) : s = lock.pre /\ lock.pre # None
  <2>1. DOMAIN todo = 1 .. Len(todo)
    BY <1>1
  <2>2. QED
    BY <1>1, <2>1, StoredIs DEF LockInv
<1>3. QED
  BY <1>1, <1>2, StoringIs DEF Entries

LEMMA FreshKept ==
  ASSUME TypeOK, LockInv, FreshInv, TasksKept, (Storing)' \subseteq Storing, builds' = builds,
         lock' = lock \/ lock' = NoLock
  PROVE  FreshInv'
<1>0. NoLock.pre = None /\ NoLock.phase = "none"
  BY DEF NoLock
<1>1. ASSUME NEW s \in (Storing)' PROVE s.n <= builds'
  BY <1>1 DEF FreshInv
<1>2. (lock.pre # None => lock.pre.n <= builds)'
  BY <1>0 DEF FreshInv
<1>3. (lock.phase = "pop" => lock.pre \notin Storing)'
  BY <1>0 DEF FreshInv
<1>4. ASSUME NEW p \in Sessions, NEW k \in Runs, Building(p, k)'
      PROVE  /\ task'[p][k].snap \in Snapshots \ (Storing)' /\ task'[p][k].snap.n <= builds'
             /\ lock'.phase = "pop" => task'[p][k].snap # lock'.pre
  <2>1. Building(p, k) /\ task'[p][k].snap = task[p][k].snap
    BY <1>4 DEF TasksKept
  <2>2. /\ task[p][k].snap \in Snapshots \ Storing /\ task[p][k].snap.n <= builds
        /\ lock.phase = "pop" => task[p][k].snap # lock.pre
    BY <2>1 DEF FreshInv
  <2>3. QED
    BY <1>0, <2>1, <2>2
<1>5. ASSUME NEW p \in Sessions, NEW q \in Sessions, NEW k \in Runs, NEW l \in Runs,
             Building(p, k)', Building(q, l)', task'[p][k].snap = task'[q][l].snap
      PROVE  p = q /\ k = l
  BY <1>5 DEF TasksKept, FreshInv
<1>6. QED
  BY <1>1, <1>2, <1>3, <1>4, <1>5 DEF FreshInv

LEMMA StackKept ==
  ASSUME StackInv, UNCHANGED <<torn, lock, refs, todo, snaps>>
  PROVE  StackInv'
<1>1. (Storing)' = Storing
  BY StoringIs
<1>2. QED
  BY <1>1, Zenon DEF StackInv

LEMMA Quiet ==
  ASSUME CheckpointInv, SessionsOK', CommandInv', TasksKept,
         UNCHANGED <<tree, refs, snaps, lock, todo, edits, builds, torn, replaced, excused>>
  PROVE  CheckpointInv'
<1>1. TypeOK'
  BY DEF CheckpointInv, TypeOK, SessionsOK, Turns
<1>2. LockInv'
  BY DEF CheckpointInv, LockInv, Free
<1>3. (Storing)' = Storing
  BY StoringIs
<1>4. FreshInv'
  BY <1>3, FreshKept DEF CheckpointInv
<1>5. WorkInv'
  BY DEF CheckpointInv, WorkInv, Saved, Unsaved
<1>6. StackInv'
  BY StackKept DEF CheckpointInv
<1>7. QED
  BY <1>1, <1>2, <1>4, <1>5, <1>6 DEF CheckpointInv

LEMMA NoneTypes ==
  /\ NoLock \in Locks /\ OffTask \in Tasks /\ NoOp \in Commands
  /\ NoOp.kind = "none" /\ NoOp.pc = "none" /\ OffTask.pc = "none" /\ OffTask.snap = None
  /\ NoLock.phase = "none" /\ NoLock.kind = "none" /\ NoLock.sess = None /\ NoLock.pre = None
BY NoneFacts DEF NoLock, OffTask, NoOp, Locks, Tasks, Commands, Kinds, NoThread

LEMMA SessionsNow ==
  ASSUME TypeOK PROVE SessionsOK
BY DEF TypeOK, SessionsOK, Turns

(* One snapshot thread changes, and has no new snapshot in the making *)
LEMMA TaskStep ==
  ASSUME SessionsOK, NEW p \in Sessions, NEW k, NEW t, k \in Runs => t \in Tasks, TaskTo(p, k, t),
         k \in Runs /\ t.pc \in {"compare", "push"} => Building(p, k) /\ t.snap = task[p][k].snap
  PROVE  task' \in [Sessions -> [Runs -> Tasks]] /\ TasksKept
<1>1. task \in [Sessions -> [Runs -> Tasks]] /\ task' = [task EXCEPT ![p][k] = t]
  BY DEF SessionsOK, TaskTo
<1>2. task' \in [Sessions -> [Runs -> Tasks]]
  <2>1. [task[p] EXCEPT ![k] = t] \in [Runs -> Tasks]
    BY <1>1
  <2>2. QED
    BY <1>1, <2>1
<1>3. ASSUME NEW q \in Sessions, NEW l \in Runs
      PROVE  task'[q][l] = IF q = p /\ l = k THEN t ELSE task[q][l]
  BY <1>1
<1>4. ASSUME NEW q \in Sessions, NEW l \in Runs, Building(q, l)'
      PROVE  Building(q, l) /\ task'[q][l].snap = task[q][l].snap
  <2>1. task'[q][l].pc \in {"compare", "push"}
    BY <1>4 DEF Building
  <2>2. CASE q = p /\ l = k
    BY <1>3, <2>1, <2>2
  <2>3. CASE ~(q = p /\ l = k)
    BY <1>3, <2>1, <2>3 DEF Building
  <2>4. QED
    BY <2>2, <2>3
<1>5. QED
  BY <1>2, <1>4 DEF TasksKept

LEMMA TaskSame ==
  ASSUME task' = task PROVE TasksKept
BY DEF TasksKept, Building

(* One command changes *)
LEMMA OpStep ==
  ASSUME SessionsOK, CommandInv, snaps' = snaps, NEW p \in Sessions, NEW o \in Commands, OpTo(p, o),
         o.kind = "rewind" => o.target \in snaps, o.pc \in {"preview", "confirm"} => o.kind = "undo",
         o.kind = "none" => o.pc = "none"
  PROVE  op' \in [Sessions -> Commands] /\ CommandInv'
<1>1. op \in [Sessions -> Commands] /\ op' = [op EXCEPT ![p] = o]
  BY DEF SessionsOK, OpTo
<1>2. \A q \in Sessions : op'[q] = IF q = p THEN o ELSE op[q]
  BY <1>1
<1>3. QED
  BY <1>1, <1>2 DEF CommandInv

LEMMA OpSame ==
  ASSUME CommandInv, UNCHANGED <<op, snaps>> PROVE CommandInv'
BY DEF CommandInv

LEMMA StartTurnInv ==
  ASSUME CheckpointInv, NEW p \in Sessions, StartTurn(p) PROVE CheckpointInv'
<1>1. SessionsOK /\ CommandInv
  BY SessionsNow DEF CheckpointInv
<1>2. SessionsOK'
  BY <1>1 DEF StartTurn, SessionsOK, Turns
<1>3. CommandInv' /\ TasksKept
  BY <1>1, OpSame, TaskSame DEF StartTurn, repoVars
<1>4. QED
  BY <1>2, <1>3, Quiet DEF StartTurn, repoVars, lockVars, boundVars

LEMMA StartSnapshotInv ==
  ASSUME CheckpointInv, NEW p \in Sessions, StartSnapshot(p) PROVE CheckpointInv'
<1> DEFINE t == [pc |-> "build", held |-> "slot", snap |-> None, owner |-> Thread(p), turn |-> humans[p]]
<1>1. SessionsOK /\ CommandInv
  BY SessionsNow DEF CheckpointInv
<1>2. t \in Tasks /\ t.pc = "build"
  BY <1>1, NoneFacts DEF Tasks, Thread, Threads, SessionsOK
<1>3. TaskTo(p, ran[p], t)
  BY DEF StartSnapshot
<1> HIDE DEF t
<1>4. task' \in [Sessions -> [Runs -> Tasks]] /\ TasksKept
  BY <1>1, <1>2, <1>3, TaskStep
<1>5. SessionsOK'
  BY <1>1, <1>4 DEF StartSnapshot, SessionsOK, Turns
<1>6. CommandInv'
  BY <1>1, OpSame DEF StartSnapshot, repoVars
<1>7. QED
  BY <1>4, <1>5, <1>6, Quiet DEF StartSnapshot, repoVars, lockVars, boundVars, historyVars

LEMMA AwaitInv ==
  ASSUME CheckpointInv, NEW p \in Sessions, NEW where \in {"gate", "end"}, Await(p, where)
  PROVE  CheckpointInv'
<1>1. SessionsOK /\ CommandInv
  BY SessionsNow DEF CheckpointInv
<1>2. SessionsOK'
  BY <1>1 DEF Await, SessionsOK, Turns, threadVars
<1>3. CommandInv' /\ TasksKept
  BY <1>1, OpSame, TaskSame DEF Await, repoVars
<1>4. QED
  BY <1>2, <1>3, Quiet DEF Await, repoVars, lockVars, boundVars, historyVars

LEMMA FinishTurnInv ==
  ASSUME CheckpointInv, NEW p \in Sessions, FinishTurn(p) PROVE CheckpointInv'
<1>1. SessionsOK /\ CommandInv
  BY SessionsNow DEF CheckpointInv
<1>2. SessionsOK'
  BY <1>1 DEF FinishTurn, SessionsOK, Turns, threadVars
<1>3. CommandInv' /\ TasksKept
  BY <1>1, OpSame, TaskSame DEF FinishTurn, repoVars
<1>4. QED
  BY <1>2, <1>3, Quiet DEF FinishTurn, repoVars, lockVars, boundVars, historyVars

(* The turn's task is cancelled *)
LEMMA CancelledStep ==
  ASSUME SessionsOK, NEW p \in Sessions, Cancelled(p)
  PROVE  /\ task' \in [Sessions -> [Runs -> Tasks]] /\ TasksKept /\ turn' \in [Sessions -> Turns]
<1> DEFINE left == IF Waits(p) THEN "orphan" ELSE "detached"
           t == [Slot(p) EXCEPT !.held = left]
<1>1. turn' \in [Sessions -> Turns]
  BY DEF Cancelled, SessionsOK, Turns
<1>2. CASE task' = task
  BY <1>1, <1>2, TaskSame DEF SessionsOK
<1>3. CASE task' # task
  <2>1. TaskTo(p, ran[p], t)
    BY <1>3 DEF Cancelled
  <2>2. left \in {"orphan", "detached"}
    OBVIOUS
  <2> HIDE DEF left
  <2>3. ASSUME ran[p] \in Runs
        PROVE  t \in Tasks /\ t.pc = task[p][ran[p]].pc /\ t.snap = task[p][ran[p]].snap
    <3>1. Slot(p) \in Tasks /\ Slot(p) = task[p][ran[p]]
      BY <2>3 DEF Slot, SessionsOK
    <3>2. QED
      BY <2>2, <3>1 DEF Tasks
  <2> HIDE DEF t
  <2>4. ran[p] \in Runs /\ t.pc \in {"compare", "push"} =>
          Building(p, ran[p]) /\ t.snap = task[p][ran[p]].snap
    BY <2>3 DEF Building
  <2>5. QED
    BY <1>1, <2>1, <2>3, <2>4, TaskStep
<1>4. QED
  BY <1>2, <1>3

LEMMA CancelInv ==
  ASSUME CheckpointInv, NEW p \in Sessions, Cancel(p) PROVE CheckpointInv'
<1>1. SessionsOK /\ CommandInv
  BY SessionsNow DEF CheckpointInv
<1>2. task' \in [Sessions -> [Runs -> Tasks]] /\ TasksKept /\ turn' \in [Sessions -> Turns]
  BY <1>1, CancelledStep DEF Cancel
<1>3. SessionsOK'
  BY <1>1, <1>2 DEF Cancel, SessionsOK, threadVars
<1>4. CommandInv'
  BY <1>1, OpSame DEF Cancel, repoVars
<1>5. QED
  BY <1>2, <1>3, <1>4, Quiet DEF Cancel, repoVars, lockVars

LEMMA AbortInv ==
  ASSUME CheckpointInv, NEW p \in Sessions, Abort(p) PROVE CheckpointInv'
<1> DEFINE o == [NoOp EXCEPT !.kind = "abort", !.pc = "settle"]
<1>1. SessionsOK /\ CommandInv
  BY SessionsNow DEF CheckpointInv
<1>2. task' \in [Sessions -> [Runs -> Tasks]] /\ TasksKept /\ turn' \in [Sessions -> Turns]
  BY <1>1, CancelledStep DEF Abort
<1>3. o \in Commands /\ o.kind = "abort" /\ o.pc = "settle" /\ OpTo(p, o) /\ snaps' = snaps
  BY NoneTypes DEF NoOp, Commands, Kinds, Abort, repoVars
<1> HIDE DEF o
<1>4. op' \in [Sessions -> Commands] /\ CommandInv'
  BY <1>1, <1>3, OpStep
<1>5. SessionsOK'
  BY <1>1, <1>2, <1>4 DEF Abort, SessionsOK, threadVars
<1>6. QED
  BY <1>2, <1>4, <1>5, Quiet DEF Abort, repoVars, lockVars

LEMMA CommandStepInv ==
  ASSUME CheckpointInv, NEW p \in Sessions, NEW kind \in {"undo", "redo"}, Command(p, kind)
  PROVE  CheckpointInv'
<1> DEFINE o == [NoOp EXCEPT !.kind = kind, !.pc = "settle"]
<1>1. SessionsOK /\ CommandInv
  BY SessionsNow DEF CheckpointInv
<1>2. o \in Commands /\ o.kind = kind /\ o.pc = "settle" /\ OpTo(p, o) /\ snaps' = snaps
  BY NoneTypes DEF NoOp, Commands, Kinds, Command, repoVars
<1> HIDE DEF o
<1>3. op' \in [Sessions -> Commands] /\ CommandInv'
  BY <1>1, <1>2, OpStep
<1>4. SessionsOK' /\ TasksKept
  BY <1>1, <1>3, TaskSame DEF Command, SessionsOK, threadVars
<1>5. QED
  BY <1>3, <1>4, Quiet DEF Command, repoVars, lockVars, historyVars

(* A snapshot of the turn is found among the stored ones *)
LEMMA FindIs ==
  ASSUME CheckpointInv, NEW p \in Sessions, NEW k \in Nat, FindForTurn(p, k) # None
  PROVE  FindForTurn(p, k) \in snaps
<1> DEFINE hits == {f \in Lineage(p, k) : TaggedOn(p, f, k) # {}}
           near == CHOOSE f \in hits : \A g \in hits : g <= f
           tags == TaggedOn(p, near, k)
           pick == CHOOSE s \in tags : \A z \in tags : z.n <= s.n
<1>1. fork[p] \in Nat /\ builds \in Nat
  BY CheckpointsAssumption DEF CheckpointInv, TypeOK
<1>2. FindForTurn(p, k) = (IF hits = {} THEN None ELSE pick)
  BY DEF FindForTurn
<1>3. hits # {} /\ FindForTurn(p, k) = pick
  BY <1>2
<1>4. hits \subseteq 0 .. fork[p]
  BY DEF Lineage
<1>5. \E f \in hits : \A g \in hits : g <= f
  <2> HIDE DEF hits
  <2>1. QED
    BY <1>1, <1>3, <1>4, Greatest
<1>6. near \in hits
  BY <1>5
<1>7. tags # {}
  BY <1>6
<1>8. tags \subseteq snaps
  BY DEF TaggedOn
<1> HIDE DEF hits, near, tags
<1>9. \A s \in tags : s.n \in 0 .. builds
  <2>1. snaps \subseteq Snapshots /\ snaps \subseteq Storing
    BY StoringIs DEF CheckpointInv, TypeOK
  <2>2. \A s \in tags : s.n \in Nat /\ s.n <= builds
    BY <1>8, <2>1 DEF CheckpointInv, FreshInv, Snapshots
  <2>3. QED
    BY <1>1, <2>2
<1>10. \E s \in tags : \A z \in tags : z.n <= s.n
  <2> DEFINE N == {s.n : s \in tags}
  <2>1. N \subseteq 0 .. builds /\ N # {}
    BY <1>7, <1>9
  <2>2. \E x \in N : \A y \in N : y <= x
    <3> HIDE DEF N
    <3>1. QED
      BY <1>1, <2>1, Greatest
  <2>3. QED
    BY <2>2
<1>11. pick \in tags
  BY <1>10
<1>12. QED
  BY <1>3, <1>8, <1>11

LEMMA CompareSnapshotInv ==
  ASSUME CheckpointInv, NEW p \in Sessions, NEW k \in Runs, CompareSnapshot(p, k)
  PROVE  CheckpointInv'
<1> DEFINE t == task[p][k]
           u == [t EXCEPT !.pc = "push"]
<1>1. SessionsOK /\ CommandInv
  BY SessionsNow DEF CheckpointInv
<1>2. t \in Tasks /\ t.pc = "compare"
  BY <1>1 DEF SessionsOK, CompareSnapshot
<1>3. u \in Tasks /\ u.snap = t.snap
  BY <1>2 DEF Tasks
<1>4. TaskTo(p, k, OffTask) \/ TaskTo(p, k, u)
  BY DEF CompareSnapshot
<1>5. Building(p, k)
  BY <1>2 DEF Building
<1> HIDE DEF u
<1>6. task' \in [Sessions -> [Runs -> Tasks]] /\ TasksKept
  <2>1. CASE TaskTo(p, k, OffTask)
    <3>1. OffTask \in Tasks /\ OffTask.pc = "none"
      BY NoneTypes
    <3>2. QED
      BY <1>1, <2>1, <3>1, TaskStep
  <2>2. CASE TaskTo(p, k, u)
    BY <1>1, <1>3, <1>5, <2>2, TaskStep
  <2>3. QED
    BY <1>4, <2>1, <2>2
<1>7. SessionsOK'
  BY <1>1, <1>6 DEF CompareSnapshot, SessionsOK, threadVars
<1>8. CommandInv'
  BY <1>1, OpSame DEF CompareSnapshot, repoVars
<1>9. QED
  BY <1>6, <1>7, <1>8, Quiet DEF CompareSnapshot, repoVars, lockVars, boundVars, historyVars

LEMMA ForksStep ==
  ASSUME SessionsOK, NEW p \in Sessions, NEW k \in Nat, Forks(p, k)
  PROVE  fork' \in [Sessions -> Nat] /\ humans' \in [Sessions -> Nat]
BY DEF SessionsOK, Forks

LEMMA StartRewindInv ==
  ASSUME CheckpointInv, NEW p \in Sessions, NEW k \in Nat, StartRewind(p, k)
  PROVE  CheckpointInv'
<1> DEFINE s == FindForTurn(p, k)
           o == [NoOp EXCEPT !.kind = "rewind", !.pc = "settle", !.target = s, !.turn = k]
<1>1. SessionsOK /\ CommandInv /\ snaps \subseteq Snapshots
  BY SessionsNow DEF CheckpointInv, TypeOK
<1>2. UNCHANGED <<tree, refs, snaps, lock, todo, edits, builds, torn, replaced, excused, turn, task>>
  BY DEF StartRewind, repoVars, lockVars, historyVars
<1>3. TasksKept
  BY <1>2, TaskSame
<1>4. CASE s = None
  <2>1. Forks(p, k) /\ op' = op
    BY <1>4 DEF StartRewind
  <2>2. SessionsOK'
    BY <1>1, <1>2, <2>1, ForksStep DEF SessionsOK
  <2>3. CommandInv'
    BY <1>1, <1>2, <2>1, OpSame
  <2>4. QED
    BY <1>2, <1>3, <2>2, <2>3, Quiet
<1>5. CASE s # None
  <2>1. OpTo(p, o) /\ fork' = fork /\ humans' = humans
    BY <1>5 DEF StartRewind, threadVars
  <2>2. s \in snaps
    BY <1>5, FindIs
  <2> HIDE DEF s
  <2>3. o \in Commands /\ o.kind = "rewind" /\ o.pc = "settle" /\ o.target = s
    BY <1>1, <2>2, NoneTypes, NoneFacts DEF NoOp, Commands, Kinds
  <2> HIDE DEF o
  <2>4. op' \in [Sessions -> Commands] /\ CommandInv'
    BY <1>1, <1>2, <2>1, <2>2, <2>3, OpStep
  <2>5. SessionsOK'
    BY <1>1, <1>2, <2>1, <2>4 DEF SessionsOK
  <2>6. QED
    BY <1>2, <1>3, <2>4, <2>5, Quiet
<1>6. QED
  BY <1>4, <1>5

(* A step of a command that only moves the command on *)
LEMMA MovesOn ==
  ASSUME CheckpointInv, NEW p \in Sessions, NEW o \in Commands, OpTo(p, o),
         o.kind = "rewind" => o.target \in snaps, o.pc \in {"preview", "confirm"} => o.kind = "undo",
         o.kind = "none" => o.pc = "none",
         UNCHANGED <<repoVars, lockVars, threadVars, turn, task, edits, builds, historyVars>>
  PROVE  CheckpointInv'
<1>1. SessionsOK /\ CommandInv
  BY SessionsNow DEF CheckpointInv
<1>2. op' \in [Sessions -> Commands] /\ CommandInv'
  BY <1>1, OpStep DEF repoVars
<1>3. SessionsOK' /\ TasksKept
  BY <1>1, <1>2, TaskSame DEF SessionsOK, threadVars
<1>4. QED
  BY <1>2, <1>3, Quiet DEF repoVars, lockVars, historyVars

LEMMA GivesUpInv ==
  ASSUME CheckpointInv, NEW p \in Sessions, GivesUp(p) PROVE CheckpointInv'
<1>1. NoOp \in Commands /\ NoOp.kind = "none" /\ NoOp.pc = "none"
  BY NoneTypes
<1>2. QED
  BY <1>1, MovesOn DEF GivesUp

LEMMA SettleInv ==
  ASSUME CheckpointInv, NEW p \in Sessions, Settle(p) PROVE CheckpointInv'
<1> DEFINE to == IF op[p].kind = "undo" THEN "preview" ELSE "want"
           o == [op[p] EXCEPT !.pc = to]
<1>1. /\ op[p] \in Commands /\ (op[p].kind = "rewind" => op[p].target \in snaps)
      /\ op[p].kind # "none"
  BY SessionsNow DEF CheckpointInv, SessionsOK, CommandInv, Settle
<1>2. to \in {"preview", "want"} /\ (to = "preview" => op[p].kind = "undo")
  OBVIOUS
<1>3. OpTo(p, o)
  BY DEF Settle
<1> HIDE DEF to
<1>4. o \in Commands /\ o.kind = op[p].kind /\ o.target = op[p].target /\ o.pc = to
  BY <1>1, <1>2 DEF Commands
<1> HIDE DEF o
<1>5. UNCHANGED <<repoVars, lockVars, threadVars, turn, task, edits, builds, historyVars>>
  BY DEF Settle, boundVars
<1>6. QED
  BY <1>1, <1>2, <1>3, <1>4, <1>5, MovesOn

LEMMA Tops ==
  ASSUME TypeOK, NEW st \in Stacks
  PROVE  refs[st] \in Refs /\ refs[st][0] \in Entries /\ 0 \in Indexes
<1>1. refs[st] \in Refs /\ 0 \in Indexes
  BY IndexFacts DEF TypeOK
<1>2. QED
  BY <1>1 DEF Refs

LEMMA PreviewInv ==
  ASSUME CheckpointInv, NEW p \in Sessions, Preview(p) PROVE CheckpointInv'
<1> DEFINE top == refs["undo"][0]
           o == [op[p] EXCEPT !.pc = "confirm", !.target = top, !.tree = tree]
<1>1. CASE GivesUp(p)
  BY <1>1, GivesUpInv
<1>2. CASE ~GivesUp(p)
  <2>1. /\ OpTo(p, o) /\ op[p].pc = "preview"
        /\ UNCHANGED <<repoVars, lockVars, threadVars, turn, task, edits, builds, historyVars>>
    BY <1>2 DEF Preview, boundVars
  <2>2. op[p] \in Commands /\ op[p].kind = "undo"
    BY <2>1, SessionsNow DEF CheckpointInv, SessionsOK, CommandInv
  <2>3. top \in Entries /\ tree \in Trees
    BY Tops DEF CheckpointInv, TypeOK, Stacks
  <2> HIDE DEF top
  <2>4. o \in Commands /\ o.kind = "undo"
    BY <2>2, <2>3 DEF Commands
  <2> HIDE DEF o
  <2>5. QED
    BY <2>1, <2>4, MovesOn
<1>3. QED
  BY <1>1, <1>2

LEMMA ConfirmInv ==
  ASSUME CheckpointInv, NEW p \in Sessions, Confirm(p) PROVE CheckpointInv'
<1> DEFINE o == [op[p] EXCEPT !.pc = "want"]
<1>1. /\ op[p] \in Commands /\ (op[p].kind = "rewind" => op[p].target \in snaps)
      /\ op[p].kind # "none"
  BY SessionsNow DEF CheckpointInv, SessionsOK, CommandInv, Confirm
<1>2. o \in Commands /\ o.kind = op[p].kind /\ o.target = op[p].target /\ o.pc = "want"
  BY <1>1 DEF Commands
<1>3. OpTo(p, o) /\ UNCHANGED <<repoVars, lockVars, threadVars, turn, task, edits, builds, historyVars>>
  BY DEF Confirm, boundVars
<1> HIDE DEF o
<1>4. QED
  BY <1>1, <1>2, <1>3, MovesOn

LEMMA DeclineInv ==
  ASSUME CheckpointInv, NEW p \in Sessions, Decline(p) PROVE CheckpointInv'
BY GivesUpInv DEF Decline

-----------------------------------------------------------------------------
(* Edits, ref writes and snapshots. *)

LEMMA EditStep ==
  ASSUME CheckpointInv, Edits, SessionsOK', TasksKept, op' = op,
         UNCHANGED <<refs, snaps, lock, todo, builds, torn, replaced>>
  PROVE  CheckpointInv'
<1>0. /\ edits \in 0 .. MaxEdits /\ edits < MaxEdits /\ MaxEdits \in Nat /\ MaxFaults \in Nat
      /\ edits' = edits + 1 /\ tree' = edits + 1
  BY CheckpointsAssumption DEF CheckpointInv, TypeOK, Edits
<1>1. TypeOK'
  <2>1. tree' \in Trees /\ edits' \in 0 .. MaxEdits
    BY <1>0 DEF Trees
  <2>2. QED
    BY <2>1 DEF CheckpointInv, TypeOK, SessionsOK, Turns
<1>2. excused \subseteq excused' /\ (~Free => tree' \in excused')
  BY <1>0 DEF Edits, Free
<1>3. LockInv'
  <2>1. Free => lock.phase # "pop"
    BY NoneTypes DEF Free
  <2>2. QED
    BY <1>2, <2>1 DEF CheckpointInv, LockInv, Free
<1>4. CommandInv'
  BY OpSame DEF CheckpointInv
<1>5. FreshInv'
  <2>1. (Storing)' = Storing
    BY StoringIs
  <2>2. QED
    BY <2>1, FreshKept DEF CheckpointInv
<1>6. WorkInv'
  BY <1>2 DEF CheckpointInv, WorkInv, Saved, Unsaved
<1>7. StackInv'
  BY StackKept DEF CheckpointInv
<1>8. QED
  BY <1>1, <1>3, <1>4, <1>5, <1>6, <1>7 DEF CheckpointInv

LEMMA UserEditInv ==
  ASSUME CheckpointInv, UserEdit PROVE CheckpointInv'
<1>1. SessionsOK' /\ TasksKept
  BY SessionsNow, TaskSame DEF CheckpointInv, UserEdit, SessionsOK, threadVars, sessionVars
<1>2. QED
  BY <1>1, EditStep DEF UserEdit, lockVars, sessionVars

LEMMA MutateInv ==
  ASSUME CheckpointInv, NEW p \in Sessions, Mutate(p) PROVE CheckpointInv'
<1>1. SessionsOK' /\ TasksKept
  BY SessionsNow, TaskSame DEF CheckpointInv, Mutate, SessionsOK, threadVars, Turns
<1>2. QED
  BY <1>1, EditStep DEF Mutate, lockVars

(* The head of the list and the rest *)
LEMMA HeadFacts ==
  ASSUME NEW ws \in Seq(Writes), ws # <<>>
  PROVE  /\ Head(ws) \in Writes /\ Head(ws) = ws[1] /\ Tail(ws) \in Seq(Writes)
         /\ Len(ws) \in Nat /\ 1 \in 1 .. Len(ws) /\ DOMAIN ws = 1 .. Len(ws)
         /\ Len(Tail(ws)) = Len(ws) - 1 /\ DOMAIN Tail(ws) = 1 .. Len(Tail(ws))
         /\ \A l \in 1 .. Len(Tail(ws)) : l + 1 \in 1 .. Len(ws) /\ Tail(ws)[l] = ws[l + 1]
OBVIOUS

LEMMA StoredHead ==
  ASSUME NEW ws \in Seq(Writes), ws # <<>>
  PROVE  /\ Stored(Tail(ws)) \subseteq Stored(ws)
         /\ Head(ws).st = "snap" => Stored(ws) = Stored(Tail(ws)) \cup {Head(ws).snap}
         /\ Head(ws).st # "snap" => Stored(ws) = Stored(Tail(ws))
<1> DEFINE a == <<Head(ws)>>
           b == Tail(ws)
<1>1. Head(ws) \in Writes /\ b \in Seq(Writes) /\ a \in Seq(Writes) /\ ws = a \o b
  OBVIOUS
<1>2. Stored(a) = IF Head(ws).st = "snap" THEN {Head(ws).snap} ELSE {}
  <2>1. ToSet(a) = {Head(ws)}
    BY DEF ToSet
  <2>2. QED
    BY <2>1 DEF Stored
<1> HIDE DEF a, b
<1>3. Stored(a \o b) = Stored(a) \cup Stored(b)
  BY <1>1, StoredConcat
<1>4. Stored(ws) = Stored(a) \cup Stored(b)
  BY <1>1, <1>3, Zenon
<1>5. QED
  BY <1>2, <1>4 DEF b

(* What the restore in progress has still to store *)
LEMMA UnsavedIs ==
  ASSUME TypeOK
  PROVE  \A x : x \in Unsaved <=> x = lock.pre.tree /\ lock.kind # "snapshot" /\ Stored(todo) # {}
<1>1. todo \in Seq(Writes)
  BY DEF TypeOK
<1>2. QED
  BY DEF Unsaved, Stored

LEMMA UnsavedNext ==
  ASSUME TypeOK'
  PROVE  \A x : x \in Unsaved' <=> x = lock'.pre.tree /\ lock'.kind # "snapshot" /\ Stored(todo') # {}
BY DEF Unsaved, Stored

LEMMA WriteRefInv ==
  ASSUME CheckpointInv, WriteRef PROVE CheckpointInv'
<1> DEFINE w == Head(todo)
<1>0. /\ TypeOK /\ todo \in Seq(Writes) /\ todo # <<>> /\ todo' = Tail(todo) /\ w \in Writes
      /\ refs \in [Stacks -> Refs] /\ snaps \subseteq Snapshots
  BY HeadFacts DEF CheckpointInv, TypeOK, WriteRef
<1>1. /\ refs' = WrittenTo(refs, w) /\ snaps' = (IF w.st = "snap" THEN snaps \cup {w.snap} ELSE snaps)
      /\ UNCHANGED <<tree, lock, fork, humans, turn, task, op, edits, builds, torn, replaced, excused>>
  BY DEF WriteRef, threadVars, sessionVars, boundVars, historyVars
<1>2. w.st = "snap" => lock.phase = "finish" /\ w.snap = lock.pre /\ lock.pre \in Snapshots
  <2>1. 1 \in DOMAIN todo /\ w = todo[1]
    BY <1>0, HeadFacts
  <2>2. w.st = "snap" => lock.phase = "finish" /\ w.snap = lock.pre /\ lock.pre # None
    BY <2>1 DEF CheckpointInv, LockInv
  <2>3. lock.pre \in Entries
    BY <1>0 DEF TypeOK, Locks
  <2>4. QED
    BY <2>2, <2>3 DEF Entries
<1>3. ASSUME NEW st \in Stacks PROVE refs'[st] = Written(st, refs[st], w) /\ refs'[st] \in Refs
  <2>1. refs[st] \in Refs /\ Written(st, refs[st], w) \in Refs
    BY <1>0, AfterOne
  <2>2. refs'[st] = Written(st, refs[st], w)
    <3>1. w.st \in Stacks \cup {"snap"} /\ "snap" \notin Stacks
      BY <1>0 DEF Writes, Stacks
    <3>2. CASE w.st = "snap"
      BY <1>1, <3>1, <3>2 DEF WrittenTo, Written
    <3>3. CASE w.st # "snap"
      <4>1. refs' = [refs EXCEPT ![w.st] = [refs[w.st] EXCEPT ![w.i] = w.snap]]
        BY <1>1, <3>3 DEF WrittenTo
      <4>2. QED
        BY <1>0, <3>1, <3>3, <4>1 DEF Written
    <3>4. QED
      BY <3>2, <3>3
  <2>3. QED
    BY <2>1, <2>2
<1>4. refs' \in [Stacks -> Refs]
  <2>1. refs' = [st \in Stacks |-> refs'[st]]
    BY <1>0, <1>1 DEF WrittenTo
  <2>2. QED
    BY <1>3, <2>1
<1>5. snaps' \subseteq Snapshots /\ snaps \subseteq snaps'
  BY <1>0, <1>1, <1>2
<1>6. TypeOK'
  BY <1>0, <1>1, <1>4, <1>5, HeadFacts DEF TypeOK
<1>7. LockInv'
  <2>0. LockInv
    BY DEF CheckpointInv
  <2>1. ~Free
    BY <1>0, <2>0 DEF LockInv
  <2>2. ASSUME NEW j \in DOMAIN todo', todo'[j].st = "snap"
        PROVE  lock.phase = "finish" /\ todo'[j].snap = lock.pre /\ lock.pre # None
    <3>1. j + 1 \in DOMAIN todo /\ todo'[j] = todo[j + 1]
      BY <1>0, <2>2, HeadFacts
    <3>2. QED
      BY <2>0, <2>2, <3>1 DEF LockInv
  <2>3. QED
    BY <1>1, <2>0, <2>1, <2>2 DEF LockInv, Free
<1>8. CommandInv'
  BY <1>1, <1>5 DEF CheckpointInv, CommandInv
<1>9. (Storing)' = Storing
  BY <1>0, <1>1, StoredHead, StoringIs
<1>10. TasksKept
  BY <1>1, TaskSame
<1>11. FreshInv'
  BY <1>0, <1>1, <1>9, <1>10, FreshKept DEF CheckpointInv
<1>12. WorkInv'
  <2>1. ASSUME NEW x \in replaced PROVE x \in Saved' \cup excused \cup Unsaved'
    <3>1. CASE x \in Saved
      BY <1>5, <3>1 DEF Saved
    <3>2. CASE x \in Unsaved
      <4>1. x = lock.pre.tree /\ lock.kind # "snapshot" /\ Stored(todo) # {}
        BY <1>0, <3>2, UnsavedIs
      <4>2. CASE w.st = "snap"
        <5>1. lock.pre \in snaps'
          BY <1>1, <1>2, <4>2
        <5>2. QED
          BY <4>1, <5>1 DEF Saved
      <4>3. CASE w.st # "snap"
        <5>1. Stored(todo') # {}
          BY <1>0, <4>1, <4>3, StoredHead
        <5>2. QED
          BY <1>1, <1>6, <4>1, <5>1, UnsavedNext
      <4>4. QED
        BY <4>2, <4>3
    <3>3. CASE x \in excused
      BY <3>3
    <3>4. QED
      BY <3>1, <3>2, <3>3 DEF CheckpointInv, WorkInv
  <2>2. QED
    BY <1>1, <2>1 DEF WorkInv
<1>13. StackInv'
  <2>1. ASSUME NEW st \in Stacks PROVE After(st, refs'[st], todo') = After(st, refs[st], todo)
    <3>1. refs[st] \in Refs
      BY <1>0
    <3>2. After(st, Written(st, refs[st], w), Tail(todo)) = After(st, refs[st], todo)
      BY <1>0, <3>1, AfterHead
    <3>3. QED
      BY <1>0, <1>3, <3>2, Zenon
  <2>2. CASE lock.phase = "pop"
    <3>1. snaps' = snaps
      BY <1>1, <1>2, <2>2
    <3>2. QED
      BY <1>1, <2>1, <2>2, <3>1, Zenon DEF CheckpointInv, StackInv
  <2>3. CASE lock.phase # "pop"
    BY <1>1, <1>9, <2>1, <2>3, Zenon DEF CheckpointInv, StackInv
  <2>4. QED
    BY <2>2, <2>3
<1>14. QED
  BY <1>6, <1>7, <1>8, <1>11, <1>12, <1>13 DEF CheckpointInv

LEMMA WriteFailsInv ==
  ASSUME CheckpointInv, WriteFails PROVE CheckpointInv'
<1>0. TypeOK /\ LockInv /\ todo \in Seq(Writes) /\ todo # <<>>
  BY DEF CheckpointInv, TypeOK, WriteFails
<1>1. /\ todo' = <<>> \/ todo' = Tail(todo)
      /\ torn' = "ref" /\ excused' = excused \cup Unsaved
      /\ UNCHANGED <<tree, refs, snaps, lock, fork, humans, turn, task, op, edits, builds, replaced>>
  BY DEF WriteFails, repoVars, threadVars, sessionVars
<1>2. todo' \in Seq(Writes) /\ Stored(todo') \subseteq Stored(todo)
  <2>1. CASE todo' = <<>>
    BY <2>1, StoredEmpty
  <2>2. CASE todo' = Tail(todo)
    BY <1>0, <2>2, HeadFacts, StoredHead
  <2>3. QED
    BY <1>1, <2>1, <2>2
<1>3. TypeOK'
  BY <1>0, <1>1, <1>2 DEF TypeOK
<1>4. LockInv'
  <2>1. ~Free
    BY <1>0 DEF LockInv
  <2>2. ASSUME NEW j \in DOMAIN todo', todo'[j].st = "snap"
        PROVE  lock.phase = "finish" /\ todo'[j].snap = lock.pre /\ lock.pre # None
    <3>1. todo' = Tail(todo)
      BY <1>1, <2>2
    <3>2. j + 1 \in DOMAIN todo /\ todo'[j] = todo[j + 1]
      BY <1>0, <2>2, <3>1, HeadFacts
    <3>3. QED
      BY <1>0, <2>2, <3>2 DEF LockInv
  <2>3. QED
    BY <1>0, <1>1, <2>1, <2>2 DEF LockInv, Free
<1>5. CommandInv'
  BY <1>1, OpSame DEF CheckpointInv
<1>6. FreshInv'
  <2>1. (Storing)' \subseteq Storing /\ TasksKept
    BY <1>1, <1>2, StoringIs, TaskSame
  <2>2. QED
    BY <1>0, <1>1, <2>1, FreshKept DEF CheckpointInv
<1>7. WorkInv'
  BY <1>1 DEF CheckpointInv, WorkInv, Saved
<1>8. StackInv'
  BY <1>1 DEF StackInv
<1>9. QED
  BY <1>3, <1>4, <1>5, <1>6, <1>7, <1>8 DEF CheckpointInv

(* A commit that was just built is nobody else's *)
LEMMA BuiltIs ==
  ASSUME CheckpointInv, NEW owner \in Threads \cup {NoThread}, NEW k \in Nat,
         NEW kind \in {"turn", "pre"}
  PROVE  LET s == Built(owner, k, kind) IN
         /\ s \in Snapshots \ Storing /\ s.n = builds + 1 /\ s.tree = tree /\ s # None
         /\ lock.pre # s
         /\ \A p \in Sessions, l \in Runs : Building(p, l) => task[p][l].snap # s
<1> DEFINE s == Built(owner, k, kind)
<1>0. builds \in Nat /\ tree \in Trees
  BY CheckpointsAssumption DEF CheckpointInv, TypeOK
<1>1. s \in Snapshots /\ s.n = builds + 1 /\ s.tree = tree
  BY <1>0 DEF Built, Snapshots
<1> HIDE DEF s
<1>2. ASSUME NEW z, z.n <= builds PROVE z # s
  BY <1>0, <1>1, <1>2
<1>3. s # None
  BY <1>1, NoneFacts
<1>4. s \notin Storing
  BY <1>2 DEF CheckpointInv, FreshInv
<1>5. lock.pre # s
  BY <1>2, <1>3 DEF CheckpointInv, FreshInv
<1>6. \A p \in Sessions, l \in Runs : Building(p, l) => task[p][l].snap # s
  BY <1>2 DEF CheckpointInv, FreshInv
<1>7. QED
  BY <1>1, <1>3, <1>4, <1>5, <1>6 DEF s

(* One more commit is built: the others stay what they were *)
LEMMA OneMore ==
  ASSUME CheckpointInv
  PROVE  /\ \A s \in Storing : s.n <= builds + 1
         /\ lock.pre # None => lock.pre.n <= builds + 1
         /\ \A p \in Sessions, k \in Runs : Building(p, k) => task[p][k].snap.n <= builds + 1
<1>0. builds \in Nat /\ Storing \subseteq Snapshots /\ (lock.pre # None => lock.pre \in Snapshots)
  BY CheckpointsAssumption, StoringType DEF CheckpointInv, TypeOK, Entries
<1>1. \A s \in Snapshots : s.n \in Nat
  BY DEF Snapshots
<1>2. \A s \in Snapshots : s.n <= builds => s.n <= builds + 1
  BY <1>0, <1>1
<1>3. QED
  BY <1>0, <1>2 DEF CheckpointInv, FreshInv

LEMMA BuildSnapshotInv ==
  ASSUME CheckpointInv, NEW p \in Sessions, NEW k \in Runs, BuildSnapshot(p, k)
  PROVE  CheckpointInv'
<1> DEFINE t == task[p][k]
           s == Built(t.owner, t.turn, "turn")
           u == [t EXCEPT !.pc = "compare", !.snap = s]
<1>1. SessionsOK /\ CommandInv /\ TypeOK /\ LockInv /\ FreshInv
  BY SessionsNow DEF CheckpointInv
<1>2. /\ t.pc = "build"
      /\ UNCHANGED <<tree, refs, snaps, lock, todo, fork, humans, turn, op, edits, torn, replaced,
                     excused>>
  BY DEF BuildSnapshot, repoVars, lockVars, threadVars
<1>3. t \in Tasks
  BY <1>1 DEF SessionsOK
<1>4. CommandInv'
  BY <1>1, <1>2, OpSame
<1>5. CASE TaskTo(p, k, OffTask) /\ builds' = builds
  <2>1. OffTask \in Tasks /\ OffTask.pc = "none"
    BY NoneTypes
  <2>2. task' \in [Sessions -> [Runs -> Tasks]] /\ TasksKept
    BY <1>1, <1>5, <2>1, TaskStep
  <2>3. SessionsOK'
    BY <1>1, <1>2, <2>2 DEF SessionsOK
  <2>4. QED
    BY <1>2, <1>4, <1>5, <2>2, <2>3, Quiet
<1>6. CASE TaskTo(p, k, u) /\ CanBuild /\ builds' = builds + 1
  <2>1. /\ s \in Snapshots \ Storing /\ s.n = builds + 1 /\ s # None /\ lock.pre # s
        /\ \A q \in Sessions, l \in Runs : Building(q, l) => task[q][l].snap # s
    <3>1. t.owner \in Threads \cup {NoThread} /\ t.turn \in Nat
      BY <1>3 DEF Tasks
    <3> HIDE DEF t
    <3>2. QED
      BY <3>1, BuiltIs
  <2> HIDE DEF s
  <2>2. u \in Tasks /\ u.snap = s /\ u.pc = "compare"
    BY <1>3, <2>1, NoneFacts DEF Tasks
  <2> HIDE DEF u
  <2>3. task \in [Sessions -> [Runs -> Tasks]] /\ task' = [task EXCEPT ![p][k] = u]
    BY <1>1, <1>6 DEF SessionsOK, TaskTo
  <2>4. task' \in [Sessions -> [Runs -> Tasks]]
    BY <2>2, <2>3
  <2>5. \A q \in Sessions, l \in Runs : task'[q][l] = IF q = p /\ l = k THEN u ELSE task[q][l]
    BY <2>3
  <2>6. builds \in 0 .. MaxBuilds /\ builds' \in 0 .. MaxBuilds
    BY <1>1, <1>6, CheckpointsAssumption DEF TypeOK, CanBuild
  <2>7. TypeOK'
    BY <1>1, <1>2, <2>4, <2>6 DEF TypeOK
  <2>8. LockInv'
    BY <1>1, <1>2 DEF LockInv, Free
  <2>9. (Storing)' = Storing
    BY <1>2, StoringIs
  <2>10. \A q \in Sessions, l \in Runs :
           Building(q, l)' => \/ q = p /\ l = k /\ task'[q][l].snap = s
                              \/ Building(q, l) /\ ~(q = p /\ l = k) /\ task'[q][l].snap = task[q][l].snap
    BY <2>2, <2>5 DEF Building
  <2>11. FreshInv'
    <3>1. \A z \in Storing : z.n <= builds'
      BY <1>6, OneMore
    <3>2. lock.pre # None => lock.pre.n <= builds'
      BY <1>6, OneMore
    <3>3. ASSUME NEW q \in Sessions, NEW l \in Runs, Building(q, l)'
          PROVE  /\ task'[q][l].snap \in Snapshots \ Storing /\ task'[q][l].snap.n <= builds'
                 /\ lock.phase = "pop" => task'[q][l].snap # lock.pre
      <4>1. CASE task'[q][l].snap = s
        BY <1>6, <2>1, <2>6, <4>1
      <4>2. CASE Building(q, l) /\ task'[q][l].snap = task[q][l].snap
        BY <1>1, <1>6, <4>2, OneMore DEF FreshInv
      <4>3. QED
        BY <2>10, <3>3, <4>1, <4>2
    <3>4. ASSUME NEW q \in Sessions, NEW m \in Sessions, NEW l \in Runs, NEW j \in Runs,
                 Building(q, l)', Building(m, j)', task'[q][l].snap = task'[m][j].snap
          PROVE  q = m /\ l = j
      BY <1>1, <2>1, <2>10, <3>4 DEF FreshInv
    <3>5. QED
      BY <1>1, <1>2, <2>9, <3>1, <3>2, <3>3, <3>4 DEF FreshInv
  <2>12. WorkInv'
    BY <1>2 DEF CheckpointInv, WorkInv, Saved, Unsaved
  <2>13. StackInv'
    BY <1>2, StackKept DEF CheckpointInv
  <2>14. QED
    BY <1>4, <2>7, <2>8, <2>11, <2>12, <2>13 DEF CheckpointInv
<1>7. QED
  BY <1>5, <1>6 DEF BuildSnapshot

LEMMA PushSnapshotInv ==
  ASSUME CheckpointInv, NEW p \in Sessions, NEW k \in Runs, PushSnapshot(p, k)
  PROVE  CheckpointInv'
<1> DEFINE t == task[p][k]
           s == t.snap
           u == [t EXCEPT !.pc = "write"]
           held == [NoLock EXCEPT !.sess = p, !.job = k, !.kind = "snapshot", !.phase = "finish", !.pre = s]
<1>1. SessionsOK /\ CommandInv /\ TypeOK /\ LockInv /\ FreshInv /\ refs \in [Stacks -> Refs]
  BY SessionsNow DEF CheckpointInv, TypeOK
<1>2. /\ t.pc = "push" /\ Free /\ todo = <<>> /\ lock' = held /\ todo' = SnapshotWrites(refs, s)
      /\ UNCHANGED <<tree, refs, snaps, fork, humans, turn, op, edits, builds, torn, replaced, excused>>
  BY <1>1 DEF PushSnapshot, LockInv, repoVars, threadVars, boundVars
<1>3. Building(p, k) /\ s \in Snapshots \ Storing /\ s.n <= builds /\ Storing = snaps
  BY <1>1, <1>2, StoringIs, StoredEmpty DEF Building, FreshInv
<1>4. /\ held \in Locks /\ held.sess = p /\ held.kind = "snapshot" /\ held.phase = "finish"
      /\ held.pre = s /\ held # NoLock
  <2>1. k \in Nat /\ s \in Entries /\ NoLock.kind # "snapshot"
    BY <1>3, NoneFacts, NoneTypes DEF Runs
  <2> HIDE DEF s
  <2>2. QED
    BY <2>1, NoneFacts DEF NoLock, Locks
<1> HIDE DEF held
<1>5. t \in Tasks /\ u \in Tasks /\ u.pc = "write" /\ TaskTo(p, k, u)
  <2>1. t \in Tasks
    BY <1>1 DEF SessionsOK
  <2>2. TaskTo(p, k, u)
    BY DEF PushSnapshot
  <2> HIDE DEF t
  <2>3. u \in Tasks /\ u.pc = "write"
    BY <2>1 DEF Tasks
  <2>4. QED
    BY <2>1, <2>2, <2>3
<1> HIDE DEF u
<1>6. task' \in [Sessions -> [Runs -> Tasks]] /\ TasksKept
  BY <1>1, <1>5, TaskStep
<1>7. ASSUME NEW q \in Sessions, NEW l \in Runs, Building(q, l)'
      PROVE  Building(q, l) /\ task'[q][l].snap = task[q][l].snap /\ task[q][l].snap # s
  <2>1. Building(q, l) /\ task'[q][l].snap = task[q][l].snap
    BY <1>6, <1>7 DEF TasksKept
  <2>2. ~(q = p /\ l = k)
    BY <1>1, <1>5, <1>7 DEF TaskTo, Building, SessionsOK
  <2>3. QED
    BY <1>1, <1>3, <2>1, <2>2 DEF FreshInv
<1>8. todo' \in Seq(Writes) /\ Stored(todo') = {s}
  <2> HIDE DEF s
  <2>1. QED
    BY <1>1, <1>2, <1>3, SnapshotAny
<1>9. TypeOK'
  BY <1>1, <1>2, <1>4, <1>6, <1>8 DEF TypeOK
<1>10. LockInv'
  <2>1. \A j \in DOMAIN todo' : todo'[j].st = "snap" => todo'[j].snap = s
    <3>1. DOMAIN todo' = 1 .. Len(todo')
      BY <1>8
    <3>2. \A j \in DOMAIN todo' : todo'[j].st = "snap" => todo'[j].snap \in Stored(todo')
      BY <1>8, <3>1, StoredIs
    <3>3. QED
      BY <1>8, <3>2
  <2>2. /\ s # None /\ lock'.phase = "finish" /\ lock'.pre = s /\ lock'.sess \in Sessions
        /\ lock'.kind = "snapshot" /\ lock' # NoLock
    BY <1>2, <1>3, <1>4, NoneFacts
  <2> HIDE DEF s
  <2>3. QED
    BY <2>1, <2>2 DEF LockInv, Free
<1>11. CommandInv'
  BY <1>1, <1>2, OpSame
<1>12. (Storing)' = snaps \cup {s}
  BY <1>2, <1>8, StoringIs
<1>13. FreshInv'
  <2>0. lock'.phase = "finish" /\ lock'.pre = s
    BY <1>2, <1>4
  <2>1. \A z \in (Storing)' : z.n <= builds'
    BY <1>1, <1>2, <1>3, <1>12 DEF FreshInv
  <2>2. ASSUME NEW q \in Sessions, NEW l \in Runs, Building(q, l)'
        PROVE  task'[q][l].snap \in Snapshots \ (Storing)' /\ task'[q][l].snap.n <= builds'
    BY <1>1, <1>2, <1>3, <1>7, <1>12, <2>2 DEF FreshInv
  <2>3. ASSUME NEW q \in Sessions, NEW m \in Sessions, NEW l \in Runs, NEW j \in Runs,
               Building(q, l)', Building(m, j)', task'[q][l].snap = task'[m][j].snap
        PROVE  q = m /\ l = j
    BY <1>1, <1>7, <2>3 DEF FreshInv
  <2> HIDE DEF s
  <2>4. QED
    BY <1>2, <1>3, <2>0, <2>1, <2>2, <2>3 DEF FreshInv
<1>14. WorkInv'
  <2>1. Unsaved = {}
    BY <1>1, <1>2, UnsavedIs, StoredEmpty
  <2>2. QED
    BY <1>2, <2>1 DEF CheckpointInv, WorkInv, Saved
<1>15. StackInv'
  <2>1. SUFFICES ASSUME torn' = "no" PROVE \A st \in Stacks : Whole(After(st, refs'[st], todo'), (Storing)')
    <3>1. lock'.phase # "pop"
      BY <1>2, <1>4
    <3>2. QED
      BY <2>1, <3>1, Zenon DEF StackInv
  <2>2. ASSUME NEW st \in Stacks PROVE refs[st] \in Refs /\ Whole(refs[st], snaps)
    <3>1. lock.phase # "pop"
      BY <1>2, NoneTypes DEF Free
    <3>2. Whole(After(st, refs[st], todo), Storing)
      BY <1>2, <2>1, <3>1, Zenon DEF CheckpointInv, StackInv
    <3>3. After(st, refs[st], todo) = refs[st]
      BY <1>2, StoredEmpty
    <3>4. QED
      BY <1>1, <1>3, <3>2, <3>3
  <2>3. "undo" \in Stacks /\ "redo" \in Stacks /\ \A st \in Stacks : st = "undo" \/ st = "redo"
    BY DEF Stacks
  <2>4. PICK n \in 0 .. MaxStack : Shape(refs["undo"], n)
    BY <2>2, <2>3, WholeShape
  <2>5. PICK m \in 0 .. MaxStack : Shape(refs["redo"], m)
    BY <2>2, <2>3, WholeShape
  <2> HIDE DEF s
  <2>6. /\ After("undo", refs["undo"], todo') = CutAt(Pushed(refs["undo"], s), MaxStack)
        /\ After("redo", refs["redo"], todo') = CutAt(refs["redo"], 0)
    BY <1>1, <1>2, <1>3, <2>4, <2>5, SnapshotIs
  <2>7. Whole(CutAt(Pushed(refs["undo"], s), MaxStack), snaps \cup {s})
    BY <1>3, <2>2, <2>3, WholeSaved
  <2>8. Whole(CutAt(refs["redo"], 0), snaps \cup {s})
    BY WholeCleared
  <2>9. QED
    BY <1>2, <1>12, <2>3, <2>6, <2>7, <2>8
<1>16. QED
  BY <1>9, <1>10, <1>11, <1>13, <1>14, <1>15 DEF CheckpointInv

-----------------------------------------------------------------------------
(* The lock is released. *)

LEMMA Released ==
  ASSUME CheckpointInv, SessionsOK', CommandInv', TasksKept, lock' = NoLock, todo' = <<>>,
         UNCHANGED <<tree, refs, snaps, edits, builds, replaced>>,
         \/ todo = <<>> /\ lock.phase # "pop" /\ UNCHANGED <<torn, excused>>
         \/ torn' = "crash" /\ excused' = excused \cup Unsaved
  PROVE  CheckpointInv'
<1>0. TypeOK /\ LockInv /\ FreshInv /\ StackInv /\ WorkInv
  BY DEF CheckpointInv
<1>1. TypeOK'
  <2>1. lock' \in Locks /\ todo' \in Seq(Writes) /\ torn' \in {"no", "ref", "crash"}
    BY <1>0, NoneTypes, StoredEmpty DEF TypeOK
  <2>2. QED
    BY <1>0, <2>1 DEF TypeOK, SessionsOK, Turns
<1>2. LockInv'
  <2>1. DOMAIN todo' = {} /\ lock'.phase = "none"
    BY NoneTypes
  <2>2. QED
    BY <2>1 DEF LockInv, Free
<1>3. (Storing)' = snaps /\ snaps \subseteq Storing
  BY StoringIs, StoredEmpty
<1>4. FreshInv'
  BY <1>0, <1>3, FreshKept
<1>5. WorkInv'
  <2>1. CASE todo = <<>> /\ UNCHANGED <<torn, excused>>
    <3>1. Unsaved = {}
      BY <1>0, <2>1, UnsavedIs, StoredEmpty
    <3>2. QED
      BY <1>0, <2>1, <3>1 DEF WorkInv, Saved
  <2>2. CASE excused' = excused \cup Unsaved
    BY <1>0, <2>2 DEF WorkInv, Saved
  <2>3. QED
    BY <2>1, <2>2
<1>6. StackInv'
  <2>1. CASE torn' = "crash"
    BY <2>1 DEF StackInv
  <2>2. CASE todo = <<>> /\ lock.phase # "pop" /\ UNCHANGED <<torn, excused>>
    <3>1. (Storing)' = Storing /\ lock'.phase # "pop" /\ todo' = todo
      BY <1>3, <2>2, StoringIs, StoredEmpty, NoneTypes
    <3>2. QED
      BY <1>0, <2>2, <3>1, Zenon DEF StackInv
  <2>3. QED
    BY <2>1, <2>2
<1>7. QED
  BY <1>1, <1>2, <1>4, <1>5, <1>6 DEF CheckpointInv

LEMMA SnapshotDoneInv ==
  ASSUME CheckpointInv, SnapshotDone PROVE CheckpointInv'
<1> DEFINE p == lock.sess
           k == lock.job
<1>1. SessionsOK /\ CommandInv /\ LockInv
  BY SessionsNow DEF CheckpointInv
<1>2. /\ lock.kind = "snapshot" /\ todo = <<>> /\ lock' = NoLock /\ todo' = <<>> /\ TaskTo(p, k, OffTask)
      /\ UNCHANGED <<tree, refs, snaps, edits, builds, replaced, torn, excused, fork, humans, turn, op>>
  BY DEF SnapshotDone, Unlocks, TaskTo, repoVars, threadVars, boundVars, historyVars
<1>3. p \in Sessions /\ lock.phase # "pop"
  BY <1>1, <1>2, NoneTypes DEF LockInv, Free
<1> HIDE DEF p, k
<1>4. task' \in [Sessions -> [Runs -> Tasks]] /\ TasksKept
  <2>1. OffTask \in Tasks /\ OffTask.pc = "none"
    BY NoneTypes
  <2>2. QED
    BY <1>1, <1>2, <1>3, <2>1, TaskStep
<1>5. SessionsOK' /\ CommandInv'
  BY <1>1, <1>2, <1>4, OpSame DEF SessionsOK
<1>6. QED
  BY <1>2, <1>3, <1>4, <1>5, Released

LEMMA EndRestoreInv ==
  ASSUME CheckpointInv, EndRestore PROVE CheckpointInv'
<1> DEFINE p == lock.sess
<1>1. SessionsOK /\ CommandInv /\ LockInv
  BY SessionsNow DEF CheckpointInv
<1>2. /\ lock.phase = "finish" /\ todo = <<>> /\ lock' = NoLock /\ todo' = <<>> /\ OpTo(p, NoOp)
      /\ Forks(p, op[p].turn) \/ UNCHANGED threadVars
      /\ UNCHANGED <<tree, refs, snaps, edits, builds, replaced, torn, excused, turn, task>>
  BY DEF EndRestore, Unlocks, repoVars, boundVars
<1>3. p \in Sessions
  BY <1>1, <1>2, NoneTypes DEF LockInv, Free
<1> HIDE DEF p
<1>4. op' \in [Sessions -> Commands] /\ CommandInv'
  <2>1. NoOp \in Commands /\ NoOp.kind = "none" /\ NoOp.pc = "none"
    BY NoneTypes
  <2>2. QED
    BY <1>1, <1>2, <1>3, <2>1, OpStep
<1>5. fork' \in [Sessions -> Nat] /\ humans' \in [Sessions -> Nat]
  <2>1. CASE Forks(p, op[p].turn)
    <3>1. op[p].turn \in Nat
      BY <1>1, <1>3 DEF SessionsOK, Commands
    <3>2. QED
      BY <1>1, <1>3, <2>1, <3>1, ForksStep
  <2>2. CASE UNCHANGED threadVars
    BY <1>1, <2>2 DEF threadVars, SessionsOK
  <2>3. QED
    BY <1>2, <2>1, <2>2
<1>6. SessionsOK' /\ TasksKept
  BY <1>1, <1>2, <1>4, <1>5, TaskSame DEF SessionsOK
<1>7. QED
  BY <1>2, <1>4, <1>6, Released

LEMMA CrashInv ==
  ASSUME CheckpointInv, NEW p \in Sessions, Crash(p) PROVE CheckpointInv'
<1> DEFINE none == [k \in Runs |-> OffTask]
<1>1. SessionsOK /\ CommandInv /\ LockInv
  BY SessionsNow DEF CheckpointInv
<1>2. /\ turn' = [turn EXCEPT ![p] = "none"] /\ task' = [task EXCEPT ![p] = none] /\ OpTo(p, NoOp)
      /\ UNCHANGED <<tree, refs, snaps, edits, builds, replaced, fork, humans>>
  BY DEF Crash, repoVars
<1>3. op' \in [Sessions -> Commands] /\ CommandInv'
  <2>1. NoOp \in Commands /\ NoOp.kind = "none" /\ NoOp.pc = "none"
    BY NoneTypes
  <2>2. QED
    BY <1>1, <1>2, <2>1, OpStep
<1>4. OffTask \in Tasks /\ OffTask.pc = "none"
  BY NoneTypes
<1>5. none \in [Runs -> Tasks] /\ \A l \in Runs : none[l].pc = "none"
  BY <1>4
<1> HIDE DEF none
<1>6. /\ task' \in [Sessions -> [Runs -> Tasks]]
      /\ \A q \in Sessions : task'[q] = IF q = p THEN none ELSE task[q]
  BY <1>1, <1>2, <1>5 DEF SessionsOK
<1>7. TasksKept
  BY <1>5, <1>6 DEF TasksKept, Building
<1>8. SessionsOK'
  BY <1>1, <1>2, <1>3, <1>6 DEF SessionsOK, Turns
<1>9. CASE lock.sess = p
  <2>1. lock' = NoLock /\ todo' = <<>> /\ torn' = "crash" /\ excused' = excused \cup Unsaved
    BY <1>9 DEF Crash, Unlocks
  <2>2. QED
    BY <1>2, <1>3, <1>7, <1>8, <2>1, Released
<1>10. CASE lock.sess # p
  <2>1. UNCHANGED <<lock, todo, torn, excused>>
    BY <1>10 DEF Crash, lockVars
  <2>2. QED
    BY <1>2, <1>3, <1>7, <1>8, <2>1, Quiet
<1>11. QED
  BY <1>9, <1>10

-----------------------------------------------------------------------------
(* A restore takes the lock, pops, restores and keeps what it replaced. *)

LEMMA FreeStacks ==
  ASSUME CheckpointInv, Free
  PROVE  /\ todo = <<>> /\ Storing = snaps /\ lock.pre = None /\ Unsaved = {}
         /\ torn = "no" => \A st \in Stacks : refs[st] \in Refs /\ Whole(refs[st], snaps)
<1>1. todo = <<>> /\ lock.phase = "none" /\ lock.pre = None
  BY NoneTypes DEF CheckpointInv, LockInv, Free
<1>2. Storing = snaps
  BY <1>1, StoringIs, StoredEmpty
<1>3. Unsaved = {}
  BY <1>1, UnsavedIs, StoredEmpty DEF CheckpointInv
<1>4. ASSUME torn = "no", NEW st \in Stacks PROVE refs[st] \in Refs /\ Whole(refs[st], snaps)
  <2>1. Whole(After(st, refs[st], todo), Storing)
    BY <1>1, <1>4, Zenon DEF CheckpointInv, StackInv
  <2>2. After(st, refs[st], todo) = refs[st]
    BY <1>1, StoredEmpty
  <2>3. refs[st] \in Refs
    BY DEF CheckpointInv, TypeOK
  <2>4. QED
    BY <1>2, <2>1, <2>2, <2>3
<1>5. QED
  BY <1>1, <1>2, <1>3, <1>4

LEMMA Taken ==
  ASSUME CheckpointInv, Free, SessionsOK', CommandInv', TasksKept, StackInv',
         NEW held \in Locks, lock' = held, held.phase = "pop", held.sess \in Sessions,
         held.kind \in {"undo", "redo", "abort", "rewind"}, held.target \in Snapshots,
         held.start \in [Stacks -> Refs], held.pre = None => held.kind \in {"rewind", "abort"},
         tree \in excused' \/ (held.pre # None /\ tree = held.pre.tree), excused \subseteq excused',
         \/ builds' = builds /\ held.pre = None
         \/ /\ CanBuild /\ builds' = builds + 1
            /\ \E o \in Threads \cup {NoThread} : held.pre = Built(o, 0, "pre"),
         todo' \in Seq(Writes), Stored(todo') = {},
         UNCHANGED <<tree, refs, snaps, edits, torn, replaced>>
  PROVE  CheckpointInv'
<1>0. TypeOK /\ FreshInv /\ WorkInv /\ Storing = snaps /\ Unsaved = {} /\ builds \in 0 .. MaxBuilds
  BY FreeStacks DEF CheckpointInv, TypeOK
<1>1. builds' \in 0 .. MaxBuilds
  BY <1>0, CheckpointsAssumption DEF CanBuild
<1>2. TypeOK'
  BY <1>0, <1>1 DEF TypeOK, SessionsOK, Turns
<1>3. LockInv'
  <2>1. held # NoLock
    BY NoneTypes
  <2>2. ASSUME NEW j \in DOMAIN todo', todo'[j].st = "snap" PROVE FALSE
    <3>1. DOMAIN todo' = 1 .. Len(todo')
      OBVIOUS
    <3>2. todo'[j].snap \in Stored(todo')
      BY <2>2, <3>1, StoredIs
    <3>3. QED
      BY <3>2
  <2>3. QED
    BY <2>1, <2>2 DEF LockInv, Free
<1>4. (Storing)' = snaps
  BY StoringIs
<1>5. CASE builds' = builds /\ held.pre = None
  <2>1. FreshInv'
    <3>1. ASSUME NEW q \in Sessions, NEW l \in Runs, Building(q, l)'
          PROVE  /\ task'[q][l].snap \in Snapshots \ snaps /\ task'[q][l].snap.n <= builds
                 /\ task'[q][l].snap # None
      BY <1>0, <3>1, NoneFacts DEF TasksKept, FreshInv
    <3>2. ASSUME NEW q \in Sessions, NEW m \in Sessions, NEW l \in Runs, NEW j \in Runs,
                 Building(q, l)', Building(m, j)', task'[q][l].snap = task'[m][j].snap
          PROVE  q = m /\ l = j
      BY <1>0, <3>2 DEF TasksKept, FreshInv
    <3>3. None \notin snaps
      BY <1>0, NoneFacts DEF TypeOK
    <3>4. QED
      BY <1>0, <1>4, <1>5, <3>1, <3>2, <3>3 DEF FreshInv
  <2>2. QED
    BY <2>1, <1>2, <1>3, <1>0 DEF CheckpointInv, WorkInv, Saved
<1>6. CASE /\ builds' = builds + 1
           /\ \E o \in Threads \cup {NoThread} : held.pre = Built(o, 0, "pre")
  <2>1. PICK o \in Threads \cup {NoThread} : held.pre = Built(o, 0, "pre")
    BY <1>6
  <2> DEFINE s == held.pre
  <2>2. /\ s \in Snapshots \ Storing /\ s.n = builds + 1
        /\ \A q \in Sessions, l \in Runs : Building(q, l) => task[q][l].snap # s
    BY <2>1, BuiltIs
  <2>3. FreshInv'
    <3>1. ASSUME NEW q \in Sessions, NEW l \in Runs, Building(q, l)'
          PROVE  /\ task'[q][l].snap \in Snapshots \ snaps /\ task'[q][l].snap.n <= builds'
                 /\ task'[q][l].snap # s
      <4>1. Building(q, l) /\ task'[q][l].snap = task[q][l].snap
        BY <3>1 DEF TasksKept
      <4>2. QED
        BY <1>0, <1>6, <2>2, <4>1, OneMore DEF FreshInv
    <3>2. ASSUME NEW q \in Sessions, NEW m \in Sessions, NEW l \in Runs, NEW j \in Runs,
                 Building(q, l)', Building(m, j)', task'[q][l].snap = task'[m][j].snap
          PROVE  q = m /\ l = j
      BY <1>0, <3>2 DEF TasksKept, FreshInv
    <3>3. s \notin snaps /\ s.n <= builds' /\ \A z \in snaps : z.n <= builds'
      BY <1>0, <1>1, <1>6, <2>2, OneMore
    <3>4. QED
      BY <1>4, <3>1, <3>2, <3>3 DEF FreshInv
  <2>4. QED
    BY <2>3, <1>2, <1>3, <1>0 DEF CheckpointInv, WorkInv, Saved
<1>7. QED
  BY <1>5, <1>6

LEMMA BeginRestoreInv ==
  ASSUME CheckpointInv, NEW p \in Sessions, BeginRestore(p) PROVE CheckpointInv'
<1>1. CASE GivesUp(p)
  BY <1>1, GivesUpInv
<1>2. CASE ~GivesUp(p)
  <2> DEFINE o == op[p]
             st0 == Pops(o.kind)
             made == Built(Thread(p), 0, "pre")
             top == refs[st0][0]
             u == [o EXCEPT !.pc = "run"]
             locked(s) == [NoLock EXCEPT !.sess = p, !.kind = o.kind, !.phase = "pop", !.pre = s,
                                         !.target = top, !.start = refs]
  <2>1. /\ o.pc = "want" /\ o.kind # "rewind" /\ Free /\ Accepted(p)
        /\ todo' = PopWrites(st0, refs[st0]) /\ OpTo(p, u)
        /\ UNCHANGED <<tree, refs, snaps, fork, humans, turn, task, edits, torn, replaced>>
    BY <1>2 DEF BeginRestore, repoVars, threadVars
  <2>2. \/ CanBuild /\ builds' = builds + 1 /\ lock' = locked(made) /\ excused' = excused
        \/ /\ o.kind = "abort" /\ builds' = builds /\ lock' = locked(None)
           /\ excused' = excused \cup {tree}
    BY <1>2 DEF BeginRestore
  <2>3. SessionsOK /\ CommandInv /\ TypeOK /\ o \in Commands /\ refs \in [Stacks -> Refs]
    BY SessionsNow DEF CheckpointInv, SessionsOK, TypeOK
  <2>4. st0 \in Stacks
    BY DEF Pops, Stacks
  <2>5. top # None /\ top \in Snapshots /\ refs[st0] \in Refs
    <3>1. top # None
      BY <2>1 DEF Accepted
    <3>2. QED
      BY <2>3, <2>4, <3>1, Tops DEF Entries
  <2>6. Thread(p) \in Threads \cup {NoThread}
    BY <2>3 DEF Thread, Threads, SessionsOK
  <2>7. made \in Snapshots /\ made.tree = tree /\ made # None
    BY <2>6, BuiltIs
  <2>8. u \in Commands /\ u.kind = o.kind /\ u.pc = "run"
    <3> HIDE DEF o
    <3>1. QED
      BY <2>3 DEF Commands
  <2>9. o.kind \in {"undo", "redo", "abort"}
    BY <2>1, <2>3 DEF Commands, Kinds, CommandInv
  <2> HIDE DEF made, u
  <2>10. op' \in [Sessions -> Commands] /\ CommandInv'
    <3> HIDE DEF o
    <3>1. QED
      BY <2>1, <2>3, <2>8, <2>9, OpStep
  <2>11. SessionsOK' /\ TasksKept
    BY <2>1, <2>3, <2>10, TaskSame DEF SessionsOK
  <2>12. ASSUME NEW s \in Entries
         PROVE  /\ locked(s) \in Locks /\ locked(s).sess = p /\ locked(s).kind = o.kind
                /\ locked(s).phase = "pop" /\ locked(s).pre = s /\ locked(s).target = top
                /\ locked(s).start = refs
    <3> HIDE DEF o, top
    <3>1. top \in Entries
      BY <2>5, NoneFacts
    <3>2. QED
      BY <2>3, <2>9, <3>1, NoneFacts DEF NoLock, Locks, Kinds
  <2>13. PICK s \in Entries : /\ lock' = locked(s)
                              /\ \/ CanBuild /\ builds' = builds + 1 /\ s = made /\ excused' = excused
                                 \/ /\ o.kind = "abort" /\ builds' = builds /\ s = None
                                    /\ excused' = excused \cup {tree}
    <3> HIDE DEF locked
    <3>1. made \in Entries /\ None \in Entries
      BY <2>7, NoneFacts
    <3>2. QED
      BY <2>2, <3>1
  <2> DEFINE held == locked(s)
  <2>14. /\ held \in Locks /\ held.sess = p /\ held.kind = o.kind /\ held.phase = "pop"
         /\ held.pre = s /\ held.target = top /\ held.start = refs
    BY <2>12
  <2> HIDE DEF locked, held
  <2>15. lock' = held
    BY <2>13 DEF held
  <2>16. Only(PopWrites(st0, refs[st0]), st0)
    <3> HIDE DEF st0
    <3>1. QED
      BY <2>4, <2>5, PopAny
  <2>17. todo' \in Seq(Writes) /\ Stored(todo') = {}
    <3> HIDE DEF st0
    <3>1. QED
      BY <2>1, <2>4, <2>16, OnlyFacts
  <2>18. StackInv'
    <3>1. SUFFICES ASSUME torn = "no"
                   PROVE  /\ \A st \in Stacks :
                               /\ Whole(refs[st], snaps)
                               /\ After(st, refs[st], todo') =
                                    IF st = st0 THEN Popped(refs[st]) ELSE refs[st]
                          /\ top = refs[st0][0]
      BY <2>1, <2>9, <2>14, <2>15 DEF StackInv
    <3>2. \A st \in Stacks : refs[st] \in Refs /\ Whole(refs[st], snaps)
      BY <2>1, <3>1, FreeStacks
    <3> HIDE DEF st0
    <3>3. After(st0, refs[st0], todo') = Popped(refs[st0])
      BY <2>1, <2>4, <2>5, <3>2, WholePop
    <3>4. \A st \in Stacks : st # st0 => After(st, refs[st], todo') = refs[st]
      BY <2>1, <2>16, <3>2, OnlyFacts
    <3>5. QED
      BY <3>2, <3>3, <3>4
  <2>19. \/ builds' = builds /\ held.pre = None
         \/ /\ CanBuild /\ builds' = builds + 1
            /\ \E w \in Threads \cup {NoThread} : held.pre = Built(w, 0, "pre")
    BY <2>6, <2>13, <2>14 DEF made
  <2>20. /\ held.kind \in {"undo", "redo", "abort", "rewind"} /\ held.target \in Snapshots
         /\ held.start \in [Stacks -> Refs] /\ held.phase = "pop" /\ held.sess \in Sessions
    BY <2>3, <2>5, <2>9, <2>14
  <2> HIDE DEF o, top, st0
  <2>21. /\ tree \in excused' \/ (held.pre # None /\ tree = held.pre.tree)
         /\ held.pre = None => held.kind \in {"rewind", "abort"}
         /\ excused \subseteq excused'
    BY <2>7, <2>13, <2>14
  <2>22. Free /\ UNCHANGED <<tree, refs, snaps, edits, torn, replaced>>
    BY <2>1
  <2>23. QED
    BY <2>10, <2>11, <2>14, <2>15, <2>17, <2>18, <2>19, <2>20, <2>21, <2>22, Taken
<1>3. QED
  BY <1>1, <1>2

LEMMA BeginRewindInv ==
  ASSUME CheckpointInv, NEW p \in Sessions, BeginRewind(p) PROVE CheckpointInv'
<1> DEFINE o == op[p]
           u == [o EXCEPT !.pc = "run"]
           made == Built(NoThread, 0, "pre")
           locked(s) == [NoLock EXCEPT !.sess = p, !.kind = "rewind", !.phase = "pop", !.pre = s,
                                       !.target = o.target, !.start = refs]
<1>1. /\ o.pc = "want" /\ o.kind = "rewind" /\ Free /\ OpTo(p, u) /\ todo' = todo
      /\ UNCHANGED <<tree, refs, snaps, fork, humans, turn, task, edits, torn, replaced>>
  BY DEF BeginRewind, repoVars, threadVars
<1>2. \/ CanBuild /\ builds' = builds + 1 /\ lock' = locked(made) /\ excused' = excused
      \/ builds' = builds /\ lock' = locked(None) /\ excused' = excused \cup {tree}
  BY DEF BeginRewind
<1>3. SessionsOK /\ CommandInv /\ TypeOK /\ o \in Commands /\ refs \in [Stacks -> Refs]
  BY SessionsNow DEF CheckpointInv, SessionsOK, TypeOK
<1>4. o.target \in snaps /\ o.target \in Snapshots
  BY <1>1, <1>3 DEF CommandInv, TypeOK
<1>5. /\ todo = <<>> /\ Storing = snaps
      /\ torn = "no" => \A st \in Stacks : refs[st] \in Refs /\ Whole(refs[st], snaps)
  BY <1>1, FreeStacks
<1>6. NoThread \in Threads \cup {NoThread} /\ made \in Snapshots /\ made.tree = tree /\ made # None
  BY BuiltIs
<1> HIDE DEF made
<1>7. u \in Commands /\ u.kind = "rewind" /\ u.pc = "run" /\ u.target = o.target
  <2> HIDE DEF o
  <2>1. QED
    BY <1>1, <1>3 DEF Commands
<1> HIDE DEF u
<1>8. op' \in [Sessions -> Commands] /\ CommandInv'
  <2> HIDE DEF o
  <2>1. QED
    BY <1>1, <1>3, <1>4, <1>7, OpStep
<1>9. SessionsOK' /\ TasksKept
  BY <1>1, <1>3, <1>8, TaskSame DEF SessionsOK
<1>10. ASSUME NEW s \in Entries
       PROVE  /\ locked(s) \in Locks /\ locked(s).sess = p /\ locked(s).kind = "rewind"
              /\ locked(s).phase = "pop" /\ locked(s).pre = s /\ locked(s).target = o.target
              /\ locked(s).start = refs
  <2> HIDE DEF o
  <2>1. o.target \in Entries
    BY <1>4, NoneFacts
  <2>2. QED
    BY <1>3, <2>1, NoneFacts DEF NoLock, Locks, Kinds
<1>11. PICK s \in Entries : /\ lock' = locked(s)
                            /\ \/ CanBuild /\ builds' = builds + 1 /\ s = made /\ excused' = excused
                               \/ builds' = builds /\ s = None /\ excused' = excused \cup {tree}
  <2> HIDE DEF locked
  <2>1. made \in Entries /\ None \in Entries
    BY <1>6, NoneFacts
  <2>2. QED
    BY <1>2, <2>1
<1> DEFINE held == locked(s)
<1>12. /\ held \in Locks /\ held.sess = p /\ held.kind = "rewind" /\ held.phase = "pop"
       /\ held.pre = s /\ held.target = o.target /\ held.start = refs
  BY <1>10
<1> HIDE DEF locked, held
<1>13. todo' \in Seq(Writes) /\ Stored(todo') = {} /\ \A st, f : After(st, f, todo') = f
  BY <1>1, <1>5, StoredEmpty
<1>14. lock' = held
  BY <1>11 DEF held
<1>15. StackInv'
  <2>1. SUFFICES ASSUME torn = "no"
                 PROVE  /\ \A st \in Stacks : Whole(refs[st], snaps) /\ After(st, refs[st], todo') = refs[st]
                        /\ o.target \in snaps
    BY <1>1, <1>12, <1>14 DEF StackInv
  <2>2. QED
    BY <1>4, <1>5, <1>13, <2>1
<1> HIDE DEF o
<1>16. tree \in excused' \/ (held.pre # None /\ tree = held.pre.tree)
  BY <1>6, <1>11, <1>12
<1>17. \/ builds' = builds /\ held.pre = None
       \/ /\ CanBuild /\ builds' = builds + 1
          /\ \E w \in Threads \cup {NoThread} : held.pre = Built(w, 0, "pre")
  BY <1>6, <1>11, <1>12 DEF made
<1>18. /\ held.kind \in {"undo", "redo", "abort", "rewind"} /\ held.target \in Snapshots
       /\ held.start \in [Stacks -> Refs] /\ held.sess \in Sessions
       /\ excused \subseteq excused' /\ Free
       /\ UNCHANGED <<tree, refs, snaps, edits, torn, replaced>>
  BY <1>1, <1>3, <1>4, <1>11, <1>12
<1>19. QED
  BY <1>8, <1>9, <1>12, <1>13, <1>14, <1>15, <1>16, <1>17, <1>18, Taken

(* The stacks once a restore has popped *)
LEMMA PoppedStacks ==
  ASSUME CheckpointInv, lock.phase = "pop", todo = <<>>, torn = "no"
  PROVE  /\ \A st \in Stacks :
              /\ lock.start[st] \in Refs /\ Whole(lock.start[st], snaps)
              /\ refs[st] \in Refs /\ Whole(refs[st], snaps)
              /\ lock.kind # "rewind" /\ st = Pops(lock.kind) =>
                   /\ refs[st] = Popped(lock.start[st])
                   /\ lock.target = lock.start[st][0] /\ lock.target # None
              /\ ~(lock.kind # "rewind" /\ st = Pops(lock.kind)) => refs[st] = lock.start[st]
         /\ lock.kind = "rewind" => lock.target \in snaps
<1>0. refs \in [Stacks -> Refs] /\ lock.start \in [Stacks -> Refs] /\ lock.target # None
  BY NoneFacts DEF CheckpointInv, TypeOK, LockInv
<1>1. /\ \A st \in Stacks :
           /\ Whole(lock.start[st], snaps)
           /\ After(st, refs[st], todo) =
                IF lock.kind # "rewind" /\ st = Pops(lock.kind) THEN Popped(lock.start[st])
                ELSE lock.start[st]
      /\ IF lock.kind = "rewind" THEN lock.target \in snaps
         ELSE lock.target = lock.start[Pops(lock.kind)][0]
  BY DEF CheckpointInv, StackInv
<1>2. \A st \in Stacks : After(st, refs[st], todo) = refs[st]
  BY StoredEmpty
<1>3. ASSUME NEW st \in Stacks
      PROVE  /\ lock.start[st] \in Refs /\ Whole(lock.start[st], snaps)
             /\ refs[st] \in Refs /\ Whole(refs[st], snaps)
             /\ lock.kind # "rewind" /\ st = Pops(lock.kind) =>
                  /\ refs[st] = Popped(lock.start[st])
                  /\ lock.target = lock.start[st][0] /\ lock.target # None
             /\ ~(lock.kind # "rewind" /\ st = Pops(lock.kind)) => refs[st] = lock.start[st]
  <2>1. lock.start[st] \in Refs /\ refs[st] \in Refs /\ Whole(lock.start[st], snaps)
    BY <1>0, <1>1
  <2>2. CASE lock.kind # "rewind" /\ st = Pops(lock.kind)
    <3>1. refs[st] = Popped(lock.start[st]) /\ lock.target = lock.start[st][0]
      BY <1>1, <1>2, <2>2
    <3>2. Whole(Popped(lock.start[st]), snaps)
      BY <1>0, <2>1, <3>1, WholePopped
    <3>3. QED
      BY <1>0, <2>1, <2>2, <3>1, <3>2
  <2>3. CASE ~(lock.kind # "rewind" /\ st = Pops(lock.kind))
    <3>1. refs[st] = lock.start[st]
      BY <1>1, <1>2, <2>3
    <3>2. QED
      BY <2>1, <2>3, <3>1
  <2>4. QED
    BY <2>2, <2>3
<1>4. QED
  BY <1>1, <1>3

LEMMA TwoStacks == "undo" \in Stacks /\ "redo" \in Stacks /\ \A st \in Stacks : st = "undo" \/ st = "redo"
BY DEF Stacks

(* What a restore that went well writes, on whole stacks *)
LEMMA KeptWhole ==
  ASSUME NEW r \in [Stacks -> Refs], NEW S, \A st \in Stacks : Whole(r[st], S),
         NEW s \in Entries, s \notin S, NEW kind \in {"undo", "redo", "abort", "rewind"},
         s = None => kind \in {"rewind", "abort"}, NEW st \in Stacks
  PROVE  Whole(After(st, r[st], KeptWrites(r, kind, s)), IF s = None THEN S ELSE S \cup {s})
<1> DEFINE d == KeptWrites(r, kind, s)
           T == IF s = None THEN S ELSE S \cup {s}
<1>1. PICK n \in 0 .. MaxStack : Shape(r["undo"], n)
  BY TwoStacks, WholeShape
<1>2. PICK m \in 0 .. MaxStack : Shape(r["redo"], m)
  BY TwoStacks, WholeShape
<1>3. /\ After("undo", r["undo"], d) =
           IF kind \in {"undo", "abort"} \/ s = None THEN r["undo"]
           ELSE CutAt(Pushed(r["undo"], s), MaxStack)
      /\ After("redo", r["redo"], d) =
           IF kind \in {"undo", "abort"} THEN KeptAs(r["redo"], s)
           ELSE IF kind = "redo" THEN r["redo"] ELSE CutAt(r["redo"], 0)
  BY <1>1, <1>2, KeptIs
<1> HIDE DEF d
<1>4. S \subseteq T
  OBVIOUS
<1>5. ASSUME NEW o \in Stacks, s # None PROVE Whole(CutAt(Pushed(r[o], s), MaxStack), T)
  <2>1. s \in Snapshots /\ T = S \cup {s} /\ r[o] \in Refs /\ Whole(r[o], S)
    BY <1>5 DEF Entries
  <2> HIDE DEF T
  <2>2. QED
    BY <2>1, WholeSaved
<1> HIDE DEF T
<1>6. \A o \in Stacks : Whole(r[o], T)
  BY <1>4, WholeMore
<1>7. Whole(CutAt(r["redo"], 0), T)
  BY WholeCleared
<1>8. Whole(After("undo", r["undo"], d), T)
  BY <1>3, <1>5, <1>6, TwoStacks
<1>9. Whole(After("redo", r["redo"], d), T)
  BY <1>3, <1>5, <1>6, <1>7, TwoStacks DEF KeptAs
<1>10. Whole(After(st, r[st], d), T)
  BY <1>8, <1>9, TwoStacks
<1>11. QED
  BY <1>10 DEF d, T

LEMMA ApplyInv ==
  ASSUME CheckpointInv, Apply PROVE CheckpointInv'
<1> DEFINE s == lock.pre
           st0 == Pops(lock.kind)
<1>0. TypeOK /\ LockInv /\ CommandInv /\ FreshInv /\ WorkInv
  BY DEF CheckpointInv
<1>1. /\ lock.phase = "pop" /\ todo = <<>> /\ lock' = [lock EXCEPT !.phase = "finish", !.start = <<>>]
      /\ UNCHANGED <<refs, snaps, fork, humans, turn, task, op, edits, builds, torn>>
  BY DEF Apply, threadVars, sessionVars
<1>2. /\ lock.kind \in {"undo", "redo", "abort", "rewind"} /\ lock.target \in Snapshots
      /\ s = None => lock.kind \in {"rewind", "abort"}
      /\ tree \in excused \/ (s # None /\ tree = s.tree)
      /\ lock.sess \in Sessions /\ s \in Entries /\ refs \in [Stacks -> Refs] /\ lock \in Locks
      /\ snaps \subseteq Snapshots
  BY <1>0, <1>1, NoneTypes DEF LockInv, TypeOK, Locks, Free
<1>3. /\ lock' \in Locks /\ lock'.phase = "finish" /\ lock'.sess = lock.sess /\ lock'.kind = lock.kind
      /\ lock'.pre = s
  BY <1>1, <1>2 DEF Locks
<1>4. Storing = snaps /\ s \notin snaps /\ Unsaved = {}
  BY <1>0, <1>1, StoringIs, StoredEmpty, UnsavedIs DEF FreshInv
<1>5. st0 \in Stacks
  BY DEF Pops, Stacks
<1>6. CASE /\ tree' = lock.target.tree /\ replaced' = replaced \cup {tree} /\ excused' = excused
           /\ todo' = KeptWrites(refs, lock.kind, s)
  <2>1. todo' \in Seq(Writes) /\ Stored(todo') = (IF s = None THEN {} ELSE {s})
    <3> DEFINE kind == lock.kind
    <3>1. s \in Entries /\ kind \in {"undo", "redo", "abort", "rewind"} /\ refs \in [Stacks -> Refs]
          /\ (s = None => kind \in {"rewind", "abort"}) /\ todo' = KeptWrites(refs, kind, s)
      BY <1>2, <1>6
    <3> HIDE DEF s, kind
    <3>2. /\ KeptWrites(refs, kind, s) \in Seq(Writes)
          /\ Stored(KeptWrites(refs, kind, s)) = (IF s = None THEN {} ELSE {s})
      BY <3>1, KeptAny
    <3>3. QED
      BY <3>1, <3>2, Zenon
  <2>2. lock.target.tree \in Trees
    BY <1>2 DEF Snapshots
  <2>3. TypeOK'
    BY <1>0, <1>1, <1>3, <1>6, <2>1, <2>2 DEF TypeOK
  <2>4. LockInv'
    <3>1. ASSUME NEW j \in DOMAIN todo', todo'[j].st = "snap" PROVE todo'[j].snap = s /\ s # None
      <4>1. DOMAIN todo' = 1 .. Len(todo')
        BY <2>1
      <4>2. todo'[j].snap \in Stored(todo')
        BY <2>1, <3>1, <4>1, StoredIs
      <4>3. QED
        BY <2>1, <4>2
    <3>2. lock' # NoLock /\ lock'.kind # "none"
      BY <1>2, <1>3, NoneTypes
    <3> HIDE DEF s
    <3>3. QED
      BY <1>2, <1>3, <3>1, <3>2 DEF LockInv, Free
  <2>5. CommandInv'
    BY <1>0, <1>1, OpSame
  <2>6. (Storing)' = (IF s = None THEN snaps ELSE snaps \cup {s})
    BY <1>1, <2>1, StoringIs
  <2>7. FreshInv'
    <3>1. ASSUME NEW q \in Sessions, NEW l \in Runs, Building(q, l)'
          PROVE  /\ Building(q, l) /\ task'[q][l].snap = task[q][l].snap
                 /\ task[q][l].snap \in Snapshots \ (Storing)' /\ task[q][l].snap.n <= builds
      <4>1. Building(q, l) /\ task'[q][l].snap = task[q][l].snap
        BY <1>1, <3>1 DEF Building
      <4>2. /\ task[q][l].snap \in Snapshots \ snaps /\ task[q][l].snap.n <= builds
            /\ task[q][l].snap # s
        BY <1>0, <1>1, <1>4, <4>1 DEF FreshInv
      <4>3. QED
        BY <2>6, <4>1, <4>2
    <3>2. ASSUME NEW z \in (Storing)' PROVE z.n <= builds
      BY <1>0, <1>4, <2>6, <3>2 DEF FreshInv
    <3>3. s # None => s.n <= builds
      BY <1>0 DEF FreshInv
    <3>4. ASSUME NEW q \in Sessions, NEW m \in Sessions, NEW l \in Runs, NEW j \in Runs,
                 Building(q, l)', Building(m, j)', task'[q][l].snap = task'[m][j].snap
          PROVE  q = m /\ l = j
      BY <1>0, <3>1, <3>4 DEF FreshInv
    <3> HIDE DEF s
    <3>5. QED
      BY <1>1, <1>3, <3>1, <3>2, <3>3, <3>4 DEF FreshInv
  <2>8. WorkInv'
    <3>1. ASSUME s # None PROVE s.tree \in Unsaved'
      <4>1. Stored(todo') # {} /\ lock'.kind # "snapshot"
        BY <1>2, <1>3, <2>1, <3>1
      <4>2. QED
        BY <1>3, <2>3, <4>1, UnsavedNext
    <3>2. tree \in excused \cup Unsaved'
      BY <1>2, <3>1
    <3>3. replaced \subseteq Saved' \cup excused
      BY <1>0, <1>1, <1>4 DEF WorkInv, Saved
    <3>4. QED
      BY <1>1, <1>6, <3>2, <3>3 DEF WorkInv
  <2>9. StackInv'
    <3>1. SUFFICES ASSUME torn = "no" PROVE \A st \in Stacks : Whole(After(st, refs[st], todo'), (Storing)')
      <4>1. lock'.phase # "pop"
        BY <1>3
      <4>2. QED
        BY <1>1, <3>1, <4>1, Zenon DEF StackInv
    <3>2. \A st \in Stacks : Whole(refs[st], snaps)
      BY <1>1, <3>1, PoppedStacks
    <3> HIDE DEF s
    <3>3. QED
      BY <1>2, <1>4, <1>6, <2>6, <3>2, KeptWhole
  <2>10. QED
    BY <2>3, <2>4, <2>5, <2>7, <2>8, <2>9 DEF CheckpointInv
<1>7. CASE /\ tree' \in Trees /\ excused \subseteq excused' /\ replaced' \subseteq replaced \cup excused'
           /\ todo' = IF lock.kind = "rewind" THEN <<>> ELSE PushWrites(st0, refs[st0], lock.target)
  <2>1. todo' \in Seq(Writes) /\ Stored(todo') = {} /\ (lock.kind # "rewind" => Only(todo', st0))
    <3>1. CASE lock.kind = "rewind"
      BY <1>7, <3>1, StoredEmpty
    <3>2. CASE lock.kind # "rewind"
      <4> HIDE DEF st0
      <4>1. refs[st0] \in Refs /\ lock.target \in Entries
        BY <1>2, <1>5, NoneFacts
      <4>2. Only(todo', st0)
        BY <1>5, <1>7, <3>2, <4>1, PushAny
      <4>3. QED
        BY <1>5, <4>2, OnlyFacts
    <3>3. QED
      BY <3>1, <3>2
  <2>2. TypeOK'
    BY <1>0, <1>1, <1>3, <1>7, <2>1 DEF TypeOK
  <2>3. LockInv'
    <3>1. ASSUME NEW j \in DOMAIN todo', todo'[j].st = "snap" PROVE FALSE
      <4>1. DOMAIN todo' = 1 .. Len(todo')
        BY <2>1
      <4>2. todo'[j].snap \in Stored(todo')
        BY <2>1, <3>1, <4>1, StoredIs
      <4>3. QED
        BY <2>1, <4>2
    <3>2. lock' # NoLock /\ lock'.kind # "none"
      BY <1>2, <1>3, NoneTypes
    <3>3. QED
      BY <1>2, <1>3, <3>1, <3>2 DEF LockInv, Free
  <2>4. CommandInv'
    BY <1>0, <1>1, OpSame
  <2>5. (Storing)' = snaps
    BY <1>1, <2>1, StoringIs
  <2>6. FreshInv'
    <3>1. TasksKept
      BY <1>1, TaskSame
    <3>2. ASSUME NEW q \in Sessions, NEW l \in Runs, Building(q, l)'
          PROVE  task'[q][l].snap \in Snapshots \ snaps /\ task'[q][l].snap.n <= builds
      BY <1>0, <1>4, <3>1, <3>2 DEF TasksKept, FreshInv
    <3>3. ASSUME NEW q \in Sessions, NEW m \in Sessions, NEW l \in Runs, NEW j \in Runs,
                 Building(q, l)', Building(m, j)', task'[q][l].snap = task'[m][j].snap
          PROVE  q = m /\ l = j
      BY <1>0, <3>1, <3>3 DEF TasksKept, FreshInv
    <3>4. (\A z \in snaps : z.n <= builds) /\ (s # None => s.n <= builds)
      BY <1>0, <1>4 DEF FreshInv
    <3> HIDE DEF s
    <3>5. QED
      BY <1>1, <1>3, <2>5, <3>2, <3>3, <3>4 DEF FreshInv
  <2>7. WorkInv'
    BY <1>0, <1>1, <1>4, <1>7 DEF WorkInv, Saved
  <2>8. StackInv'
    <3>1. SUFFICES ASSUME torn = "no" PROVE \A st \in Stacks : Whole(After(st, refs[st], todo'), (Storing)')
      <4>1. lock'.phase # "pop"
        BY <1>3
      <4>2. QED
        BY <1>1, <3>1, <4>1, Zenon DEF StackInv
    <3>2. TAKE st \in Stacks
    <3>3. Whole(refs[st], snaps) /\ refs[st] \in Refs
      BY <1>1, <3>1, PoppedStacks
    <3>4. CASE lock.kind = "rewind"
      <4>1. After(st, refs[st], todo') = refs[st]
        BY <1>7, <3>4, StoredEmpty
      <4>2. QED
        BY <2>5, <3>3, <4>1
    <3>5. CASE lock.kind # "rewind" /\ st # st0
      <4>1. After(st, refs[st], todo') = refs[st]
        <5> HIDE DEF st0
        <5>1. QED
          BY <2>1, <3>3, <3>5, OnlyFacts
      <4>2. QED
        BY <2>5, <3>3, <4>1
    <3>6. CASE lock.kind # "rewind" /\ st = st0
      <4>1. /\ lock.start[st] \in Refs /\ Whole(lock.start[st], snaps)
            /\ refs[st] = Popped(lock.start[st])
            /\ lock.target = lock.start[st][0] /\ lock.target # None
        BY <1>1, <3>1, <3>6, PoppedStacks
      <4> DEFINE f == lock.start[st]
      <4>2. todo' = PushWrites(st, Popped(f), f[0])
        BY <1>7, <3>6, <4>1
      <4>3. f \in Refs /\ Whole(f, snaps) /\ f[0] # None /\ refs[st] = Popped(f)
        BY <4>1
      <4> HIDE DEF f
      <4>4. After(st, Popped(f), todo') = f
        BY <4>2, <4>3, WholePush
      <4>5. QED
        BY <2>5, <4>3, <4>4
    <3>7. QED
      BY <3>4, <3>5, <3>6
  <2>9. QED
    BY <2>2, <2>3, <2>4, <2>6, <2>7, <2>8 DEF CheckpointInv
<1>8. \/ /\ tree' = lock.target.tree /\ replaced' = replaced \cup {tree} /\ excused' = excused
         /\ todo' = KeptWrites(refs, lock.kind, s)
      \/ /\ tree' \in Trees /\ excused \subseteq excused' /\ replaced' \subseteq replaced \cup excused'
         /\ todo' = IF lock.kind = "rewind" THEN <<>> ELSE PushWrites(st0, refs[st0], lock.target)
  <2>1. tree \in Trees /\ HalfTrees \subseteq Trees
    BY <1>0, CheckpointsAssumption DEF TypeOK, Trees, HalfTrees
  <2>2. QED
    BY <2>1 DEF Apply
<1>9. QED
  BY <1>6, <1>7, <1>8

-----------------------------------------------------------------------------
(* The invariant. *)

LEMMA InitCheckpoint == Init => CheckpointInv
<1> SUFFICES ASSUME Init PROVE CheckpointInv
  OBVIOUS
<1>0. todo = <<>> /\ snaps = {} /\ lock = NoLock /\ torn = "no" /\ replaced = {}
  BY DEF Init
<1>1. TypeOK
  <2>1. refs \in [Stacks -> Refs]
    BY NoneFacts DEF Init, Refs
  <2>2. task \in [Sessions -> [Runs -> Tasks]] /\ op \in [Sessions -> Commands] /\ lock \in Locks
    BY NoneTypes DEF Init
  <2>3. tree \in Trees /\ edits \in 0 .. MaxEdits /\ builds \in 0 .. MaxBuilds
    BY CheckpointsAssumption DEF Init, Trees
  <2>4. QED
    BY <1>0, <2>1, <2>2, <2>3, StoredEmpty DEF TypeOK, Init
<1>2. LockInv
  BY <1>0, NoneTypes DEF LockInv, Free
<1>3. CommandInv
  BY NoneTypes DEF Init, CommandInv
<1>4. Storing = {}
  BY <1>0, StoringIs, StoredEmpty
<1>5. FreshInv
  <2>1. \A p \in Sessions, k \in Runs : ~Building(p, k)
    BY NoneTypes DEF Init, Building
  <2>2. QED
    BY <1>0, <1>4, <2>1, NoneTypes DEF FreshInv
<1>6. WorkInv
  BY <1>0 DEF WorkInv
<1>7. StackInv
  <2>1. ASSUME NEW st \in Stacks PROVE Whole(After(st, refs[st], todo), Storing)
    <3>1. After(st, refs[st], todo) = refs[st] /\ \A i \in Indexes : refs[st][i] = None /\ ~(i < 0)
      BY <1>0, StoredEmpty, IndexFacts DEF Init
    <3>2. 0 \in 0 .. MaxStack
      BY IndexFacts
    <3>3. QED
      BY <3>1, <3>2 DEF Whole, Present
  <2>2. QED
    BY <1>0, <2>1, NoneTypes DEF StackInv
<1>8. QED
  BY <1>1, <1>2, <1>3, <1>5, <1>6, <1>7 DEF CheckpointInv

LEMMA NextCheckpoint == CheckpointInv /\ [Next]_vars => CheckpointInv'
<1> SUFFICES ASSUME CheckpointInv, [Next]_vars PROVE CheckpointInv'
  OBVIOUS
<1>1. CASE UNCHANGED vars
  <2>1. SessionsOK' /\ TasksKept /\ CommandInv'
    BY <1>1, SessionsNow, TaskSame, OpSame
    DEF CheckpointInv, SessionsOK, vars, repoVars, threadVars, sessionVars
  <2>2. QED
    BY <1>1, <2>1, Quiet DEF vars, repoVars, lockVars, boundVars, historyVars
<1>2. CASE UserEdit \/ WriteRef \/ WriteFails \/ SnapshotDone \/ Apply \/ EndRestore
  BY <1>2, UserEditInv, WriteRefInv, WriteFailsInv, SnapshotDoneInv, ApplyInv, EndRestoreInv
<1>3. ASSUME NEW p \in Sessions,
             \/ StartTurn(p) \/ StartSnapshot(p) \/ Mutate(p) \/ FinishTurn(p)
             \/ Await(p, "gate") \/ Await(p, "end") \/ Cancel(p) \/ Abort(p)
             \/ Command(p, "undo") \/ Command(p, "redo")
             \/ Settle(p) \/ Preview(p) \/ Confirm(p) \/ Decline(p)
             \/ BeginRestore(p) \/ BeginRewind(p) \/ Crash(p)
      PROVE  CheckpointInv'
  <2>1. CASE StartTurn(p) \/ StartSnapshot(p) \/ Mutate(p) \/ FinishTurn(p) \/ Cancel(p) \/ Abort(p)
    BY <2>1, StartTurnInv, StartSnapshotInv, MutateInv, FinishTurnInv, CancelInv, AbortInv
  <2>2. CASE Await(p, "gate") \/ Await(p, "end") \/ Command(p, "undo") \/ Command(p, "redo")
    BY <2>2, AwaitInv, CommandStepInv
  <2>3. CASE Settle(p) \/ Preview(p) \/ Confirm(p) \/ Decline(p)
    BY <2>3, SettleInv, PreviewInv, ConfirmInv, DeclineInv
  <2>4. CASE BeginRestore(p) \/ BeginRewind(p) \/ Crash(p)
    BY <2>4, BeginRestoreInv, BeginRewindInv, CrashInv
  <2>5. QED
    BY <1>3, <2>1, <2>2, <2>3, <2>4
<1>4. ASSUME NEW p \in Sessions, NEW k \in Runs,
             BuildSnapshot(p, k) \/ CompareSnapshot(p, k) \/ PushSnapshot(p, k)
      PROVE  CheckpointInv'
  BY <1>4, BuildSnapshotInv, CompareSnapshotInv, PushSnapshotInv
<1>5. ASSUME NEW p \in Sessions, NEW k \in 0 .. (MaxTurns - 1), StartRewind(p, k)
      PROVE  CheckpointInv'
  <2>1. k \in Nat
    BY CheckpointsAssumption
  <2>2. QED
    BY <1>5, <2>1, StartRewindInv
<1>6. QED
  BY <1>1, <1>2, <1>3, <1>4, <1>5 DEF Next

(* CheckpointInv holds in every reachable state, for stacks of any depth, any *)
(* number of sessions, and any interleaving of their snapshot threads and     *)
(* commands with edits, refs that git refuses and processes that die          *)
(* (CheckpointManager in agent/checkpoint.py).                                *)
THEOREM CheckpointInvariant == Spec => []CheckpointInv
<1>1. Init => CheckpointInv
  BY InitCheckpoint
<1>2. CheckpointInv /\ [Next]_vars => CheckpointInv'
  BY NextCheckpoint
<1>3. QED
  BY <1>1, <1>2, PTL DEF Spec

(* Between two operations the undo and redo stacks have no hole and no entry *)
(* twice, at most max_stack entries, and a stable ref for each of them.      *)
THEOREM StacksAreWhole == Spec => []StacksWhole
<1>1. CheckpointInv => StacksWhole
  <2>1. SUFFICES ASSUME CheckpointInv, Free, torn = "no", NEW st \in Stacks
                 PROVE  /\ Present(refs[st]) = 0 .. (Cardinality(Present(refs[st])) - 1)
                        /\ Cardinality(Present(refs[st])) <= MaxStack
                        /\ \A i, j \in Present(refs[st]) : refs[st][i] = refs[st][j] => i = j
                        /\ \A i \in Present(refs[st]) : refs[st][i] \in snaps
    BY DEF StacksWhole
  <2> DEFINE f == refs[st]
  <2>2. Whole(f, snaps)
    BY <2>1, FreeStacks
  <2>3. PICK n \in 0 .. MaxStack : \A i \in Indexes : f[i] # None <=> i < n
    BY <2>2 DEF Whole
  <2>4. n \in Nat /\ n <= MaxStack
    BY IndexFacts
  <2>5. Present(f) = 0 .. (n - 1)
    <3> HIDE DEF f
    <3>1. \A i \in 0 .. (n - 1) : i \in Indexes /\ i < n
      BY <2>4, IndexFacts
    <3>2. \A i \in Indexes : i < n => i \in 0 .. (n - 1)
      BY <2>4, IndexFacts
    <3>3. QED
      BY <2>3, <3>1, <3>2 DEF Present
  <2>6. Cardinality(0 .. (n - 1)) = n
    BY <2>4, FS_Interval
  <2> HIDE DEF f
  <2>7. Cardinality(Present(f)) = n
    BY <2>5, <2>6
  <2>8. Present(f) = 0 .. (Cardinality(Present(f)) - 1) /\ Cardinality(Present(f)) <= MaxStack
    BY <2>4, <2>5, <2>7
  <2>9. /\ \A i, j \in Present(f) : f[i] = f[j] => i = j
        /\ \A i \in Present(f) : f[i] \in snaps
    BY <2>2 DEF Whole
  <2>10. QED
    BY <2>8, <2>9 DEF f
<1>2. QED
  BY <1>1, CheckpointInvariant, PTL

(* Every tree that undo, redo, abort or rewind replaced keeps a stable ref, *)
(* but for the ones named at excused: one of them is the tree that a        *)
(* restore took apart which git stopped half-way (checkpoint.py 547-552).   *)
THEOREM WorkIsKept == Spec => []NoWorkLost
<1>1. CheckpointInv => NoWorkLost
  BY FreeStacks DEF CheckpointInv, WorkInv, NoWorkLost
<1>2. QED
  BY <1>1, CheckpointInvariant, PTL

-----------------------------------------------------------------------------
(* The refs implement the histories of UndoHistory. *)

LEMMA ReadIs ==
  ASSUME NEW f \in Refs, NEW n \in 0 .. MaxStack, Shape(f, n)
  PROVE  /\ Read(f) = [i \in 1 .. n |-> f[i - 1]] /\ Len(Read(f)) = n
         /\ Read(f) \in Seq(Entries) /\ \A i \in 1 .. n : Read(f)[i] = f[i - 1]
<1>0. n \in Nat /\ n \in 0 .. (MaxStack + 1) /\ n <= MaxStack + MaxFaults + 1 /\ 0 \in 0 .. MaxStack
  BY IndexFacts
<1>1. RunFrom(f, 0) = n
  <2>1. RunFrom(f, 0) = IF 0 < n THEN n - 0 ELSE 0
    BY <1>0, RunIs
  <2>2. QED
    BY <1>0, <2>1
<1>2. Read(f) = [i \in 1 .. n |-> f[i - 1]]
  BY <1>1 DEF Read
<1>3. \A i \in 1 .. n : f[i - 1] \in Entries
  BY <1>0, IndexFacts DEF Refs
<1>4. QED
  BY <1>0, <1>2, <1>3

LEMMA ReadCleared ==
  ASSUME NEW f \in Refs
  PROVE  Read(CutAt(f, 0)) = <<>>
<1>1. CutAt(f, 0) \in Refs /\ Shape(CutAt(f, 0), 0)
  BY NoneFacts, IndexFacts DEF CutAt, Refs, Shape
<1>2. 0 \in 0 .. MaxStack
  BY IndexFacts
<1> DEFINE g == CutAt(f, 0)
<1> HIDE DEF g
<1>3. g \in Refs /\ Shape(g, 0)
  BY <1>1 DEF g
<1>4. Read(g) \in Seq(Entries) /\ Len(Read(g)) = 0
  BY <1>2, <1>3, ReadIs
<1>5. Read(g) = <<>>
  BY <1>4
<1>6. QED
  BY <1>5 DEF g

LEMMA ReadPopped ==
  ASSUME NEW f \in Refs, NEW n \in 0 .. MaxStack, Shape(f, n), f[0] # None, Popped(f) \in Refs
  PROVE  Read(f) # <<>> /\ Head(Read(f)) = f[0] /\ Read(Popped(f)) = Tail(Read(f))
<1> DEFINE g == Popped(f)
<1>0. n \in Nat /\ n > 0 /\ n - 1 \in 0 .. MaxStack /\ n <= MaxStack /\ MaxStack \in Nat
  <2>1. 0 \in Indexes /\ n \in Nat /\ n <= MaxStack /\ MaxStack \in Nat
    BY IndexFacts
  <2>2. 0 < n
    BY <2>1 DEF Shape
  <2>3. QED
    BY <2>1, <2>2
<1>1. ASSUME NEW i \in Indexes PROVE g[i] # None <=> i < n - 1
  <2>1. g[i] = (IF i + 1 \in Indexes THEN f[i + 1] ELSE None) /\ i \in Nat
    BY IndexFacts DEF Popped
  <2>2. CASE i + 1 \in Indexes
    <3>1. f[i + 1] # None <=> i + 1 < n
      BY <2>2 DEF Shape
    <3>2. QED
      BY <1>0, <2>1, <2>2, <3>1
  <2>3. CASE i + 1 \notin Indexes
    <3>1. ~(i < n - 1)
      BY <1>0, <2>1, <2>3, IndexFacts
    <3>2. QED
      BY <2>1, <2>3, <3>1
  <2>4. QED
    BY <2>2, <2>3
<1>2. \A i \in 1 .. (n - 1) : g[i - 1] = f[i]
  BY <1>0, IndexFacts DEF Popped
<1> HIDE DEF g
<1>3. Shape(g, n - 1) /\ g \in Refs
  BY <1>1 DEF Shape, g
<1>4. /\ Read(f) \in Seq(Entries) /\ Len(Read(f)) = n /\ \A i \in 1 .. n : Read(f)[i] = f[i - 1]
  BY ReadIs
<1>5. /\ Read(g) \in Seq(Entries) /\ Len(Read(g)) = n - 1
      /\ \A i \in 1 .. (n - 1) : Read(g)[i] = g[i - 1]
  BY <1>0, <1>3, ReadIs
<1>6. Read(f) # <<>> /\ Head(Read(f)) = f[0]
  BY <1>0, <1>4
<1>7. Tail(Read(f)) \in Seq(Entries) /\ Len(Tail(Read(f))) = n - 1
      /\ \A i \in 1 .. (n - 1) : Tail(Read(f))[i] = Read(f)[i + 1]
  BY <1>0, <1>4, <1>6
<1>8. \A i \in 1 .. (n - 1) : Tail(Read(f))[i] = Read(g)[i]
  <2>1. \A i \in 1 .. (n - 1) : i + 1 \in 1 .. n /\ (i + 1) - 1 = i
    BY <1>0
  <2>2. QED
    BY <1>2, <1>4, <1>5, <1>7, <2>1
<1> DEFINE a == Tail(Read(f))
           b == Read(g)
<1>9. a \in Seq(Entries) /\ b \in Seq(Entries) /\ Len(a) = Len(b) /\ \A i \in 1 .. Len(a) : a[i] = b[i]
  BY <1>5, <1>7, <1>8
<1> HIDE DEF a, b
<1>10. a = b
  BY <1>9, SeqEqual
<1>11. QED
  BY <1>6, <1>10 DEF a, b, g

LEMMA ReadSaved ==
  ASSUME NEW f \in Refs, NEW n \in 0 .. MaxStack, Shape(f, n), NEW s \in Snapshots
  PROVE  LET h == Read(CutAt(Pushed(f, s), MaxStack)) IN
         h # <<>> /\ Head(h) = s /\ h = History!Push(s, Read(f))
<1> DEFINE g == CutAt(Pushed(f, s), MaxStack)
           m == IF n < MaxStack THEN n + 1 ELSE MaxStack
           r == Read(f)
<1>0. n \in Nat /\ n <= MaxStack /\ MaxStack \in Nat /\ MaxStack > 0 /\ m \in 0 .. MaxStack /\ m \in Nat
      /\ m > 0 /\ m <= n + 1 /\ (n < MaxStack => m = n + 1) /\ (n = MaxStack => m = n)
  BY IndexFacts
<1>1. /\ r \in Seq(Entries) /\ Len(r) = n /\ \A i \in 1 .. n : r[i] = f[i - 1]
  BY ReadIs
<1>2. m = IF Len(r) < MaxStack THEN Len(r) + 1 ELSE MaxStack
  BY <1>1
<1> HIDE DEF m, r
<1>3. s # None /\ s \in Entries /\ 0 \in Indexes
  BY NoneFacts, IndexFacts
<1>4. ASSUME NEW i \in Indexes
      PROVE  /\ i \in Nat /\ (i = 0 => g[i] = s) /\ g[i] \in Entries
             /\ i # 0 => i - 1 \in Indexes /\ g[i] = (IF i < MaxStack THEN f[i - 1] ELSE None)
  BY <1>0, <1>3, NoneFacts, IndexFacts DEF CutAt, Pushed, Refs
<1>5. g \in Refs
  BY <1>4 DEF Refs, CutAt
<1> HIDE DEF g
<1>6. ASSUME NEW i \in Indexes PROVE g[i] # None <=> i < m
  <2>1. CASE i = 0
    BY <1>0, <1>3, <1>4, <2>1
  <2>2. CASE i # 0
    <3>1. i \in Nat /\ i - 1 \in Indexes /\ g[i] = (IF i < MaxStack THEN f[i - 1] ELSE None)
      BY <1>4, <2>2
    <3>2. f[i - 1] # None <=> i - 1 < n
      BY <3>1 DEF Shape
    <3>3. CASE i < MaxStack
      BY <1>0, <3>1, <3>2, <3>3
    <3>4. CASE ~(i < MaxStack)
      BY <1>0, <3>1, <3>4
    <3>5. QED
      BY <3>3, <3>4
  <2>3. QED
    BY <2>1, <2>2
<1>7. Shape(g, m)
  BY <1>6 DEF Shape
<1>8. /\ Read(g) \in Seq(Entries) /\ Len(Read(g)) = m /\ \A i \in 1 .. m : Read(g)[i] = g[i - 1]
  BY <1>0, <1>5, <1>7, ReadIs
<1> DEFINE one == <<s>>
           c == one \o r
           h == SubSeq(c, 1, m)
<1>9. /\ c \in Seq(Entries) /\ Len(c) = n + 1 /\ c[1] = s /\ \A i \in 2 .. (n + 1) : c[i] = r[i - 1]
  BY <1>0, <1>1, <1>3
<1> HIDE DEF c
<1>10. h \in Seq(Entries) /\ Len(h) = m /\ \A i \in 1 .. m : h[i] = c[i]
  BY <1>0, <1>9
<1> HIDE DEF h
<1>11. ASSUME NEW i \in 1 .. m PROVE Read(g)[i] = h[i]
  <2>0. i \in Nat /\ i - 1 \in Indexes /\ Read(g)[i] = g[i - 1] /\ h[i] = c[i]
    BY <1>0, <1>8, <1>10, <1>11, IndexFacts
  <2>1. CASE i = 1
    BY <1>3, <1>4, <1>9, <2>0, <2>1
  <2>2. CASE i # 1
    <3>1. i - 1 # 0 /\ i - 1 < MaxStack /\ i \in 2 .. (n + 1) /\ i - 1 \in 1 .. n
      BY <1>0, <1>11, <2>0, <2>2
    <3>2. g[i - 1] = f[(i - 1) - 1]
      BY <1>4, <2>0, <3>1
    <3>3. c[i] = r[i - 1] /\ r[i - 1] = f[(i - 1) - 1]
      BY <1>1, <1>9, <3>1
    <3>4. QED
      BY <2>0, <3>2, <3>3
  <2>3. QED
    BY <2>1, <2>2
<1>12. Read(g) = h
  <2> DEFINE a == Read(g)
  <2>1. a \in Seq(Entries) /\ h \in Seq(Entries) /\ Len(a) = Len(h) /\ \A i \in 1 .. Len(a) : a[i] = h[i]
    BY <1>8, <1>10, <1>11
  <2> HIDE DEF a
  <2>2. a = h
    BY <2>1, SeqEqual
  <2>3. QED
    BY <2>2 DEF a
<1>13. Read(g) # <<>> /\ Head(Read(g)) = s
  <2>1. Read(g)[1] = g[0]
    BY <1>0, <1>8
  <2>2. g[0] = s
    BY <1>3, <1>4
  <2>3. QED
    BY <1>0, <1>8, <2>1, <2>2
<1>14. h = History!Push(s, Read(f))
  BY <1>2 DEF h, c, r, History!Push
<1>15. QED
  BY <1>12, <1>13, <1>14 DEF g

(* The histories as one sees them *)
LEMMA ViewIs ==
  /\ lock.phase = "pop" =>
       UndoHere = Read(lock.start["undo"]) /\ RedoHere = Read(lock.start["redo"])
  /\ lock.phase # "pop" =>
       /\ UndoHere = Read(After("undo", refs["undo"], todo))
       /\ RedoHere = Read(After("redo", refs["redo"], todo))
BY DEF UndoHere, RedoHere, Settling

LEMMA ViewNext ==
  /\ lock'.phase = "pop" =>
       UndoHere' = Read(lock'.start["undo"]) /\ RedoHere' = Read(lock'.start["redo"])
  /\ lock'.phase # "pop" =>
       /\ UndoHere' = Read(After("undo", refs'["undo"], todo'))
       /\ RedoHere' = Read(After("redo", refs'["redo"], todo'))
BY DEF UndoHere, RedoHere, Settling, Read, After, RunFrom, LastTo

LEMMA Stutter ==
  ASSUME tree' = tree, UndoHere' = UndoHere, RedoHere' = RedoHere, (Storing)' = Storing, IsTorn' = IsTorn
  PROVE  UNCHANGED History!vars
BY DEF History!vars

(* Nothing that the histories show changes *)
LEMMA Unseen ==
  ASSUME UNCHANGED <<refs, snaps, lock, todo, torn>>
  PROVE  UndoHere' = UndoHere /\ RedoHere' = RedoHere /\ (Storing)' = Storing /\ IsTorn' = IsTorn
<1>1. (Storing)' = Storing
  BY StoringIs
<1>2. UndoHere' = UndoHere /\ RedoHere' = RedoHere
  BY ViewIs, ViewNext
<1>3. QED
  BY <1>1, <1>2 DEF IsTorn

LEMMA TornStep ==
  ASSUME torn' # "no" PROVE History!Next
<1>1. IsTorn' = TRUE
  BY DEF IsTorn
<1>2. QED
  BY <1>1 DEF History!Next, History!Tear

LEMMA WholeStep ==
  ASSUME torn = "no", torn' = "no",
         History!Edit \/ History!Save \/ History!Undo \/ History!Redo \/ History!Rewind
  PROVE  History!Next
<1>1. ~IsTorn /\ IsTorn' = FALSE
  BY DEF IsTorn
<1>2. QED
  BY <1>1 DEF History!Next

LEMMA EditSeen ==
  ASSUME UNCHANGED <<refs, snaps, lock, todo, torn>>
  PROVE  [History!Next]_(History!vars)
<1>1. UndoHere' = UndoHere /\ RedoHere' = RedoHere /\ (Storing)' = Storing /\ IsTorn' = IsTorn
  BY Unseen
<1>2. CASE tree' = tree
  BY <1>1, <1>2, Stutter
<1>3. CASE tree' # tree
  <2>1. CASE torn = "no"
    <3>1. History!Edit
      BY <1>1, <1>3 DEF History!Edit
    <3>2. QED
      BY <2>1, <3>1, WholeStep
  <2>2. CASE torn # "no"
    BY <2>2, TornStep
  <2>3. QED
    BY <2>1, <2>2
<1>4. QED
  BY <1>2, <1>3

LEMMA WriteRefSeen ==
  ASSUME CheckpointInv, WriteRef PROVE UNCHANGED History!vars
<1> DEFINE w == Head(todo)
<1>0. /\ TypeOK /\ todo \in Seq(Writes) /\ todo # <<>> /\ todo' = Tail(todo) /\ w \in Writes
      /\ refs \in [Stacks -> Refs] /\ snaps \subseteq Snapshots
  BY HeadFacts DEF CheckpointInv, TypeOK, WriteRef
<1>1. /\ refs' = WrittenTo(refs, w) /\ snaps' = (IF w.st = "snap" THEN snaps \cup {w.snap} ELSE snaps)
      /\ UNCHANGED <<tree, lock, torn>>
  BY DEF WriteRef, historyVars
<1>2. ASSUME NEW st \in Stacks PROVE After(st, refs'[st], todo') = After(st, refs[st], todo)
  <2>1. refs[st] \in Refs /\ refs'[st] = Written(st, refs[st], w)
    <3>1. w.st \in Stacks \cup {"snap"} /\ "snap" \notin Stacks /\ refs[st] \in Refs
      BY <1>0 DEF Writes, Stacks
    <3>2. CASE w.st = "snap"
      BY <1>1, <3>1, <3>2 DEF WrittenTo, Written
    <3>3. CASE w.st # "snap"
      <4>1. refs' = [refs EXCEPT ![w.st] = [refs[w.st] EXCEPT ![w.i] = w.snap]]
        BY <1>1, <3>3 DEF WrittenTo
      <4>2. QED
        BY <1>0, <3>1, <3>3, <4>1 DEF Written
    <3>4. QED
      BY <3>2, <3>3
  <2>2. After(st, Written(st, refs[st], w), Tail(todo)) = After(st, refs[st], todo)
    BY <1>0, <2>1, AfterHead
  <2>3. QED
    BY <1>0, <2>1, <2>2, Zenon
<1>3. (Storing)' = Storing
  BY <1>0, <1>1, StoredHead, StoringIs
<1>4. UndoHere' = UndoHere /\ RedoHere' = RedoHere
  <2>1. After("undo", refs'["undo"], todo') = After("undo", refs["undo"], todo)
    BY <1>2, TwoStacks
  <2>2. After("redo", refs'["redo"], todo') = After("redo", refs["redo"], todo)
    BY <1>2, TwoStacks
  <2>3. CASE lock.phase = "pop"
    BY <1>1, <2>3, ViewIs, ViewNext
  <2>4. CASE lock.phase # "pop"
    BY <1>1, <2>1, <2>2, <2>4, ViewIs, ViewNext
  <2>5. QED
    BY <2>3, <2>4
<1>5. IsTorn' = IsTorn
  BY <1>1 DEF IsTorn
<1>6. QED
  BY <1>1, <1>3, <1>4, <1>5, Stutter

(* The lock is released, or taken by a restore that has not restored yet *)
LEMMA LockSeen ==
  ASSUME CheckpointInv, UNCHANGED <<tree, refs, snaps, torn>>,
         \/ todo = <<>> /\ lock.phase # "pop" /\ lock' = NoLock /\ todo' = <<>>
         \/ Free /\ lock'.phase = "pop" /\ lock'.start = refs /\ Stored(todo') = {}
  PROVE  UNCHANGED History!vars
<1>1. \A st, f : After(st, f, <<>>) = f
  BY StoredEmpty
<1>2. IsTorn' = IsTorn
  BY DEF IsTorn
<1>3. CASE todo = <<>> /\ lock.phase # "pop" /\ lock' = NoLock /\ todo' = <<>>
  <2>1. lock'.phase # "pop"
    BY <1>3, NoneTypes
  <2>2. UndoHere' = UndoHere /\ RedoHere' = RedoHere
    BY <1>3, <2>1, ViewIs, ViewNext
  <2>3. (Storing)' = Storing
    BY <1>3, StoringIs
  <2>4. QED
    BY <1>2, <2>2, <2>3, Stutter
<1>4. CASE Free /\ lock'.phase = "pop" /\ lock'.start = refs /\ Stored(todo') = {}
  <2>1. todo = <<>> /\ Storing = snaps /\ lock.phase # "pop"
    BY <1>4, FreeStacks, NoneTypes DEF Free
  <2>2. UndoHere = Read(refs["undo"]) /\ RedoHere = Read(refs["redo"])
    BY <1>1, <2>1, ViewIs
  <2>3. UndoHere' = Read(refs["undo"]) /\ RedoHere' = Read(refs["redo"])
    BY <1>4, ViewNext
  <2>4. (Storing)' = Storing
    BY <1>4, <2>1, StoringIs
  <2>5. QED
    BY <1>2, <2>2, <2>3, <2>4, Stutter
<1>5. QED
  BY <1>3, <1>4

LEMMA PushSnapshotSeen ==
  ASSUME CheckpointInv, NEW p \in Sessions, NEW k \in Runs, PushSnapshot(p, k), torn = "no"
  PROVE  History!Save
<1> DEFINE s == task[p][k].snap
<1>1. /\ task[p][k].pc = "push" /\ Free /\ lock'.phase = "finish" /\ todo' = SnapshotWrites(refs, s)
      /\ UNCHANGED <<tree, refs, snaps>> /\ lock.phase = "none"
  BY NoneTypes DEF PushSnapshot, repoVars, Free, NoLock
<1>2. /\ todo = <<>> /\ Storing = snaps
      /\ \A st \in Stacks : refs[st] \in Refs /\ Whole(refs[st], snaps)
  BY <1>1, FreeStacks
<1>3. s \in Snapshots /\ refs \in [Stacks -> Refs]
  BY <1>1 DEF CheckpointInv, FreshInv, Building, TypeOK
<1> HIDE DEF s
<1>4. PICK n \in 0 .. MaxStack : Shape(refs["undo"], n)
  BY <1>2, TwoStacks, WholeShape
<1>5. PICK m \in 0 .. MaxStack : Shape(refs["redo"], m)
  BY <1>2, TwoStacks, WholeShape
<1> DEFINE f == refs["undo"]
           z == refs["redo"]
<1>6. /\ Stored(todo') = {s} /\ After("undo", f, todo') = CutAt(Pushed(f, s), MaxStack)
      /\ After("redo", z, todo') = CutAt(z, 0)
  BY <1>1, <1>3, <1>4, <1>5, SnapshotIs
<1>7. f \in Refs /\ z \in Refs /\ Shape(f, n)
  BY <1>2, <1>4, TwoStacks
<1>8. UndoHere = Read(f) /\ UndoHere' = Read(CutAt(Pushed(f, s), MaxStack)) /\ RedoHere' = Read(CutAt(z, 0))
  <2>1. \A st, g : After(st, g, <<>>) = g
    BY StoredEmpty
  <2>2. UndoHere = Read(f)
    BY <1>1, <1>2, <2>1, ViewIs
  <2>3. refs' = refs /\ lock'.phase # "pop"
    BY <1>1
  <2>4. UndoHere' = Read(After("undo", f, todo')) /\ RedoHere' = Read(After("redo", z, todo'))
    BY <2>3, ViewNext
  <2>5. QED
    BY <1>6, <2>2, <2>4
<1> HIDE DEF f, z
<1>9. UndoHere' # <<>> /\ Head(UndoHere') = s /\ UndoHere' = History!Push(s, UndoHere)
  BY <1>3, <1>7, <1>8, ReadSaved
<1>10. RedoHere' = <<>>
  BY <1>7, <1>8, ReadCleared
<1>11. (Storing)' = Storing \cup {s}
  BY <1>1, <1>2, <1>6, StoringIs
<1>12. QED
  BY <1>1, <1>9, <1>10, <1>11 DEF History!Save, History!PushedOn

LEMMA ApplySeen ==
  ASSUME CheckpointInv, Apply, torn = "no"
  PROVE  UNCHANGED History!vars \/ History!Edit \/ History!Undo \/ History!Redo \/ History!Rewind
<1> DEFINE s == lock.pre
           kind == lock.kind
           u == lock.start["undo"]
           r == lock.start["redo"]
<1>1. /\ lock.phase = "pop" /\ todo = <<>> /\ lock'.phase = "finish"
      /\ UNCHANGED <<refs, snaps, torn>> /\ IsTorn' = IsTorn
  <2>1. lock \in Locks /\ lock.phase = "pop" /\ lock' = [lock EXCEPT !.phase = "finish", !.start = <<>>]
    BY DEF CheckpointInv, TypeOK, Apply
  <2>2. lock'.phase = "finish"
    BY <2>1 DEF Locks
  <2>3. QED
    BY <2>1, <2>2 DEF Apply, IsTorn
<1>2. /\ kind \in {"undo", "redo", "abort", "rewind"} /\ s \in Entries /\ refs \in [Stacks -> Refs]
      /\ s = None => kind \in {"rewind", "abort"}
  BY <1>1 DEF CheckpointInv, LockInv, TypeOK, Locks
<1>3. \A st \in Stacks :
        /\ lock.start[st] \in Refs /\ Whole(lock.start[st], snaps)
        /\ refs[st] \in Refs /\ Whole(refs[st], snaps)
        /\ kind # "rewind" /\ st = Pops(kind) =>
             /\ refs[st] = Popped(lock.start[st])
             /\ lock.target = lock.start[st][0] /\ lock.target # None
        /\ ~(kind # "rewind" /\ st = Pops(kind)) => refs[st] = lock.start[st]
  BY <1>1, PoppedStacks
<1>4. kind = "rewind" => lock.target \in snaps
  BY <1>1, PoppedStacks
<1>5. Storing = snaps /\ UndoHere = Read(u) /\ RedoHere = Read(r)
  BY <1>1, StoringIs, StoredEmpty, ViewIs
<1>6. /\ UndoHere' = Read(After("undo", refs["undo"], todo'))
      /\ RedoHere' = Read(After("redo", refs["redo"], todo'))
  <2>1. refs' = refs /\ lock'.phase # "pop"
    BY <1>1
  <2>2. QED
    BY <2>1, ViewNext
<1>7. (Storing)' = snaps \cup Stored(todo')
  BY <1>1, StoringIs
<1>8. CASE /\ tree' = lock.target.tree /\ todo' = KeptWrites(refs, kind, s)
  <2>1. PICK n \in 0 .. MaxStack : Shape(refs["undo"], n)
    BY <1>3, TwoStacks, WholeShape
  <2>2. PICK m \in 0 .. MaxStack : Shape(refs["redo"], m)
    BY <1>3, TwoStacks, WholeShape
  <2> HIDE DEF s, kind
  <2>3. /\ Stored(todo') = (IF s = None THEN {} ELSE {s})
        /\ After("undo", refs["undo"], todo') =
             IF kind \in {"undo", "abort"} \/ s = None THEN refs["undo"]
             ELSE CutAt(Pushed(refs["undo"], s), MaxStack)
        /\ After("redo", refs["redo"], todo') =
             IF kind \in {"undo", "abort"} THEN KeptAs(refs["redo"], s)
             ELSE IF kind = "redo" THEN refs["redo"] ELSE CutAt(refs["redo"], 0)
    BY <1>2, <1>8, <2>1, <2>2, KeptIs
  <2>4. refs["undo"] \in Refs /\ refs["redo"] \in Refs /\ u \in Refs /\ r \in Refs
        /\ Whole(u, snaps) /\ Whole(r, snaps)
    BY <1>3, TwoStacks
  <2>5. PICK n0 \in 0 .. MaxStack : Shape(u, n0)
    BY <2>4, WholeShape
  <2>6. PICK m0 \in 0 .. MaxStack : Shape(r, m0)
    BY <2>4, WholeShape
  <2>7. s # None => s \in Snapshots
    BY <1>2 DEF Entries
  <2>8. CASE kind \in {"undo", "abort"}
    <3>1. Pops(kind) = "undo" /\ kind # "rewind" /\ kind # "redo"
      BY <2>8 DEF Pops
    <3>2. refs["undo"] = Popped(u) /\ lock.target = u[0] /\ u[0] # None /\ refs["redo"] = r
      BY <1>3, <3>1, TwoStacks
    <3> HIDE DEF u, r
    <3>4. Popped(u) \in Refs
      BY <2>4, <3>2
    <3>5. UndoHere # <<>> /\ Head(UndoHere) = u[0] /\ UndoHere' = Tail(UndoHere)
      BY <1>5, <1>6, <2>3, <2>4, <2>5, <2>8, <3>2, <3>4, ReadPopped
    <3>6. RedoHere' = Read(KeptAs(r, s))
      BY <1>6, <2>3, <2>8, <3>2
    <3>7. CASE s # None
      <4>1. RedoHere' # <<>> /\ Head(RedoHere') = s /\ RedoHere' = History!Push(s, RedoHere)
        BY <1>5, <2>4, <2>6, <2>7, <3>6, <3>7, ReadSaved DEF KeptAs
      <4>2. (Storing)' = Storing \cup {s}
        BY <1>5, <1>7, <2>3, <3>7
      <4>3. History!Undo
        BY <1>8, <3>2, <3>5, <4>1, <4>2 DEF History!Undo, History!PushedOn
      <4>4. QED
        BY <4>3
    <3>8. CASE s = None
      <4>1. RedoHere' = RedoHere /\ (Storing)' = Storing
        BY <1>5, <1>7, <2>3, <3>6, <3>8 DEF KeptAs
      <4>2. History!Undo
        BY <1>8, <3>2, <3>5, <4>1 DEF History!Undo
      <4>3. QED
        BY <4>2
    <3>9. QED
      BY <3>7, <3>8
  <2>9. CASE kind = "redo"
    <3>1. Pops(kind) = "redo" /\ kind # "rewind" /\ kind \notin {"undo", "abort"}
      BY <2>9 DEF Pops
    <3>2. refs["redo"] = Popped(r) /\ lock.target = r[0] /\ r[0] # None /\ refs["undo"] = u
      BY <1>3, <3>1, TwoStacks
    <3>3. s # None /\ s \in Snapshots
      BY <1>2, <2>7, <3>1
    <3> HIDE DEF u, r
    <3>4. Popped(r) \in Refs
      BY <2>4, <3>2
    <3>5. RedoHere # <<>> /\ Head(RedoHere) = r[0] /\ RedoHere' = Tail(RedoHere)
      <4>1. RedoHere' = Read(Popped(r))
        BY <1>6, <2>3, <2>9, <3>1, <3>2
      <4>2. QED
        BY <1>5, <2>4, <2>6, <3>2, <3>4, <4>1, ReadPopped
    <3>6. UndoHere' # <<>> /\ Head(UndoHere') = s /\ UndoHere' = History!Push(s, UndoHere)
      <4>1. UndoHere' = Read(CutAt(Pushed(u, s), MaxStack))
        BY <1>6, <2>3, <3>1, <3>2, <3>3
      <4>2. QED
        BY <1>5, <2>4, <2>5, <3>3, <4>1, ReadSaved
    <3>7. (Storing)' = Storing \cup {s}
      BY <1>5, <1>7, <2>3, <3>3
    <3>8. History!Redo
      BY <1>8, <3>2, <3>5, <3>6, <3>7 DEF History!Redo, History!PushedOn
    <3>9. QED
      BY <3>8
  <2>10. CASE kind = "rewind"
    <3>1. kind \notin {"undo", "abort"} /\ kind # "redo"
      BY <2>10
    <3>2. refs["redo"] = r /\ refs["undo"] = u
      BY <1>3, <2>10, TwoStacks
    <3> HIDE DEF u, r
    <3>3. RedoHere' = <<>>
      <4>1. RedoHere' = Read(CutAt(r, 0))
        BY <1>6, <2>3, <3>1, <3>2
      <4>2. QED
        BY <2>4, <4>1, ReadCleared
    <3>4. \E x \in Storing : tree' = x.tree
      BY <1>4, <1>5, <1>8, <2>10
    <3>5. CASE s = None
      <4>1. UndoHere' = UndoHere /\ (Storing)' = Storing
        BY <1>5, <1>6, <1>7, <2>3, <3>2, <3>5
      <4>2. History!Rewind
        BY <3>3, <3>4, <4>1 DEF History!Rewind
      <4>3. QED
        BY <4>2
    <3>6. CASE s # None
      <4>1. UndoHere' = Read(CutAt(Pushed(u, s), MaxStack))
        BY <1>6, <2>3, <3>1, <3>2, <3>6
      <4>2. UndoHere' # <<>> /\ Head(UndoHere') = s /\ UndoHere' = History!Push(s, UndoHere)
        BY <1>5, <2>4, <2>5, <2>7, <3>6, <4>1, ReadSaved
      <4>3. (Storing)' = Storing \cup {s}
        BY <1>5, <1>7, <2>3, <3>6
      <4>4. History!Rewind
        BY <3>3, <3>4, <4>2, <4>3 DEF History!Rewind, History!PushedOn
      <4>5. QED
        BY <4>4
    <3>7. QED
      BY <3>5, <3>6
  <2>11. QED
    BY <1>2, <2>8, <2>9, <2>10
<1>9. CASE todo' = IF kind = "rewind" THEN <<>>
                   ELSE PushWrites(Pops(kind), refs[Pops(kind)], lock.target)
  <2>1. ASSUME NEW st \in Stacks PROVE After(st, refs[st], todo') = lock.start[st] /\ Stored(todo') = {}
    <3>1. CASE kind = "rewind"
      BY <1>3, <1>9, <3>1, StoredEmpty
    <3>2. CASE kind # "rewind"
      <4> DEFINE st0 == Pops(kind)
                 f == lock.start[st0]
      <4>1. st0 \in Stacks
        BY DEF Pops, Stacks
      <4>2. /\ f \in Refs /\ Whole(f, snaps) /\ f[0] # None /\ refs[st0] = Popped(f)
            /\ todo' = PushWrites(st0, Popped(f), f[0])
        BY <1>3, <1>9, <3>2, <4>1
      <4> HIDE DEF f
      <4>3. Only(todo', st0) /\ After(st0, refs[st0], todo') = f
        <5> HIDE DEF st0
        <5>1. QED
          BY <4>1, <4>2, WholePush
      <4>4. Stored(todo') = {} /\ (st # st0 => After(st, refs[st], todo') = refs[st])
        <5>1. refs[st] \in Refs
          BY <1>2
        <5> HIDE DEF st0
        <5>2. QED
          BY <4>1, <4>3, <5>1, OnlyFacts
      <4>5. CASE st = st0
        BY <4>3, <4>4, <4>5 DEF f
      <4>6. CASE st # st0
        BY <1>3, <4>4, <4>6
      <4>7. QED
        BY <4>5, <4>6
    <3>3. QED
      BY <3>1, <3>2
  <2>2. UndoHere' = UndoHere /\ RedoHere' = RedoHere /\ (Storing)' = Storing
    BY <1>5, <1>6, <1>7, <2>1, TwoStacks
  <2>3. CASE tree' = tree
    BY <1>1, <2>2, <2>3, Stutter
  <2>4. CASE tree' # tree
    BY <2>2, <2>4 DEF History!Edit
  <2>5. QED
    BY <2>3, <2>4
<1>10. QED
  BY <1>8, <1>9 DEF Apply

(* An operation once torn apart stays so *)
LEMMA TornStays ==
  ASSUME [Next]_vars, torn' = "no" PROVE torn = "no"
<1>1. CASE UNCHANGED vars
  BY <1>1 DEF vars, historyVars
<1>2. CASE UserEdit \/ WriteRef \/ WriteFails \/ SnapshotDone \/ Apply \/ EndRestore
  BY <1>2 DEF UserEdit, WriteRef, WriteFails, SnapshotDone, Apply, EndRestore, historyVars
<1>3. ASSUME NEW p \in Sessions,
             \/ StartTurn(p) \/ StartSnapshot(p) \/ Mutate(p) \/ FinishTurn(p)
             \/ Await(p, "gate") \/ Await(p, "end") \/ Cancel(p) \/ Abort(p)
             \/ Command(p, "undo") \/ Command(p, "redo")
             \/ Settle(p) \/ Preview(p) \/ Confirm(p) \/ Decline(p)
             \/ BeginRestore(p) \/ BeginRewind(p) \/ Crash(p)
      PROVE  torn = "no"
  BY <1>3 DEF StartTurn, StartSnapshot, Mutate, FinishTurn, Await, Cancel, Abort, Command, Settle,
              Preview, Confirm, Decline, BeginRestore, BeginRewind, Crash, GivesUp, historyVars
<1>4. ASSUME NEW p \in Sessions, NEW k \in Runs,
             BuildSnapshot(p, k) \/ CompareSnapshot(p, k) \/ PushSnapshot(p, k)
      PROVE  torn = "no"
  BY <1>4 DEF BuildSnapshot, CompareSnapshot, PushSnapshot, historyVars
<1>5. ASSUME NEW p \in Sessions, NEW k \in 0 .. (MaxTurns - 1), StartRewind(p, k)
      PROVE  torn = "no"
  BY <1>5 DEF StartRewind, historyVars
<1>6. QED
  BY <1>1, <1>2, <1>3, <1>4, <1>5 DEF Next

LEMMA RestoreSeen ==
  ASSUME CheckpointInv, NEW p \in Sessions, BeginRestore(p) \/ BeginRewind(p)
  PROVE  [History!Next]_(History!vars)
<1>1. CASE GivesUp(p)
  BY <1>1, EditSeen DEF GivesUp, repoVars, lockVars, historyVars
<1>2. CASE BeginRestore(p) /\ ~GivesUp(p)
  <2> DEFINE st0 == Pops(op[p].kind)
             f == refs[st0]
  <2>1. /\ Free /\ f[0] # None /\ lock'.phase = "pop" /\ lock'.start = refs
        /\ todo' = PopWrites(st0, f) /\ UNCHANGED <<tree, refs, snaps, torn>>
    BY <1>2 DEF BeginRestore, Accepted, repoVars, NoLock
  <2>2. st0 \in Stacks
    BY DEF Pops, Stacks
  <2>3. f \in Refs
    BY <2>2, Tops DEF CheckpointInv
  <2> HIDE DEF st0, f
  <2>4. Stored(todo') = {}
    BY <2>1, <2>2, <2>3, PopAny, OnlyFacts
  <2>5. UNCHANGED History!vars
    BY <2>1, <2>4, LockSeen
  <2>6. QED
    BY <2>5
<1>3. CASE BeginRewind(p)
  <2>1. /\ Free /\ lock'.phase = "pop" /\ lock'.start = refs
        /\ todo' = todo /\ UNCHANGED <<tree, refs, snaps, torn>>
    BY <1>3 DEF BeginRewind, repoVars, NoLock
  <2>2. Stored(todo') = {}
    BY <2>1, FreeStacks, StoredEmpty
  <2>3. UNCHANGED History!vars
    BY <2>1, <2>2, LockSeen
  <2>4. QED
    BY <2>3
<1>4. QED
  BY <1>1, <1>2, <1>3

LEMMA StepSeen == CheckpointInv /\ [Next]_vars => [History!Next]_(History!vars)
<1> SUFFICES ASSUME CheckpointInv, [Next]_vars PROVE [History!Next]_(History!vars)
  OBVIOUS
<1>1. CASE torn' # "no"
  BY <1>1, TornStep
<1>2. CASE torn' = "no"
  <2>0. torn = "no"
    BY <1>2, TornStays
  <2>1. CASE UNCHANGED vars
    BY <2>1, EditSeen DEF vars, repoVars, lockVars, historyVars
  <2>2. CASE UserEdit
    BY <2>2, EditSeen DEF UserEdit, lockVars
  <2>3. CASE WriteRef
    BY <2>3, WriteRefSeen
  <2>4. CASE WriteFails
    BY <1>2, <2>4 DEF WriteFails
  <2>5. CASE SnapshotDone \/ EndRestore
    <3>1. LockInv
      BY DEF CheckpointInv
    <3>2. /\ todo = <<>> /\ lock' = NoLock /\ todo' = <<>> /\ UNCHANGED <<tree, refs, snaps, torn>>
          /\ lock.phase # "pop"
      BY <2>5, <3>1 DEF SnapshotDone, EndRestore, Unlocks, LockInv, repoVars, historyVars
    <3>3. UNCHANGED History!vars
      BY <3>2, LockSeen
    <3>4. QED
      BY <3>3
  <2>6. CASE Apply
    BY <1>2, <2>0, <2>6, ApplySeen, WholeStep
  <2>7. ASSUME NEW p \in Sessions,
               \/ StartTurn(p) \/ StartSnapshot(p) \/ Mutate(p) \/ FinishTurn(p)
               \/ Await(p, "gate") \/ Await(p, "end") \/ Cancel(p) \/ Abort(p)
               \/ Command(p, "undo") \/ Command(p, "redo")
               \/ Settle(p) \/ Preview(p) \/ Confirm(p) \/ Decline(p)
        PROVE  [History!Next]_(History!vars)
    <3>1. UNCHANGED <<refs, snaps, lock, todo, torn>>
      BY <2>7 DEF StartTurn, StartSnapshot, Mutate, FinishTurn, Await, Cancel, Abort, Command, Settle,
                  Preview, Confirm, Decline, GivesUp, repoVars, lockVars, historyVars
    <3>2. QED
      BY <3>1, EditSeen
  <2>8. ASSUME NEW p \in Sessions, BeginRestore(p) \/ BeginRewind(p)
        PROVE  [History!Next]_(History!vars)
    BY <2>8, RestoreSeen
  <2>9. ASSUME NEW p \in Sessions, Crash(p)
        PROVE  [History!Next]_(History!vars)
    <3>1. UNCHANGED <<refs, snaps, lock, todo, torn>>
      BY <1>2, <2>9 DEF Crash, repoVars, lockVars
    <3>2. QED
      BY <3>1, EditSeen
  <2>10. ASSUME NEW p \in Sessions, NEW k \in Runs, BuildSnapshot(p, k) \/ CompareSnapshot(p, k)
         PROVE  [History!Next]_(History!vars)
    <3>1. UNCHANGED <<refs, snaps, lock, todo, torn>>
      BY <2>10 DEF BuildSnapshot, CompareSnapshot, repoVars, lockVars, historyVars
    <3>2. QED
      BY <3>1, EditSeen
  <2>11. ASSUME NEW p \in Sessions, NEW k \in Runs, PushSnapshot(p, k)
         PROVE  [History!Next]_(History!vars)
    BY <1>2, <2>0, <2>11, PushSnapshotSeen, WholeStep
  <2>12. ASSUME NEW p \in Sessions, NEW k \in 0 .. (MaxTurns - 1), StartRewind(p, k)
         PROVE  [History!Next]_(History!vars)
    <3>1. UNCHANGED <<refs, snaps, lock, todo, torn>>
      BY <2>12 DEF StartRewind, repoVars, lockVars, historyVars
    <3>2. QED
      BY <3>1, EditSeen
  <2>13. QED
    BY <2>1, <2>2, <2>3, <2>4, <2>5, <2>6, <2>7, <2>8, <2>9, <2>10, <2>11, <2>12 DEF Next
<1>3. QED
  BY <1>1, <1>2

LEMMA InitSeen == Init => History!Init
<1> SUFFICES ASSUME Init PROVE History!Init
  OBVIOUS
<1>1. todo = <<>> /\ snaps = {} /\ lock.phase # "pop" /\ IsTorn = FALSE
  BY NoneTypes DEF Init, IsTorn
<1>2. ASSUME NEW st \in Stacks PROVE Read(After(st, refs[st], todo)) = <<>>
  <2> DEFINE f == refs[st]
  <2>1. f \in Refs /\ Shape(f, 0)
    BY NoneFacts, IndexFacts DEF Init, Refs, Shape
  <2>2. After(st, f, todo) = f /\ 0 \in 0 .. MaxStack
    BY <1>1, StoredEmpty, IndexFacts
  <2> HIDE DEF f
  <2>3. Read(f) \in Seq(Entries) /\ Len(Read(f)) = 0
    BY <2>1, <2>2, ReadIs
  <2>4. Read(f) = <<>>
    BY <2>3
  <2>5. QED
    BY <2>2, <2>4 DEF f
<1>3. UndoHere = <<>> /\ RedoHere = <<>>
  BY <1>1, <1>2, TwoStacks, ViewIs
<1>4. Storing = {}
  BY <1>1, StoringIs, StoredEmpty
<1>5. QED
  BY <1>1, <1>3, <1>4 DEF History!Init

(* Until an operation is torn apart, the refs that several processes write   *)
(* one at a time behave as an undo and a redo history whose operations happen *)
(* at once: a snapshot, an undo, a redo or a rewind is one step of            *)
(* UndoHistory, and every other step is an edit or changes nothing there.     *)
THEOREM ImplementsUndoHistory == Spec => ImplementsHistory
<1>1. Init => History!Init
  BY InitSeen
<1>2. CheckpointInv /\ [Next]_vars => [History!Next]_(History!vars)
  BY StepSeen
<1>3. QED
  BY <1>1, <1>2, CheckpointInvariant, PTL DEF Spec, ImplementsHistory, History!Spec

-----------------------------------------------------------------------------
(* Every entry but the one that moves is in some ref while the refs are *)
(* written.                                                             *)

LEMMA PrefixFacts ==
  ASSUME NEW ws \in Seq(Writes), NEW j \in 1 .. (Len(ws) + 1)
  PROVE  LET u == SubSeq(ws, 1, j - 1) IN
         /\ u \in Seq(Writes) /\ Len(u) = j - 1 /\ \A l \in 1 .. (j - 1) : u[l] = ws[l] /\ l \in 1 .. Len(ws)
OBVIOUS

(* The first j - 1 writes leave in a ref the last of them to it. *)
LEMMA AfterPrefix ==
  ASSUME NEW ws \in Seq(Writes), NEW j \in 1 .. (Len(ws) + 1), NEW f \in Refs, NEW st, NEW x \in Indexes
  PROVE  LET g == After(st, f, SubSeq(ws, 1, j - 1)) IN
         /\ g \in Refs
         /\ (\A l \in 1 .. (j - 1) : ~To(ws[l], st, x)) => g[x] = f[x]
<1> DEFINE u == SubSeq(ws, 1, j - 1)
<1>1. u \in Seq(Writes) /\ Len(u) = j - 1 /\ \A l \in 1 .. (j - 1) : u[l] = ws[l] /\ l \in 1 .. Len(ws)
  BY PrefixFacts
<1> HIDE DEF u
<1>2. After(st, f, u) \in Refs
  BY <1>1, AfterType
<1>3. ASSUME \A l \in 1 .. (j - 1) : ~To(ws[l], st, x) PROVE After(st, f, u)[x] = f[x]
  <2>1. \A l \in 1 .. Len(u) : ~To(u[l], st, x)
    BY <1>1, <1>3
  <2>2. QED
    BY <1>1, <2>1, AfterNone
<1>4. QED
  BY <1>2, <1>3 DEF u

LEMMA AfterPrefixLast ==
  ASSUME NEW ws \in Seq(Writes), NEW j \in 1 .. (Len(ws) + 1), NEW f \in Refs, NEW st, NEW x \in Indexes,
         NEW m \in 1 .. (j - 1), To(ws[m], st, x), \A l \in (m + 1) .. (j - 1) : ~To(ws[l], st, x)
  PROVE  After(st, f, SubSeq(ws, 1, j - 1))[x] = ws[m].snap
<1> DEFINE u == SubSeq(ws, 1, j - 1)
<1>1. u \in Seq(Writes) /\ Len(u) = j - 1 /\ \A l \in 1 .. (j - 1) : u[l] = ws[l] /\ l \in 1 .. Len(ws)
  BY PrefixFacts
<1> HIDE DEF u
<1>2. After(st, f, u)[x] = ws[m].snap
  <2>1. m \in 1 .. Len(u) /\ u[m] = ws[m]
    BY <1>1
  <2>2. \A l \in (m + 1) .. Len(u) : ~To(u[l], st, x)
    <3>1. ASSUME NEW l \in (m + 1) .. Len(u) PROVE ~To(u[l], st, x)
      <4>1. l \in (m + 1) .. (j - 1) /\ l \in 1 .. (j - 1)
        BY <1>1
      <4>2. QED
        BY <1>1, <4>1
    <3>2. QED
      BY <3>1
  <2>3. After(st, f, u)[x] = u[m].snap
    BY <1>1, <2>1, <2>2, AfterLast
  <2>4. QED
    BY <2>1, <2>3
<1>3. QED
  BY <1>2 DEF u

LEMMA KeepsOthers ==
  ASSUME NEW l, NEW st, NEW f, NEW ws, NEW o, Only(ws, o), o # st
  PROVE  KeepsAll(l, st, f, ws)
BY DEF KeepsAll, Only

LEMMA KeepsConcat ==
  ASSUME NEW l, NEW st, NEW f \in Refs, NEW a \in Seq(Writes), NEW b \in Seq(Writes),
         KeepsAll(l, st, f, a), KeepsAll(l, st, After(st, f, a), b)
  PROVE  KeepsAll(l, st, f, a \o b)
<1> DEFINE c == a \o b
<1>1. /\ c \in Seq(Writes) /\ Len(a) \in Nat /\ Len(b) \in Nat /\ Len(c) = Len(a) + Len(b)
      /\ \A i \in 1 .. Len(a) : c[i] = a[i]
      /\ \A i \in 1 .. Len(b) : c[Len(a) + i] = b[i]
  BY ConcatFacts
<1>2. ASSUME NEW j \in 1 .. Len(c), c[j].st = st
      PROVE  Keeps(l, After(st, f, SubSeq(c, 1, j - 1)), c[j])
  <2>1. CASE j \in 1 .. Len(a)
    <3>1. SubSeq(c, 1, j - 1) = SubSeq(a, 1, j - 1)
      BY <1>1, <2>1
    <3>2. c[j] = a[j]
      BY <1>1, <2>1
    <3> HIDE DEF c
    <3>3. Keeps(l, After(st, f, SubSeq(a, 1, j - 1)), a[j])
      BY <1>2, <2>1, <3>2 DEF KeepsAll
    <3>4. QED
      BY <3>1, <3>2, <3>3, Zenon
  <2>2. CASE j \notin 1 .. Len(a)
    <3> DEFINE i == j - Len(a)
               u == SubSeq(b, 1, i - 1)
    <3>1. i \in 1 .. Len(b) /\ j = Len(a) + i
      BY <1>1, <2>2
    <3>2. c[j] = b[i]
      BY <1>1, <3>1
    <3>3. u \in Seq(Writes)
      BY <3>1, PrefixFacts
    <3>4. SubSeq(c, 1, j - 1) = a \o u
      BY <1>1, <3>1
    <3>5. After(st, f, a \o u) = After(st, After(st, f, a), u)
      <4> HIDE DEF u
      <4>1. QED
        BY <3>3, AfterConcat
    <3> DEFINE h == After(st, f, a)
    <3> HIDE DEF c, i, h
    <3>6. Keeps(l, After(st, After(st, f, a), u), b[i])
      <4>1. KeepsAll(l, st, h, b)
        BY DEF h
      <4>2. b[i].st = st
        BY <1>2, <3>2
      <4>3. Keeps(l, After(st, h, SubSeq(b, 1, i - 1)), b[i])
        BY <3>1, <4>1, <4>2 DEF KeepsAll
      <4>4. QED
        BY <4>3 DEF h
    <3>7. QED
      BY <3>2, <3>4, <3>5, <3>6, Zenon
  <2>3. QED
    BY <2>1, <2>2
<1> HIDE DEF c
<1>3. KeepsAll(l, st, f, c)
  BY <1>2 DEF KeepsAll
<1>4. QED
  BY <1>3 DEF c

LEMMA KeepsHead ==
  ASSUME NEW l, NEW st, NEW f \in Refs, NEW ws \in Seq(Writes), ws # <<>>, KeepsAll(l, st, f, ws)
  PROVE  /\ KeepsAll(l, st, Written(st, f, Head(ws)), Tail(ws))
         /\ Head(ws).st = st => Keeps(l, f, Head(ws))
<1> DEFINE w == Head(ws)
           b == Tail(ws)
           one == <<w>>
<1>1. /\ w \in Writes /\ b \in Seq(Writes) /\ Len(ws) = Len(b) + 1 /\ Len(b) \in Nat /\ ws[1] = w
      /\ \A i \in 1 .. Len(b) : b[i] = ws[i + 1]
  OBVIOUS
<1>2. After(st, f, one) = Written(st, f, w)
  BY <1>1, AfterOne
<1>3. ASSUME w.st = st PROVE Keeps(l, f, w)
  <2>1. 1 \in 1 .. Len(ws) /\ SubSeq(ws, 1, 1 - 1) = <<>>
    BY <1>1
  <2>2. After(st, f, <<>>) = f
    BY StoredEmpty
  <2> HIDE DEF w
  <2>3. Keeps(l, After(st, f, SubSeq(ws, 1, 1 - 1)), ws[1])
    BY <1>1, <1>3, <2>1 DEF KeepsAll
  <2>4. QED
    BY <1>1, <2>1, <2>2, <2>3, Zenon
<1>4. ASSUME NEW j \in 1 .. Len(b), b[j].st = st
      PROVE  Keeps(l, After(st, Written(st, f, w), SubSeq(b, 1, j - 1)), b[j])
  <2> DEFINE u == SubSeq(b, 1, j - 1)
             i == j + 1
  <2>1. u \in Seq(Writes)
    BY <1>1, <1>4, PrefixFacts
  <2>2. i \in 1 .. Len(ws) /\ b[j] = ws[i] /\ one \in Seq(Writes)
    BY <1>1, <1>4
  <2>3. SubSeq(ws, 1, i - 1) = one \o u
    BY <1>1, <1>4
  <2> HIDE DEF u, i, one
  <2>4. After(st, f, one \o u) = After(st, After(st, f, one), u)
    BY <2>1, <2>2, AfterConcat
  <2> HIDE DEF b
  <2>5. Keeps(l, After(st, f, SubSeq(ws, 1, i - 1)), ws[i])
    BY <1>4, <2>2 DEF KeepsAll
  <2>6. After(st, f, SubSeq(ws, 1, i - 1)) = After(st, Written(st, f, w), u)
    BY <1>2, <2>3, <2>4, Zenon
  <2>7. Keeps(l, After(st, Written(st, f, w), u), b[j])
    BY <2>2, <2>5, <2>6, Zenon
  <2>8. QED
    BY <2>7 DEF u
<1> HIDE DEF w, b
<1>5. KeepsAll(l, st, Written(st, f, w), b)
  BY <1>4 DEF KeepsAll
<1>6. QED
  BY <1>3, <1>5 DEF w, b

(* What a push overwrites has just been written one place further down. *)
LEMMA KeepsPush ==
  ASSUME NEW l, NEW st \in Stacks, NEW f \in Refs, NEW s \in Entries
  PROVE  KeepsAll(l, st, f, PushWrites(st, f, s))
<1> DEFINE n == RunFrom(f, 0)
           q == [i \in 1 .. n |-> Write(st, n - i + 1, f[n - i])]
           w == Write(st, 0, s)
           one == <<w>>
           d == q \o one
<1>1. n \in Nat /\ (n \notin Indexes \/ f[n] = None) /\ \A i \in 0 .. (n - 1) : i \in Indexes
  BY RunType
<1>2. PushWrites(st, f, s) = d
  BY DEF PushWrites
<1> HIDE DEF n
<1>3. ASSUME NEW i \in 1 .. n
      PROVE  /\ q[i] \in Writes /\ q[i].st = st /\ q[i].i = n - i + 1 /\ q[i].snap = f[n - i]
  <2>1. n - i + 1 \in Nat /\ n - i \in Indexes
    BY <1>1
  <2>2. f[n - i] \in Entries
    BY <2>1 DEF Refs
  <2>3. q[i] = Write(st, n - i + 1, f[n - i])
    OBVIOUS
  <2>4. QED
    BY <2>1, <2>2, <2>3, WriteFacts
<1>4. q \in Seq(Writes) /\ Len(q) = n
  BY <1>1, <1>3, ListFacts
<1>5. w \in Writes /\ w.st = st /\ w.i = 0 /\ w.snap = s
  BY WriteFacts
<1>6. one \in Seq(Writes) /\ Len(one) = 1 /\ one[1] = w
  BY <1>5
<1> HIDE DEF q, w, one
<1>7. /\ d \in Seq(Writes) /\ Len(d) = n + 1
      /\ \A i \in 1 .. n : d[i] = q[i]
      /\ d[n + 1] = w
  <2>1. /\ d \in Seq(Writes) /\ Len(d) = Len(q) + Len(one)
        /\ \A i \in 1 .. Len(q) : d[i] = q[i]
        /\ \A i \in 1 .. Len(one) : d[Len(q) + i] = one[i]
    BY <1>4, <1>6, ConcatFacts
  <2> HIDE DEF d
  <2>2. d[Len(q) + 1] = one[1]
    BY <1>6, <2>1
  <2>3. QED
    BY <1>4, <1>6, <2>1, <2>2
<1> HIDE DEF d
<1>8. \A j \in 1 .. (n + 1) : d[j].i = n - j + 1 /\ d[j].st = st
  <2>1. \A j \in 1 .. n : d[j].i = n - j + 1 /\ d[j].st = st
    BY <1>3, <1>7
  <2>2. d[n + 1].i = n - (n + 1) + 1 /\ d[n + 1].st = st
    BY <1>1, <1>5, <1>7
  <2>3. \A j \in 1 .. (n + 1) : j \in 1 .. n \/ j = n + 1
    BY <1>1
  <2>4. QED
    BY <2>1, <2>2, <2>3
<1>9. ASSUME NEW j \in 1 .. Len(d) PROVE Keeps(l, After(st, f, SubSeq(d, 1, j - 1)), d[j])
  <2> DEFINE i == n - j + 1
             g == After(st, f, SubSeq(d, 1, j - 1))
  <2>0. j \in 1 .. (Len(d) + 1) /\ j \in 1 .. (n + 1) /\ i \in 0 .. n /\ d[j].i = i
    BY <1>1, <1>7, <1>8
  <2>1. SUFFICES ASSUME i \in Indexes, i < MaxStack, g[i] # None
                 PROVE  \E x \in Indexes : [g EXCEPT ![i] = d[j].snap][x] = g[i]
    <3> HIDE DEF i, g
    <3>1. i \in Nat
      BY <1>1, <2>0
    <3>2. QED
      BY <2>0, <2>1, <3>1, IndexFacts DEF Keeps, g
  <2>2. \A m \in 1 .. (j - 1) : ~To(d[m], st, i)
    BY <1>1, <1>7, <1>8, <2>0 DEF To
  <2>3. g \in Refs /\ g[i] = f[i]
    <3> HIDE DEF i
    <3>1. QED
      BY <1>7, <2>0, <2>1, <2>2, AfterPrefix
  <2>4. j # 1
    BY <1>1, <2>0, <2>1, <2>3
  <2> DEFINE m == j - 1
             x == i + 1
  <2>5. m \in 1 .. (j - 1) /\ m \in 1 .. n /\ n - m = i /\ n - m + 1 = x
    BY <1>1, <2>0, <2>4
  <2>6. x \in Indexes /\ x # i
    BY <2>0, <2>1, IndexFacts
  <2>7. To(d[m], st, x) /\ d[m].snap = f[i] /\ \A k \in (m + 1) .. (j - 1) : ~To(d[k], st, x)
    <3> HIDE DEF i, x
    <3>1. d[m] = q[m] /\ q[m].i = x /\ q[m].st = st /\ q[m].snap = f[i]
      BY <1>3, <1>7, <2>5
    <3>2. \A k \in (m + 1) .. (j - 1) : FALSE
      BY <2>0
    <3>3. QED
      BY <3>1, <3>2 DEF To
  <2>8. g[x] = f[i]
    <3> HIDE DEF i, x, m
    <3>1. After(st, f, SubSeq(d, 1, j - 1))[x] = d[m].snap
      <4>1. d \in Seq(Writes) /\ j \in 1 .. (Len(d) + 1) /\ x \in Indexes /\ m \in 1 .. (j - 1)
        BY <1>7, <2>0, <2>5, <2>6
      <4>2. QED
        BY <2>7, <4>1, AfterPrefixLast
    <3>2. QED
      BY <2>7, <3>1
  <2> HIDE DEF i, x, g
  <2>9. [g EXCEPT ![i] = d[j].snap][x] = g[i]
    BY <2>3, <2>6, <2>8 DEF Refs
  <2>10. QED
    BY <2>6, <2>9
<1>10. KeepsAll(l, st, f, d)
  BY <1>9 DEF KeepsAll
<1>11. QED
  BY <1>2, <1>10

LEMMA KeepsDrop ==
  ASSUME NEW l, NEW st \in Stacks, NEW f \in Refs, NEW g \in Refs, NEW a \in Nat,
         a >= MaxStack \/ (st = "redo" /\ l.kind \in {"snapshot", "rewind"})
  PROVE  KeepsAll(l, st, g, DropWrites(st, f, a))
<1> DEFINE r == RunFrom(f, a)
           d == [i \in 1 .. r |-> Delete(st, a + i - 1)]
<1>1. r \in Nat
  BY RunType
<1> HIDE DEF r
<1>2. ASSUME NEW i \in 1 .. r PROVE d[i] \in Writes /\ d[i].st = st /\ d[i].i = a + i - 1
  <2>1. a + i - 1 \in Nat /\ None \in Entries /\ d[i] = Write(st, a + i - 1, None)
    BY <1>1, <1>2 DEF Delete, Entries
  <2>2. QED
    BY <2>1, WriteFacts
<1>3. d \in Seq(Writes) /\ Len(d) = r
  BY <1>1, <1>2, ListFacts
<1>4. DropWrites(st, f, a) = d
  BY DEF DropWrites, r
<1> HIDE DEF d
<1>5. ASSUME NEW j \in 1 .. Len(d), NEW h PROVE Keeps(l, h, d[j])
  <2>1. d[j].i = a + j - 1 /\ d[j].st = st
    BY <1>2, <1>3
  <2>2. a >= MaxStack => a + j - 1 >= MaxStack
    BY <1>1, <1>3, IndexFacts
  <2>3. QED
    BY <2>1, <2>2 DEF Keeps
<1>6. KeepsAll(l, st, g, d)
  BY <1>5 DEF KeepsAll
<1>7. QED
  BY <1>4, <1>6

(* A pop loses its top; what moves up is deleted after it was written. *)
LEMMA KeepsPop ==
  ASSUME NEW l, NEW st \in Stacks, NEW f \in Refs, f[0] # None, l.target = f[0], l.phase = "pop"
  PROVE  KeepsAll(l, st, f, PopWrites(st, f))
<1> DEFINE n == RunFrom(f, 0)
           m == n - 1
           w == Delete(st, 0)
           one == <<w>>
           q == [j \in 1 .. 2 * m |->
                   LET i == (j + 1) \div 2
                   IN  IF j % 2 = 1 THEN Write(st, i - 1, f[i]) ELSE Delete(st, i)]
           d == one \o q
<1>a. 0 \in Indexes /\ 0 \in Nat
  BY IndexFacts
<1>0. n \in Nat /\ n >= 1 /\ \A i \in 0 .. (0 + n - 1) : i \in Indexes
  BY <1>a, RunType
<1>1. PopWrites(st, f) = d
  BY DEF PopWrites
<1> HIDE DEF n
<1>2. m \in Nat /\ \A i \in 0 .. m : i \in Indexes /\ i \in Nat
  BY <1>0
<1> HIDE DEF m
<1>3. None \in Entries
  BY DEF Entries
<1>4. w \in Writes /\ w.st = st /\ w.i = 0 /\ w.snap = None
  BY <1>3, WriteFacts DEF Delete
<1>5. one \in Seq(Writes) /\ Len(one) = 1 /\ one[1] = w
  BY <1>4
<1>6. ASSUME NEW i \in 1 .. m
      PROVE  q[2 * i - 1] = Write(st, i - 1, f[i]) /\ q[2 * i] = Delete(st, i)
  <2>1. /\ 2 * i - 1 \in 1 .. 2 * m /\ 2 * i \in 1 .. 2 * m
        /\ ((2 * i - 1) + 1) \div 2 = i /\ (2 * i - 1) % 2 = 1
        /\ (2 * i + 1) \div 2 = i /\ (2 * i) % 2 = 0
    BY <1>2, <1>6, Halves
  <2>2. QED
    BY <2>1
<1>7. Len(q) = 2 * m /\ q \in Seq(Writes)
  <2>1. ASSUME NEW j \in 1 .. 2 * m PROVE q[j] \in Writes
    <3>1. PICK i \in 1 .. m : j = 2 * i - 1 \/ j = 2 * i
      BY <1>2, Halves
    <3>2. i \in Nat /\ i - 1 \in Nat /\ f[i] \in Entries
      BY <1>2 DEF Refs
    <3>3. Write(st, i - 1, f[i]) \in Writes /\ Delete(st, i) \in Writes
      BY <1>3, <3>2, WriteFacts DEF Delete
    <3> HIDE DEF q
    <3>4. QED
      BY <1>6, <3>1, <3>3
  <2>2. 2 * m \in Nat /\ q \in [1 .. 2 * m -> Writes]
    BY <1>2, <2>1
  <2> HIDE DEF q
  <2>3. QED
    BY <2>2, ListFacts
<1> HIDE DEF q, w, one
<1>8. /\ d \in Seq(Writes) /\ Len(d) = 2 * m + 1 /\ d[1] = w
      /\ \A i \in 1 .. 2 * m : d[i + 1] = q[i]
  <2>1. /\ d \in Seq(Writes) /\ Len(d) = Len(one) + Len(q)
        /\ \A i \in 1 .. Len(one) : d[i] = one[i]
        /\ \A i \in 1 .. Len(q) : d[Len(one) + i] = q[i]
    BY <1>5, <1>7, ConcatFacts
  <2> HIDE DEF d
  <2>2. \A i \in 1 .. 2 * m : d[1 + i] = q[i] /\ 1 + i = i + 1
    BY <1>2, <1>5, <1>7, <2>1
  <2>3. QED
    BY <1>5, <1>7, <2>1, <2>2
<1> HIDE DEF d
<1>9. ASSUME NEW i \in 1 .. m
      PROVE  /\ d[2 * i].st = st /\ d[2 * i].i = i - 1 /\ d[2 * i].snap = f[i]
             /\ d[2 * i + 1].st = st /\ d[2 * i + 1].i = i /\ d[2 * i + 1].snap = None
  <2>1. 2 * i - 1 \in 1 .. 2 * m /\ 2 * i \in 1 .. 2 * m /\ (2 * i - 1) + 1 = 2 * i
    BY <1>2
  <2>2. d[2 * i] = q[2 * i - 1] /\ d[2 * i + 1] = q[2 * i]
    BY <1>8, <2>1
  <2>3. i \in Nat /\ i - 1 \in Nat /\ i \in Indexes /\ f[i] \in Entries
    BY <1>2 DEF Refs
  <2>4. QED
    BY <1>3, <1>6, <2>2, <2>3, WriteFacts DEF Delete
<1>10. \A i \in 0 .. m : d[2 * i + 1].st = st /\ d[2 * i + 1].i = i /\ d[2 * i + 1].snap = None
  <2>1. d[2 * 0 + 1].st = st /\ d[2 * 0 + 1].i = 0 /\ d[2 * 0 + 1].snap = None
    BY <1>4, <1>8
  <2>2. \A i \in 0 .. m : i = 0 \/ i \in 1 .. m
    BY <1>2
  <2>3. QED
    BY <1>9, <2>1, <2>2
<1>11. \A j \in 1 .. Len(d) : j = 1 \/ \E i \in 1 .. m : j = 2 * i \/ j = 2 * i + 1
  <2>1. ASSUME NEW j \in 1 .. Len(d), j # 1 PROVE \E i \in 1 .. m : j = 2 * i \/ j = 2 * i + 1
    <3>1. j - 1 \in 1 .. 2 * m
      BY <1>2, <1>8, <2>1
    <3>2. PICK i \in 1 .. m : j - 1 = 2 * i - 1 \/ j - 1 = 2 * i
      BY <1>2, <3>1, Halves
    <3>3. j = 2 * i \/ j = 2 * i + 1
      BY <1>2, <2>1, <3>2
    <3>4. QED
      BY <3>3
  <2>2. QED
    BY <2>1
<1>12. ASSUME NEW j \in 1 .. Len(d) PROVE Keeps(l, After(st, f, SubSeq(d, 1, j - 1)), d[j])
  <2> DEFINE g == After(st, f, SubSeq(d, 1, j - 1))
  <2>0. j \in 1 .. (Len(d) + 1) /\ j \in Nat
    BY <1>2, <1>8
  <2>1. CASE j = 1
    <3>1. \A k \in 1 .. (j - 1) : ~To(d[k], st, 0)
      BY <2>1
    <3>2. g[0] = f[0]
      BY <1>8, <1>a, <2>0, <3>1, AfterPrefix
    <3> HIDE DEF g
    <3>3. Keeps(l, g, d[j])
      BY <1>4, <1>8, <2>1, <3>2 DEF Keeps
    <3>4. QED
      BY <3>3 DEF g
  <2>2. ASSUME NEW i \in 1 .. m, j = 2 * i PROVE Keeps(l, g, d[j])
    <3> DEFINE x == i - 1
               k == 2 * x + 1
    <3>1. x \in 0 .. m /\ x \in Indexes /\ k \in 1 .. (j - 1) /\ k = j - 1
      BY <1>2, <2>2
    <3>2. d[k].st = st /\ d[k].i = x /\ d[k].snap = None /\ d[j].i = x
      BY <1>9, <1>10, <2>2, <3>1
    <3> HIDE DEF k, x
    <3>3. \A y \in (k + 1) .. (j - 1) : FALSE
      BY <2>0, <3>1
    <3>a. To(d[k], st, x) /\ \A y \in (k + 1) .. (j - 1) : ~To(d[y], st, x)
      BY <3>2, <3>3 DEF To
    <3>b. After(st, f, SubSeq(d, 1, j - 1))[x] = d[k].snap
      <4>1. d \in Seq(Writes) /\ j \in 1 .. (Len(d) + 1) /\ x \in Indexes /\ k \in 1 .. (j - 1)
        BY <1>8, <2>0, <3>1
      <4>2. QED
        BY <3>a, <4>1, AfterPrefixLast
    <3>4. g[x] = None
      BY <3>2, <3>b
    <3> HIDE DEF g
    <3>5. QED
      BY <3>2, <3>4 DEF Keeps
  <2>3. ASSUME NEW i \in 1 .. m, j = 2 * i + 1 PROVE Keeps(l, g, d[j])
    <3> DEFINE x == i - 1
               k == 2 * i
    <3>1. /\ x \in Indexes /\ i \in Indexes /\ x # i /\ k \in 1 .. (j - 1) /\ k = j - 1 /\ i \in Nat
      BY <1>2, <2>3
    <3>2. d[k].st = st /\ d[k].i = x /\ d[k].snap = f[i] /\ d[j].i = i
      BY <1>9, <2>3
    <3>3. ASSUME NEW y \in 1 .. (j - 1) PROVE ~To(d[y], st, i)
      <4>1. CASE y = 1
        BY <1>4, <1>8, <3>1, <4>1 DEF To
      <4>2. CASE y # 1
        <5>1. y \in 1 .. Len(d)
          BY <1>2, <1>8, <2>0
        <5>2. PICK z \in 1 .. m : y = 2 * z \/ y = 2 * z + 1
          BY <1>11, <4>2, <5>1
        <5>3. z \in Nat /\ (y = 2 * z => z <= i) /\ (y = 2 * z + 1 => z < i)
          BY <1>2, <2>3, <3>1, <5>2
        <5>4. (y = 2 * z => d[y].i = z - 1) /\ (y = 2 * z + 1 => d[y].i = z)
          BY <1>9
        <5>5. d[y].i # i
          BY <3>1, <5>2, <5>3, <5>4
        <5>6. QED
          BY <5>5 DEF To
      <4>3. QED
        BY <4>1, <4>2
    <3> HIDE DEF k, x
    <3>4. g \in Refs /\ g[i] = f[i]
      BY <1>8, <2>0, <3>1, <3>3, AfterPrefix
    <3>5. \A y \in (k + 1) .. (j - 1) : FALSE
      BY <2>0, <3>1
    <3>a. To(d[k], st, x) /\ \A y \in (k + 1) .. (j - 1) : ~To(d[y], st, x)
      BY <3>2, <3>5 DEF To
    <3>b. After(st, f, SubSeq(d, 1, j - 1))[x] = d[k].snap
      <4>1. d \in Seq(Writes) /\ j \in 1 .. (Len(d) + 1) /\ x \in Indexes /\ k \in 1 .. (j - 1)
        BY <1>8, <2>0, <3>1
      <4>2. QED
        BY <3>a, <4>1, AfterPrefixLast
    <3>6. g[x] = f[i]
      BY <3>2, <3>b
    <3> HIDE DEF g
    <3>7. [g EXCEPT ![i] = d[j].snap][x] = g[i]
      BY <3>1, <3>4, <3>6 DEF Refs
    <3>8. QED
      BY <3>1, <3>2, <3>7 DEF Keeps
  <2>4. QED
    BY <1>11, <2>1, <2>2, <2>3
<1>13. KeepsAll(l, st, f, d)
  BY <1>12 DEF KeepsAll
<1>14. QED
  BY <1>1, <1>13

(* A snapshot is stored, pushed, and the stack pruned. *)
LEMMA KeepsSave ==
  ASSUME NEW l, NEW st \in Stacks, NEW f \in Refs, NEW s \in Snapshots,
         NEW o \in Stacks, NEW g \in Refs, o = st => g = f
  PROVE  KeepsAll(l, o, g, SaveWrites(st, f, s))
<1> DEFINE a == <<Store(s)>>
           b == PushWrites(st, f, s)
           h == After(st, f, b)
           c == DropWrites(st, h, MaxStack)
           ab == a \o b
<1>0. s \in Entries /\ MaxStack \in Nat /\ o # "snap" /\ MaxStack >= MaxStack
  BY IndexFacts DEF Entries, Stacks
<1>1. Only(a, "snap") /\ a \in Seq(Writes)
  BY StoreIs, OnlyFacts
<1>2. b \in Seq(Writes) /\ Only(b, st) /\ KeepsAll(l, st, f, b)
  BY <1>0, PushAny, OnlyFacts, KeepsPush
<1>3. h \in Refs
  BY <1>2, AfterType
<1>4. c \in Seq(Writes) /\ Only(c, st) /\ KeepsAll(l, st, h, c)
  <2> HIDE DEF h
  <2>1. QED
    BY <1>0, <1>3, DropAny, OnlyFacts, KeepsDrop
<1>5. SaveWrites(st, f, s) = ab \o c
  BY DEF SaveWrites
<1> HIDE DEF a, b, c
<1>6. ab \in Seq(Writes)
  BY <1>1, <1>2, BothFacts
<1>7. After(o, g, a) = g /\ KeepsAll(l, o, g, a)
  BY <1>0, <1>1, OnlyFacts, KeepsOthers
<1>8. KeepsAll(l, o, g, b) /\ After(o, g, ab) = After(o, g, b)
  <2>1. After(o, g, ab) = After(o, After(o, g, a), b)
    BY <1>1, <1>2, AfterConcat
  <2>2. KeepsAll(l, o, g, b)
    BY <1>2, KeepsOthers
  <2>3. QED
    BY <1>7, <2>1, <2>2, Zenon
<1>9. KeepsAll(l, o, After(o, g, b), c)
  <2>1. CASE o = st
    BY <1>4, <2>1
  <2>2. CASE o # st
    BY <1>4, <2>2, KeepsOthers
  <2>3. QED
    BY <2>1, <2>2
<1>10. KeepsAll(l, o, g, ab)
  <2>1. KeepsAll(l, o, After(o, g, a), b)
    BY <1>7, <1>8, Zenon
  <2>2. QED
    BY <1>1, <1>2, <1>7, <2>1, KeepsConcat
<1> HIDE DEF ab
<1>11. KeepsAll(l, o, After(o, g, ab), c)
  BY <1>8, <1>9, Zenon
<1>12. KeepsAll(l, o, g, ab \o c)
  BY <1>4, <1>6, <1>10, <1>11, KeepsConcat
<1>13. QED
  BY <1>5, <1>12, Zenon

LEMMA KeepsSnapshot ==
  ASSUME NEW l, l.kind = "snapshot", NEW r \in [Stacks -> Refs], NEW s \in Snapshots, NEW o \in Stacks
  PROVE  KeepsAll(l, o, r[o], SnapshotWrites(r, s))
<1> DEFINE g == r[o]
           a == <<Store(s)>>
           b == PushWrites("undo", r["undo"], s)
           h == After("undo", r["undo"], b)
           e == DropWrites("redo", r["redo"], 0)
           c == DropWrites("undo", h, MaxStack)
           ab == a \o b
           abe == ab \o e
<1>0. /\ s \in Entries /\ MaxStack \in Nat /\ 0 \in Nat /\ "undo" \in Stacks /\ "redo" \in Stacks
      /\ r["undo"] \in Refs /\ r["redo"] \in Refs /\ g \in Refs /\ o # "snap" /\ MaxStack >= MaxStack
      /\ o = "undo" \/ o = "redo"
  BY IndexFacts DEF Entries, Stacks
<1>1. Only(a, "snap") /\ a \in Seq(Writes)
  BY StoreIs, OnlyFacts
<1>2. b \in Seq(Writes) /\ Only(b, "undo") /\ KeepsAll(l, "undo", r["undo"], b)
  BY <1>0, PushAny, OnlyFacts, KeepsPush
<1>3. h \in Refs
  BY <1>0, <1>2, AfterType
<1>4. c \in Seq(Writes) /\ Only(c, "undo") /\ KeepsAll(l, "undo", h, c)
  <2> HIDE DEF h
  <2>1. QED
    BY <1>0, <1>3, DropAny, OnlyFacts, KeepsDrop
<1>5. e \in Seq(Writes) /\ Only(e, "redo") /\ \A z \in Refs : KeepsAll(l, "redo", z, e)
  <2>1. e \in Seq(Writes) /\ Only(e, "redo")
    BY <1>0, DropAny, OnlyFacts
  <2>2. ASSUME NEW z \in Refs PROVE KeepsAll(l, "redo", z, e)
    BY <1>0, KeepsDrop
  <2>3. QED
    BY <2>1, <2>2
<1>6. SnapshotWrites(r, s) = abe \o c
  BY DEF SnapshotWrites
<1> HIDE DEF a, b, c, e
<1>7. ab \in Seq(Writes) /\ After(o, g, ab) = After(o, g, b) /\ After(o, g, b) \in Refs
  <2>1. After(o, g, ab) = After(o, After(o, g, a), b)
    BY <1>0, <1>1, <1>2, AfterConcat
  <2>2. After(o, g, a) = g
    BY <1>0, <1>1, OnlyFacts
  <2>3. QED
    BY <1>0, <1>1, <1>2, <2>1, <2>2, BothFacts, AfterType
<1>8. KeepsAll(l, o, g, ab)
  <2>1. KeepsAll(l, o, g, a) /\ After(o, g, a) = g
    BY <1>0, <1>1, OnlyFacts, KeepsOthers
  <2>2. KeepsAll(l, o, g, b)
    <3>1. CASE o = "undo"
      BY <1>2, <3>1
    <3>2. CASE o # "undo"
      BY <1>2, <3>2, KeepsOthers
    <3>3. QED
      BY <3>1, <3>2
  <2>3. KeepsAll(l, o, After(o, g, a), b)
    BY <2>1, <2>2, Zenon
  <2>4. QED
    BY <1>0, <1>1, <1>2, <2>1, <2>3, KeepsConcat
<1> HIDE DEF ab
<1>9. KeepsAll(l, o, g, abe)
  <2> DEFINE z == After(o, g, ab)
  <2>1. z \in Refs
    BY <1>7
  <2> HIDE DEF z
  <2>2. KeepsAll(l, o, z, e)
    <3>1. CASE o = "redo"
      BY <1>5, <2>1, <3>1
    <3>2. CASE o # "redo"
      BY <1>5, <3>2, KeepsOthers
    <3>3. QED
      BY <3>1, <3>2
  <2>3. QED
    BY <1>0, <1>5, <1>7, <1>8, <2>2, KeepsConcat DEF z
<1>10. abe \in Seq(Writes)
  BY <1>5, <1>7, BothFacts
<1>11. KeepsAll(l, o, After(o, g, abe), c)
  <2>1. CASE o = "undo"
    <3>1. After(o, g, abe) = After(o, After(o, g, ab), e)
      BY <1>0, <1>5, <1>7, AfterConcat
    <3>2. After(o, After(o, g, b), e) = After(o, g, b)
      BY <1>5, <1>7, <2>1, OnlyFacts
    <3>3. After(o, g, b) = h
      BY <2>1
    <3>4. After(o, g, abe) = h
      BY <1>7, <3>1, <3>2, <3>3, Zenon
    <3>5. QED
      BY <1>4, <2>1, <3>4, Zenon
  <2>2. CASE o # "undo"
    BY <1>4, <2>2, KeepsOthers
  <2>3. QED
    BY <2>1, <2>2
<1> HIDE DEF abe
<1>12. KeepsAll(l, o, g, abe \o c)
  BY <1>0, <1>4, <1>9, <1>10, <1>11, KeepsConcat
<1>13. QED
  BY <1>6, <1>12, Zenon

LEMMA KeepsKept ==
  ASSUME NEW l, NEW r \in [Stacks -> Refs], NEW s \in Entries, NEW o \in Stacks,
         NEW kind \in {"undo", "redo", "abort", "rewind"}, s = None => kind \in {"rewind", "abort"}, l.kind = kind
  PROVE  KeepsAll(l, o, r[o], KeptWrites(r, kind, s))
<1>0. /\ r["undo"] \in Refs /\ r["redo"] \in Refs /\ "undo" \in Stacks /\ "redo" \in Stacks
      /\ s # None => s \in Snapshots
      /\ r[o] \in Refs
  BY DEF Stacks, Entries
<1>1. CASE kind \in {"undo", "abort"} /\ s # None
  <2>1. KeptWrites(r, kind, s) = SaveWrites("redo", r["redo"], s) /\ s \in Snapshots
    BY <1>0, <1>1 DEF KeptWrites, KeptOn
  <2>2. KeepsAll(l, o, r[o], SaveWrites("redo", r["redo"], s))
    BY <1>0, <2>1, KeepsSave
  <2>3. QED
    BY <2>1, <2>2, Zenon
<1>2. CASE kind = "redo"
  <2>1. KeptWrites(r, kind, s) = SaveWrites("undo", r["undo"], s) /\ s \in Snapshots
    BY <1>0, <1>2 DEF KeptWrites, KeptOn
  <2>2. KeepsAll(l, o, r[o], SaveWrites("undo", r["undo"], s))
    BY <1>0, <2>1, KeepsSave
  <2>3. QED
    BY <2>1, <2>2, Zenon
<1>3. CASE kind = "rewind"
  <2> DEFINE a == IF s = None THEN <<>> ELSE SaveWrites("undo", r["undo"], s)
             e == DropWrites("redo", r["redo"], 0)
             d == a \o e
             z == After(o, r[o], a)
  <2>1. KeptWrites(r, kind, s) = d
    BY <1>3 DEF KeptWrites, KeptOn
  <2>2. a \in Seq(Writes) /\ KeepsAll(l, o, r[o], a)
    <3>1. CASE s = None
      <4>1. a = <<>> /\ a \in Seq(Writes) /\ Len(a) = 0
        BY <3>1
      <4> HIDE DEF a
      <4>2. QED
        BY <4>1 DEF KeepsAll
    <3>2. CASE s # None
      <4>1. a = SaveWrites("undo", r["undo"], s)
        BY <3>2
      <4> HIDE DEF a
      <4>2. KeepsAll(l, o, r[o], SaveWrites("undo", r["undo"], s))
        BY <1>0, <3>2, KeepsSave
      <4>3. SaveWrites("undo", r["undo"], s) \in Seq(Writes)
        BY <1>0, <3>2, SaveAny
      <4>4. QED
        BY <4>1, <4>2, <4>3, Zenon
    <3>3. QED
      BY <3>1, <3>2
  <2> HIDE DEF a
  <2>3. z \in Refs
    BY <1>0, <2>2, AfterType
  <2>4. e \in Seq(Writes) /\ Only(e, "redo")
    BY <1>0, DropAny, OnlyFacts
  <2> HIDE DEF z
  <2>5. KeepsAll(l, o, z, e)
    <3>1. CASE o = "redo"
      BY <1>0, <1>3, <2>3, <3>1, KeepsDrop
    <3>2. CASE o # "redo"
      BY <2>4, <3>2, KeepsOthers
    <3>3. QED
      BY <3>1, <3>2
  <2> HIDE DEF e
  <2>6. KeepsAll(l, o, r[o], d)
    BY <1>0, <2>2, <2>4, <2>5, KeepsConcat DEF z
  <2>7. QED
    BY <2>1, <2>6, Zenon
<1>4. CASE kind \in {"undo", "abort"} /\ s = None
  <2>1. KeptWrites(r, kind, s) = <<>>
    BY <1>4 DEF KeptWrites, KeptOn
  <2>2. KeepsAll(l, o, r[o], <<>>)
    BY DEF KeepsAll
  <2>3. QED
    BY <2>1, <2>2, Zenon
<1>5. QED
  BY <1>1, <1>2, <1>3, <1>4

-----------------------------------------------------------------------------
(* The writes of the operation in progress keep what they overwrite. *)

LEMMA KeepSame ==
  ASSUME KeepInv, UNCHANGED <<refs, todo, lock, torn>> PROVE KeepInv'
BY Zenon DEF KeepInv

LEMMA KeepNone ==
  ASSUME todo' = <<>> PROVE KeepInv'
<1>1. Len(<<>>) = 0
  OBVIOUS
<1>2. ASSUME NEW st \in Stacks PROVE KeepsAll(lock', st, refs'[st], todo')
  BY <1>1 DEF KeepsAll
<1>3. QED
  BY <1>2 DEF KeepInv

LEMMA WriteRefIs ==
  ASSUME TypeOK, WriteRef, NEW st \in Stacks
  PROVE  /\ todo \in Seq(Writes) /\ todo # <<>> /\ todo' = Tail(todo) /\ Head(todo) \in Writes
         /\ refs[st] \in Refs /\ refs'[st] = Written(st, refs[st], Head(todo))
         /\ UNCHANGED <<lock, torn>>
<1> DEFINE w == Head(todo)
<1>0. /\ todo \in Seq(Writes) /\ todo # <<>> /\ todo' = Tail(todo) /\ w \in Writes
      /\ refs \in [Stacks -> Refs] /\ refs' = WrittenTo(refs, w) /\ UNCHANGED <<lock, torn>>
  BY HeadFacts DEF TypeOK, WriteRef, historyVars
<1>1. w.st \in Stacks \cup {"snap"} /\ "snap" \notin Stacks /\ refs[st] \in Refs
  BY <1>0 DEF Writes, Stacks
<1>2. CASE w.st = "snap"
  BY <1>0, <1>1, <1>2 DEF WrittenTo, Written
<1>3. CASE w.st # "snap"
  <2>1. refs' = [refs EXCEPT ![w.st] = [refs[w.st] EXCEPT ![w.i] = w.snap]]
    BY <1>0, <1>3 DEF WrittenTo
  <2>2. QED
    BY <1>0, <1>1, <1>3, <2>1 DEF Written
<1>4. QED
  BY <1>2, <1>3

LEMMA WriteRefKeeps ==
  ASSUME TypeOK, KeepInv, WriteRef PROVE KeepInv'
<1>1. SUFFICES ASSUME torn' # "ref", NEW st \in Stacks PROVE KeepsAll(lock', st, refs'[st], todo')
  BY DEF KeepInv
<1>2. /\ todo \in Seq(Writes) /\ todo # <<>> /\ todo' = Tail(todo) /\ Head(todo) \in Writes
      /\ refs[st] \in Refs /\ refs'[st] = Written(st, refs[st], Head(todo))
      /\ UNCHANGED <<lock, torn>>
  BY WriteRefIs
<1>3. KeepsAll(lock, st, refs[st], todo)
  BY <1>1, <1>2 DEF KeepInv
<1>4. KeepsAll(lock, st, Written(st, refs[st], Head(todo)), Tail(todo))
  BY <1>2, <1>3, KeepsHead
<1>5. QED
  BY <1>2, <1>4, Zenon

LEMMA PushSnapshotKeeps ==
  ASSUME CheckpointInv, NEW p \in Sessions, NEW k \in Runs, PushSnapshot(p, k) PROVE KeepInv'
<1> DEFINE s == task[p][k].snap
<1>1. refs \in [Stacks -> Refs] /\ refs' = refs /\ todo' = SnapshotWrites(refs, s) /\ lock'.kind = "snapshot"
  BY DEF CheckpointInv, TypeOK, PushSnapshot, repoVars, NoLock
<1>2. s \in Snapshots
  BY DEF CheckpointInv, FreshInv, Building, PushSnapshot
<1> HIDE DEF s
<1>3. ASSUME NEW st \in Stacks PROVE KeepsAll(lock', st, refs'[st], todo')
  <2>1. KeepsAll(lock', st, refs[st], SnapshotWrites(refs, s))
    BY <1>1, <1>2, KeepsSnapshot
  <2>2. QED
    BY <1>1, <2>1, Zenon
<1>4. QED
  BY <1>3 DEF KeepInv

LEMMA BeginRestoreKeeps ==
  ASSUME CheckpointInv, KeepInv, NEW p \in Sessions, BeginRestore(p) PROVE KeepInv'
<1>1. CASE GivesUp(p)
  BY <1>1, KeepSame DEF GivesUp, repoVars, lockVars, historyVars
<1>2. CASE ~GivesUp(p)
  <2> DEFINE o == Pops(op[p].kind)
             f == refs[o]
  <2>1. /\ Accepted(p) /\ refs' = refs /\ todo' = PopWrites(o, f)
        /\ \E s : lock' = [NoLock EXCEPT !.sess = p, !.kind = op[p].kind, !.phase = "pop", !.pre = s,
                                         !.target = f[0], !.start = refs]
    BY <1>2 DEF BeginRestore, repoVars
  <2>2. o \in Stacks /\ TypeOK
    BY DEF Pops, Stacks, CheckpointInv
  <2>3. f \in Refs /\ f[0] # None
    BY <2>1, <2>2, Tops DEF Accepted
  <2>4. lock'.target = f[0] /\ lock'.phase = "pop"
    BY <2>1 DEF NoLock
  <2> HIDE DEF o
  <2>5. ASSUME NEW st \in Stacks PROVE KeepsAll(lock', st, refs'[st], todo')
    <3>1. CASE st = o
      <4>1. KeepsAll(lock', o, f, PopWrites(o, f))
        BY <2>2, <2>3, <2>4, KeepsPop
      <4>2. QED
        BY <2>1, <3>1, <4>1, Zenon
    <3>2. CASE st # o
      <4>1. Only(PopWrites(o, f), o)
        BY <2>2, <2>3, PopAny
      <4>2. QED
        BY <2>1, <3>2, <4>1, KeepsOthers
    <3>3. QED
      BY <3>1, <3>2
  <2>6. QED
    BY <2>5 DEF KeepInv
<1>3. QED
  BY <1>1, <1>2

LEMMA ApplyKeeps ==
  ASSUME CheckpointInv, Apply PROVE KeepInv'
<1>1. /\ TypeOK /\ LockInv /\ refs \in [Stacks -> Refs] /\ lock \in Locks /\ refs' = refs
      /\ lock' = [lock EXCEPT !.phase = "finish", !.start = <<>>] /\ lock.phase = "pop"
  BY DEF CheckpointInv, TypeOK, Apply
<1>2. /\ lock.kind \in {"undo", "redo", "abort", "rewind"} /\ lock.target \in Snapshots
      /\ lock.pre = None => lock.kind \in {"rewind", "abort"}
      /\ lock.pre \in Entries /\ lock.target \in Entries
  BY <1>1, NoneFacts DEF LockInv, Locks
<1>3. lock'.kind = lock.kind
  BY <1>1 DEF Locks
<1>4. ASSUME todo' = KeptWrites(refs, lock.kind, lock.pre), NEW st \in Stacks
      PROVE  KeepsAll(lock', st, refs'[st], todo')
  <2>1. KeepsAll(lock', st, refs[st], KeptWrites(refs, lock.kind, lock.pre))
    BY <1>1, <1>2, <1>3, KeepsKept
  <2>2. QED
    BY <1>1, <1>4, <2>1, Zenon
<1>5. ASSUME todo' = PushWrites(Pops(lock.kind), refs[Pops(lock.kind)], lock.target), NEW st \in Stacks
      PROVE  KeepsAll(lock', st, refs'[st], todo')
  <2> DEFINE o == Pops(lock.kind)
  <2>1. o \in Stacks /\ refs[o] \in Refs
    BY <1>1 DEF Pops, Stacks
  <2>2. todo' = PushWrites(o, refs[o], lock.target)
    BY <1>5
  <2> HIDE DEF o
  <2>3. CASE st = o
    <3>1. KeepsAll(lock', o, refs[o], PushWrites(o, refs[o], lock.target))
      BY <1>2, <2>1, KeepsPush
    <3>2. QED
      BY <1>1, <2>2, <2>3, <3>1, Zenon
  <2>4. CASE st # o
    <3>1. Only(PushWrites(o, refs[o], lock.target), o)
      BY <1>2, <2>1, PushAny
    <3>2. QED
      BY <2>2, <2>4, <3>1, KeepsOthers
  <2>5. QED
    BY <2>3, <2>4
<1>6. CASE todo' = <<>>
  BY <1>6, KeepNone
<1>7. CASE todo' # <<>>
  <2>1. \/ todo' = KeptWrites(refs, lock.kind, lock.pre)
        \/ todo' = PushWrites(Pops(lock.kind), refs[Pops(lock.kind)], lock.target)
    BY <1>7 DEF Apply
  <2>2. QED
    BY <1>4, <1>5, <2>1 DEF KeepInv
<1>8. QED
  BY <1>6, <1>7

(* The other steps leave the lock and the refs alone. *)
LEMMA RefSteps ==
  ASSUME [Next]_vars
  PROVE  \/ UNCHANGED <<refs, todo, lock, torn>>
         \/ WriteRef \/ WriteFails \/ SnapshotDone \/ Apply \/ EndRestore
         \/ \E p \in Sessions : BeginRestore(p) \/ BeginRewind(p) \/ Crash(p)
         \/ \E p \in Sessions, k \in Runs : PushSnapshot(p, k)
<1>1. CASE UNCHANGED vars
  BY <1>1 DEF vars, repoVars, lockVars, historyVars
<1>2. CASE UserEdit
  BY <1>2 DEF UserEdit, lockVars
<1>3. ASSUME NEW p \in Sessions,
             StartTurn(p) \/ StartSnapshot(p) \/ Mutate(p) \/ FinishTurn(p) \/ Cancel(p) \/ Abort(p)
      PROVE  UNCHANGED <<refs, todo, lock, torn>>
  BY <1>3 DEF StartTurn, StartSnapshot, Mutate, FinishTurn, Cancel, Abort, repoVars, lockVars, historyVars
<1>4. ASSUME NEW p \in Sessions,
             \/ Await(p, "gate") \/ Await(p, "end") \/ Command(p, "undo") \/ Command(p, "redo")
             \/ Settle(p) \/ Preview(p) \/ Confirm(p) \/ Decline(p)
      PROVE  UNCHANGED <<refs, todo, lock, torn>>
  BY <1>4 DEF Await, Command, Settle, Preview, Confirm, Decline, GivesUp, repoVars, lockVars, historyVars
<1>5. ASSUME NEW p \in Sessions, NEW k \in Runs, BuildSnapshot(p, k) \/ CompareSnapshot(p, k)
      PROVE  UNCHANGED <<refs, todo, lock, torn>>
  BY <1>5 DEF BuildSnapshot, CompareSnapshot, repoVars, lockVars, historyVars
<1>6. ASSUME NEW p \in Sessions, NEW k \in 0 .. (MaxTurns - 1), StartRewind(p, k)
      PROVE  UNCHANGED <<refs, todo, lock, torn>>
  BY <1>6 DEF StartRewind, repoVars, lockVars, historyVars
<1>7. QED
  BY <1>1, <1>2, <1>3, <1>4, <1>5, <1>6 DEF Next

LEMMA NextKeeps ==
  ASSUME CheckpointInv, KeepInv, [Next]_vars PROVE KeepInv'
<1>0. TypeOK
  BY DEF CheckpointInv
<1>1. CASE UNCHANGED <<refs, todo, lock, torn>>
  BY <1>1, KeepSame
<1>2. CASE WriteRef \/ Apply
  BY <1>0, <1>2, WriteRefKeeps, ApplyKeeps
<1>3. CASE WriteFails
  BY <1>3 DEF WriteFails, KeepInv
<1>4. CASE SnapshotDone \/ EndRestore
  BY <1>4, KeepNone DEF SnapshotDone, EndRestore, Unlocks
<1>5. ASSUME NEW p \in Sessions, BeginRestore(p) \/ BeginRewind(p) \/ Crash(p) PROVE KeepInv'
  <2>1. CASE BeginRestore(p)
    BY <2>1, BeginRestoreKeeps
  <2>2. CASE BeginRewind(p)
    <3>1. todo' = <<>>
      BY <2>2, FreeStacks DEF BeginRewind
    <3>2. QED
      BY <3>1, KeepNone
  <2>3. CASE Crash(p)
    <3>1. todo' = <<>> \/ UNCHANGED <<refs, todo, lock, torn>>
      BY <2>3 DEF Crash, Unlocks, lockVars, repoVars
    <3>2. QED
      BY <3>1, KeepNone, KeepSame
  <2>4. QED
    BY <1>5, <2>1, <2>2, <2>3
<1>6. ASSUME NEW p \in Sessions, NEW k \in Runs, PushSnapshot(p, k) PROVE KeepInv'
  BY <1>6, PushSnapshotKeeps
<1>7. QED
  BY <1>1, <1>2, <1>3, <1>4, <1>5, <1>6, RefSteps

(* The entries of a stack but for the one that moves survive a step. *)
LEMMA StepKeeps ==
  ASSUME CheckpointInv, KeepInv, [Next]_vars, NEW st \in Stacks, NEW i \in Indexes
  PROVE  \/ refs[st][i] = None
         \/ \E j \in Indexes : refs'[st][j] = refs[st][i]
         \/ refs[st][i] = lock.target /\ lock.phase = "pop"
         \/ i >= MaxStack
         \/ torn = "ref"
         \/ st = "redo" /\ lock.kind \in {"snapshot", "rewind"}
<1>1. CASE refs' = refs
  BY <1>1
<1>2. CASE WriteRef
  <2> DEFINE w == Head(todo)
             f == refs[st]
  <2>1. /\ todo \in Seq(Writes) /\ todo # <<>> /\ w \in Writes /\ f \in Refs
        /\ refs'[st] = Written(st, f, w)
    BY <1>2, WriteRefIs DEF CheckpointInv
  <2>2. CASE w.st # st \/ w.i # i
    <3> HIDE DEF w, f
    <3>1. refs'[st][i] = f[i]
      BY <2>1, <2>2 DEF Written, Refs
    <3>2. QED
      BY <3>1 DEF f
  <2>3. CASE w.st = st /\ w.i = i /\ torn # "ref"
    <3>1. KeepsAll(lock, st, f, todo)
      BY <2>3 DEF KeepInv
    <3>2. Keeps(lock, f, w)
      BY <2>1, <2>3, <3>1, KeepsHead
    <3> HIDE DEF w, f
    <3>3. refs'[st] = [f EXCEPT ![i] = w.snap]
      BY <2>1, <2>3 DEF Written
    <3>4. \/ f[i] = None \/ i >= MaxStack
          \/ \E j \in Indexes : [f EXCEPT ![i] = w.snap][j] = f[i]
          \/ f[i] = lock.target /\ lock.phase = "pop"
          \/ st = "redo" /\ lock.kind \in {"snapshot", "rewind"}
      BY <2>3, <3>2 DEF Keeps
    <3>5. QED
      BY <3>3, <3>4 DEF f
  <2>4. QED
    BY <2>2, <2>3
<1>3. refs' = refs \/ WriteRef
  BY RefSteps, Zenon
  DEF WriteFails, SnapshotDone, Apply, EndRestore, BeginRestore, BeginRewind, Crash, PushSnapshot,
      GivesUp, repoVars
<1>4. QED
  BY <1>1, <1>2, <1>3

-----------------------------------------------------------------------------
(* A turn that has the stacks for itself finds its snapshot on top of them. *)

(* Nothing but a rewind's thread changes in session q, and it is not found *)
(* clean again.                                                            *)
SessionSame(q) ==
  /\ turn'[q] = turn[q] /\ op'[q] = op[q] /\ ran'[q] = ran[q] /\ task'[q] = task[q]
  /\ captured'[q] = captured[q] /\ (clean'[q] => clean[q])

(* The session has a turn or an abort whose history counts. *)
Counts(p) == clean[p] /\ (turn[p] # "none" \/ op[p].kind = "abort")

(* What the proofs know of a state *)
LEMMA TurnNow ==
  ASSUME TurnStepInv
  PROVE  /\ CheckpointInv /\ TypeOK /\ LockInv /\ CommandInv /\ HistoryOK /\ OwnerOK
         /\ turn \in [Sessions -> Turns] /\ task \in [Sessions -> [Runs -> Tasks]]
         /\ op \in [Sessions -> Commands] /\ refs \in [Stacks -> Refs]
         /\ ran \in [Sessions -> Nat] /\ captured \in [Sessions -> Trees]
         /\ clean \in [Sessions -> BOOLEAN]
         /\ \A p \in Sessions : SlotOK(p) /\ CaptureOK(p)
BY DEF TurnStepInv, CheckpointInv, TypeOK, HistoryOK, Turns

LEMMA OffFacts ==
  /\ ~Running(OffTask) /\ OffTask.pc = "none" /\ OffTask.held = "none"
  /\ \A t : t.pc # "none" \/ t.held # "none" => Running(t)
  /\ \A t : ~Running(t) => t = OffTask
BY DEF Running, OffTask

LEMMA SameSlot ==
  ASSUME NEW q, SlotOK(q), SessionSame(q) PROVE SlotOK(q)'
<1>1. Slot(q)' = Slot(q)
  BY DEF Slot, SessionSame
<1>2. QED
  BY <1>1 DEF SlotOK, SessionSame, Running

LEMMA SameCapture ==
  ASSUME NEW q \in Sessions, CaptureOK(q), SessionSame(q),
         \/ UNCHANGED <<torn, lock, refs, todo>>
         \/ ~Free /\ lock.sess # q
         \/ ~clean'[q]
  PROVE  CaptureOK(q)'
<1>1. Slot(q)' = Slot(q)
  BY DEF Slot, SessionSame
<1>2. CASE ~clean'[q]
  BY <1>2 DEF CaptureOK
<1>3. CASE ~Free /\ lock.sess # q
  BY <1>3 DEF CaptureOK, SessionSame
<1>4. CASE UNCHANGED <<torn, lock, refs, todo>>
  BY <1>1, <1>4 DEF CaptureOK, SessionSame, Running, Free, Holds
<1>5. QED
  BY <1>2, <1>3, <1>4

(* The holder of the lock goes on, whatever the other sessions do *)
LEMMA OwnerSame ==
  ASSUME TypeOK, LockInv, OwnerOK, lock' = lock,
         \A q \in Sessions, k \in Runs : task[q][k].pc = "write" => task'[q][k].pc = "write",
         \A q \in Sessions : op[q].pc = "run" => op'[q] = op[q]
  PROVE  OwnerOK'
<1>1. CASE Free
  BY <1>1, NoneTypes DEF OwnerOK, Free
<1>2. CASE ~Free
  <2>1. lock.sess \in Sessions
    BY <1>2 DEF LockInv
  <2>2. QED
    BY <2>1 DEF OwnerOK
<1>3. QED
  BY <1>1, <1>2

(* Who counts has the lock free, or holds it. *)
LEMMA CountsFacts ==
  ASSUME NEW p \in Sessions, CaptureOK(p), SlotOK(p), Counts(p)
  PROVE  /\ torn = "no" /\ (Free \/ lock.sess = p) /\ ran[p] \in Runs
         /\ \A k \in Runs : Running(task[p][k]) => k = ran[p]
BY DEF CaptureOK, SlotOK, Counts

(* A step of session p that leaves the lock and the refs alone *)
LEMMA OwnStep ==
  ASSUME TurnStepInv, NEW p \in Sessions, UNCHANGED <<torn, lock, refs, todo>>,
         \A q \in Sessions \ {p} : SessionSame(q),
         \A k \in Runs : task[p][k].pc = "write" => task'[p][k].pc = "write",
         op[p].pc = "run" => op'[p] = op[p],
         SlotOK(p)', CaptureOK(p)'
  PROVE  OwnerOK' /\ \A q \in Sessions : SlotOK(q)' /\ CaptureOK(q)'
<1>1. ASSUME NEW q \in Sessions PROVE SlotOK(q)' /\ CaptureOK(q)'
  <2>1. CASE q = p
    BY <2>1
  <2>2. CASE q # p
    <3>1. SessionSame(q) /\ SlotOK(q) /\ CaptureOK(q)
      BY <2>2, TurnNow
    <3>2. QED
      BY <3>1, SameSlot, SameCapture
  <2>3. QED
    BY <2>1, <2>2
<1>2. \A q \in Sessions, k \in Runs : task[q][k].pc = "write" => task'[q][k].pc = "write"
  BY DEF SessionSame
<1>3. \A q \in Sessions : op[q].pc = "run" => op'[q] = op[q]
  BY DEF SessionSame
<1>4. OwnerOK'
  BY <1>2, <1>3, TurnNow, OwnerSame
<1>5. QED
  BY <1>1, <1>4

LEMMA StartTurnTurn ==
  ASSUME TurnStepInv, NEW p \in Sessions, StartTurn(p)
  PROVE  HistoryOK' /\ OwnerOK' /\ \A q \in Sessions : SlotOK(q)' /\ CaptureOK(q)'
<1>0. /\ turn \in [Sessions -> Turns] /\ task \in [Sessions -> [Runs -> Tasks]]
      /\ ran \in [Sessions -> Nat] /\ captured \in [Sessions -> Trees]
      /\ clean \in [Sessions -> BOOLEAN] /\ SlotOK(p) /\ CaptureOK(p) /\ tree \in Trees
  BY TurnNow DEF TypeOK
<1>1. /\ turn[p] = "none" /\ op[p] = NoOp /\ ran[p] + 1 \in Runs
      /\ turn' = [turn EXCEPT ![p] = "start"] /\ ran' = [ran EXCEPT ![p] = ran[p] + 1]
      /\ captured' = [captured EXCEPT ![p] = tree]
      /\ clean' = [clean EXCEPT ![p] = torn = "no" /\ Free /\ \A k \in Runs : ~Running(task[p][k])]
      /\ UNCHANGED <<torn, lock, refs, todo, task, op>>
  BY DEF StartTurn, repoVars, lockVars
<1>2. HistoryOK'
  BY <1>0, <1>1 DEF HistoryOK
<1>3. \A q \in Sessions \ {p} : SessionSame(q)
  BY <1>0, <1>1 DEF SessionSame
<1>4. /\ turn'[p] = "start" /\ ran'[p] = ran[p] + 1 /\ op'[p] = NoOp /\ ran[p] \in Nat
      /\ clean'[p] => torn = "no" /\ Free /\ \A k \in Runs : ~Running(task[p][k])
  BY <1>0, <1>1
<1>5. ~Running(task[p][ran[p] + 1])
  BY <1>0, <1>1, <1>4 DEF SlotOK
<1>6. SlotOK(p)'
  <2>1. \A k \in Runs : k > ran[p] + 1 \/ k = ran[p] + 1 => k > ran[p]
    BY <1>4 DEF Runs
  <2>2. \A k \in Runs : k > ran[p] => ~Running(task[p][k])
    BY <1>0 DEF SlotOK
  <2>3. Slot(p)' = task[p][ran[p] + 1]
    BY <1>1, <1>4 DEF Slot
  <2>4. \A k \in Runs : k > ran'[p] \/ (k = ran'[p] /\ turn'[p] = "start") => ~Running(task'[p][k])
    BY <1>1, <1>4, <2>1, <2>2
  <2>5. QED
    BY <1>1, <1>4, <1>5, <2>3, <2>4, NoneTypes DEF SlotOK, Running
<1>7. CaptureOK(p)'
  <2>1. Slot(p)' = task[p][ran[p] + 1]
    BY <1>1, <1>4 DEF Slot
  <2>2. Slot(p)' = OffTask
    BY <1>5, <2>1, OffFacts
  <2>3. QED
    BY <1>1, <1>4, <2>2, OffFacts DEF CaptureOK, Running, Free
<1>8. QED
  BY <1>1, <1>2, <1>3, <1>6, <1>7, OwnStep

LEMMA StartSnapshotTurn ==
  ASSUME TurnStepInv, NEW p \in Sessions, StartSnapshot(p)
  PROVE  HistoryOK' /\ OwnerOK' /\ \A q \in Sessions : SlotOK(q)' /\ CaptureOK(q)'
<1> DEFINE t == [pc |-> "build", held |-> "slot", snap |-> None, owner |-> Thread(p), turn |-> humans[p]]
<1>0. /\ turn \in [Sessions -> Turns] /\ task \in [Sessions -> [Runs -> Tasks]]
      /\ ran \in [Sessions -> Nat] /\ HistoryOK /\ SlotOK(p) /\ CaptureOK(p)
  BY TurnNow
<1>1. /\ turn[p] = "start" /\ turn' = [turn EXCEPT ![p] = "stream"]
      /\ task' = [task EXCEPT ![p][ran[p]] = t]
      /\ UNCHANGED <<torn, lock, refs, todo, op, ran, captured, clean>>
  BY DEF StartSnapshot, TaskTo, repoVars, lockVars, historyVars
<1>2. HistoryOK'
  BY <1>0, <1>1 DEF HistoryOK
<1>3. \A q \in Sessions \ {p} : SessionSame(q)
  BY <1>0, <1>1 DEF SessionSame
<1>4. ran[p] \in Runs /\ t.pc = "build" /\ t.held = "slot"
  BY <1>0, <1>1 DEF SlotOK
<1> HIDE DEF t
<1>5. turn'[p] = "stream" /\ \A k \in Runs : task'[p][k] = IF k = ran[p] THEN t ELSE task[p][k]
  BY <1>0, <1>1, <1>4
<1>6. Slot(p)' = t /\ ~Running(task[p][ran[p]])
  BY <1>0, <1>1, <1>4, <1>5 DEF Slot, SlotOK
<1>7. ASSUME NEW k \in Runs, task[p][k].pc = "write" PROVE task'[p][k].pc = "write"
  BY <1>5, <1>6, <1>7, OffFacts
<1>8. SlotOK(p)'
  <2>1. ASSUME NEW k \in Runs, k > ran'[p] \/ (k = ran'[p] /\ turn'[p] = "start")
        PROVE  ~Running(task'[p][k])
    <3>1. k > ran[p] /\ k # ran[p]
      BY <1>0, <1>1, <1>5, <2>1 DEF Runs
    <3>2. QED
      BY <1>0, <1>5, <3>1 DEF SlotOK
  <2>2. QED
    BY <1>0, <1>1, <1>4, <1>5, <1>6, <2>1 DEF SlotOK, Running
<1>9. CaptureOK(p)'
  <2>1. Running(t)
    BY <1>4, OffFacts
  <2>2. \A k \in Runs \ {ran'[p]} : task'[p][k] = task[p][k]
    BY <1>1, <1>5
  <2>3. SUFFICES ASSUME clean'[p]
                 PROVE  /\ torn' = "no" /\ (Free' \/ lock'.sess = p)
                        /\ \A k \in Runs \ {ran'[p]} : ~Running(task'[p][k])
    BY <1>4, <1>5, <1>6, <2>1 DEF CaptureOK, Running
  <2>4. Counts(p)
    BY <1>1, <2>3 DEF Counts
  <2>5. QED
    BY <1>0, <1>1, <2>2, <2>4, CountsFacts DEF Free
<1>10. QED
  BY <1>1, <1>2, <1>3, <1>7, <1>8, <1>9, OwnStep

LEMMA RestSlot ==
  ASSUME NEW p \in Sessions, SlotOK(p), turn'[p] = "none", ran'[p] = ran[p],
         \A k \in Runs : Running(task'[p][k]) => Running(task[p][k]),
         op'[p].kind = "abort" => ran[p] \in Runs
  PROVE  SlotOK(p)'
BY DEF SlotOK, Running

LEMMA RestCapture ==
  ASSUME NEW p \in Sessions, turn'[p] = "none", op'[p].kind # "abort" PROVE CaptureOK(p)'
BY DEF CaptureOK

(* The turn goes on, and its snapshot has the same state *)
LEMMA AlongTurn ==
  ASSUME TurnStepInv, NEW p \in Sessions, NEW where \in {"gate", "end", "edited"},
         turn[p] # "none", turn[p] # "start", turn' = [turn EXCEPT ![p] = where],
         where = "edited" => ~Running(Slot(p)),
         UNCHANGED <<torn, lock, refs, todo, op, ran, task, captured, clean>>
  PROVE  HistoryOK' /\ OwnerOK' /\ \A q \in Sessions : SlotOK(q)' /\ CaptureOK(q)'
<1>0. turn \in [Sessions -> Turns] /\ HistoryOK /\ SlotOK(p) /\ CaptureOK(p)
  BY TurnNow
<1>1. HistoryOK' /\ turn'[p] = where /\ Slot(p)' = Slot(p)
  BY <1>0 DEF HistoryOK, Slot
<1>2. \A q \in Sessions \ {p} : SessionSame(q)
  BY <1>0 DEF SessionSame
<1>3. SlotOK(p)'
  BY <1>0, <1>1 DEF SlotOK, Running
<1>4. CaptureOK(p)'
  BY <1>0, <1>1 DEF CaptureOK, Running, Free, Holds
<1>5. QED
  BY <1>1, <1>2, <1>3, <1>4, OwnStep

LEMMA AwaitTurn ==
  ASSUME TurnStepInv, NEW p \in Sessions, NEW where \in {"gate", "end"}, Await(p, where)
  PROVE  HistoryOK' /\ OwnerOK' /\ \A q \in Sessions : SlotOK(q)' /\ CaptureOK(q)'
<1>1. /\ turn[p] # "none" /\ turn[p] # "start" /\ turn' = [turn EXCEPT ![p] = where]
      /\ UNCHANGED <<torn, lock, refs, todo, op, ran, task, captured, clean>>
      /\ where \in {"gate", "end", "edited"} /\ where # "edited"
  BY DEF Await, repoVars, lockVars, threadVars, historyVars
<1>2. QED
  BY <1>1, AlongTurn

LEMMA MutateTurn ==
  ASSUME TurnStepInv, NEW p \in Sessions, Mutate(p)
  PROVE  HistoryOK' /\ OwnerOK' /\ \A q \in Sessions : SlotOK(q)' /\ CaptureOK(q)'
<1>1. /\ turn[p] # "none" /\ turn[p] # "start" /\ turn' = [turn EXCEPT ![p] = "edited"]
      /\ UNCHANGED <<torn, lock, refs, todo, op, ran, task, captured, clean>>
      /\ ~Running(Slot(p)) /\ "edited" \in {"gate", "end", "edited"}
  BY DEF Mutate, GateOpen, lockVars, threadVars
<1>2. QED
  BY <1>1, AlongTurn

LEMMA StillTurn ==
  ASSUME TurnStepInv,
         UNCHANGED <<torn, lock, refs, todo, turn, op, ran, task, captured, clean>>
  PROVE  HistoryOK' /\ OwnerOK' /\ \A q \in Sessions : SlotOK(q)' /\ CaptureOK(q)'
<1>1. HistoryOK'
  BY TurnNow DEF HistoryOK
<1>2. \A q \in Sessions : SessionSame(q)
  BY DEF SessionSame
<1>3. ASSUME NEW q \in Sessions PROVE SlotOK(q)' /\ CaptureOK(q)'
  BY <1>2, TurnNow, SameSlot, SameCapture
<1>4. OwnerOK'
  BY TurnNow, OwnerSame
<1>5. QED
  BY <1>1, <1>3, <1>4

(* The session forgets its turn *)
LEMMA ForgetsIs ==
  ASSUME HistoryOK, NEW p \in Sessions, Forgets(p)
  PROVE  /\ captured' \in [Sessions -> Trees] /\ clean' \in [Sessions -> BOOLEAN]
         /\ \A q \in Sessions \ {p} : captured'[q] = captured[q] /\ clean'[q] = clean[q]
<1>1. 0 \in Trees
  BY CheckpointsAssumption DEF Trees
<1>2. QED
  BY <1>1 DEF HistoryOK, Forgets

LEMMA FinishTurnTurn ==
  ASSUME TurnStepInv, NEW p \in Sessions, FinishTurn(p)
  PROVE  HistoryOK' /\ OwnerOK' /\ \A q \in Sessions : SlotOK(q)' /\ CaptureOK(q)'
<1>0. turn \in [Sessions -> Turns] /\ HistoryOK /\ SlotOK(p) /\ ran \in [Sessions -> Nat]
  BY TurnNow
<1>1. /\ turn[p] = "end" /\ turn' = [turn EXCEPT ![p] = "none"] /\ Forgets(p)
      /\ UNCHANGED <<torn, lock, refs, todo, op, ran, task>>
  BY DEF FinishTurn, repoVars, lockVars, threadVars
<1>2. /\ captured' \in [Sessions -> Trees] /\ clean' \in [Sessions -> BOOLEAN]
      /\ \A q \in Sessions \ {p} : captured'[q] = captured[q] /\ clean'[q] = clean[q]
  BY <1>0, <1>1, ForgetsIs
<1>3. HistoryOK'
  BY <1>0, <1>1, <1>2 DEF HistoryOK
<1>4. \A q \in Sessions \ {p} : SessionSame(q)
  BY <1>0, <1>1, <1>2 DEF SessionSame
<1>5. turn'[p] = "none" /\ op[p].kind = "none"
  BY <1>0, <1>1 DEF SlotOK
<1>6. SlotOK(p)' /\ CaptureOK(p)'
  <2>1. op'[p].kind # "abort" /\ ran'[p] = ran[p] /\ task'[p] = task[p]
    BY <1>1, <1>5
  <2>2. QED
    BY <1>0, <1>5, <2>1, RestSlot, RestCapture
<1>7. QED
  BY <1>1, <1>3, <1>4, <1>6, OwnStep

(* The turn's task is cancelled: its snapshot thread runs on *)
LEMMA CancelledTask ==
  ASSUME TurnStepInv, NEW p \in Sessions, Cancelled(p)
  PROVE  /\ turn[p] # "none" /\ turn' = [turn EXCEPT ![p] = "none"] /\ turn'[p] = "none"
         /\ ran[p] \in Runs
         /\ \A q \in Sessions \ {p} : task'[q] = task[q] /\ turn'[q] = turn[q]
         /\ \A k \in Runs : /\ task'[p][k].pc = task[p][k].pc /\ task'[p][k].snap = task[p][k].snap
                            /\ Running(task'[p][k]) <=> Running(task[p][k])
         /\ Running(task[p][ran[p]]) /\ ~Waits(p) => task'[p][ran[p]].held = "detached"
<1> DEFINE left == IF Waits(p) THEN "orphan" ELSE "detached"
           s == task[p][ran[p]]
           t == [s EXCEPT !.held = left]
<1>0. turn \in [Sessions -> Turns] /\ task \in [Sessions -> [Runs -> Tasks]] /\ SlotOK(p)
  BY TurnNow
<1>1. turn[p] # "none" /\ turn' = [turn EXCEPT ![p] = "none"]
  BY DEF Cancelled
<1>2. ran[p] \in Runs /\ s \in Tasks /\ s = Slot(p)
  BY <1>0, <1>1 DEF SlotOK, Slot
<1>3. left \in {"orphan", "detached"} /\ (~Waits(p) => left = "detached")
  OBVIOUS
<1>4. turn'[p] = "none" /\ \A q \in Sessions \ {p} : turn'[q] = turn[q]
  BY <1>0, <1>1
<1>5. CASE Running(s)
  <2>1. s.held = "slot"
    BY <1>0, <1>1, <1>2, <1>5 DEF SlotOK
  <2>2. task' = [task EXCEPT ![p][ran[p]] = t]
    BY <1>2, <1>5, <2>1 DEF Cancelled, TaskTo
  <2>3. t.pc = s.pc /\ t.snap = s.snap /\ t.held = left
    <3> HIDE DEF left, s
    <3>1. QED
      BY <1>2 DEF Tasks
  <2>4. Running(t)
    BY <1>3, <2>3, OffFacts
  <2> HIDE DEF t, left
  <2>5. /\ \A k \in Runs : task'[p][k] = IF k = ran[p] THEN t ELSE task[p][k]
        /\ \A q \in Sessions \ {p} : task'[q] = task[q]
    BY <1>0, <1>2, <2>2
  <2>6. QED
    BY <1>1, <1>2, <1>3, <1>4, <1>5, <2>3, <2>4, <2>5
<1>6. CASE ~Running(s)
  <2>1. task' = task
    BY <1>2, <1>6 DEF Cancelled
  <2>2. QED
    BY <1>1, <1>2, <1>4, <1>6, <2>1
<1>7. QED
  BY <1>5, <1>6

LEMMA CancelTurn ==
  ASSUME TurnStepInv, NEW p \in Sessions, Cancel(p)
  PROVE  HistoryOK' /\ OwnerOK' /\ \A q \in Sessions : SlotOK(q)' /\ CaptureOK(q)'
<1>0. HistoryOK /\ SlotOK(p) /\ ran \in [Sessions -> Nat]
  BY TurnNow
<1>1. Cancelled(p) /\ Forgets(p) /\ UNCHANGED <<torn, lock, refs, todo, op, ran>>
  BY DEF Cancel, repoVars, lockVars, threadVars
<1>2. /\ turn[p] # "none" /\ turn'[p] = "none"
      /\ \A q \in Sessions \ {p} : task'[q] = task[q] /\ turn'[q] = turn[q]
      /\ \A k \in Runs : /\ task'[p][k].pc = task[p][k].pc
                         /\ Running(task'[p][k]) <=> Running(task[p][k])
  BY <1>1, CancelledTask
<1>3. /\ captured' \in [Sessions -> Trees] /\ clean' \in [Sessions -> BOOLEAN]
      /\ \A q \in Sessions \ {p} : captured'[q] = captured[q] /\ clean'[q] = clean[q]
  BY <1>0, <1>1, ForgetsIs
<1>4. HistoryOK'
  BY <1>0, <1>1, <1>3 DEF HistoryOK
<1>5. \A q \in Sessions \ {p} : SessionSame(q)
  BY <1>1, <1>2, <1>3 DEF SessionSame
<1>6. SlotOK(p)' /\ CaptureOK(p)'
  <2>1. op'[p].kind # "abort" /\ ran'[p] = ran[p]
    BY <1>0, <1>1, <1>2 DEF SlotOK
  <2>2. QED
    BY <1>0, <1>2, <2>1, RestSlot, RestCapture
<1>7. QED
  BY <1>1, <1>2, <1>4, <1>5, <1>6, OwnStep

LEMMA AbortTurn ==
  ASSUME TurnStepInv, NEW p \in Sessions, Abort(p)
  PROVE  HistoryOK' /\ OwnerOK' /\ \A q \in Sessions : SlotOK(q)' /\ CaptureOK(q)'
<1> DEFINE o == [NoOp EXCEPT !.kind = "abort", !.pc = "settle"]
           s == task[p][ran[p]]
<1>0. /\ HistoryOK /\ SlotOK(p) /\ CaptureOK(p) /\ ran \in [Sessions -> Nat]
      /\ op \in [Sessions -> Commands] /\ clean \in [Sessions -> BOOLEAN]
  BY TurnNow
<1>1. /\ op[p] = NoOp /\ Cancelled(p) /\ op' = [op EXCEPT ![p] = o]
      /\ clean' = [clean EXCEPT ![p] = clean[p] /\ turn[p] # "start" /\ ~(Waits(p) /\ Running(Slot(p)))]
      /\ UNCHANGED <<torn, lock, refs, todo, ran, captured>>
  BY DEF Abort, OpTo, repoVars, lockVars, threadVars
<1>2. /\ turn[p] # "none" /\ turn'[p] = "none" /\ ran[p] \in Runs
      /\ \A q \in Sessions \ {p} : task'[q] = task[q] /\ turn'[q] = turn[q]
      /\ \A k \in Runs : /\ task'[p][k].pc = task[p][k].pc /\ task'[p][k].snap = task[p][k].snap
                         /\ Running(task'[p][k]) <=> Running(task[p][k])
      /\ Running(s) /\ ~Waits(p) => task'[p][ran[p]].held = "detached"
  BY <1>1, CancelledTask
<1>3. o.kind = "abort" /\ o.pc = "settle"
  BY DEF NoOp
<1> HIDE DEF o
<1>4. /\ op'[p] = o /\ \A q \in Sessions \ {p} : op'[q] = op[q] /\ clean'[q] = clean[q]
      /\ clean'[p] => clean[p] /\ turn[p] # "start" /\ ~(Waits(p) /\ Running(Slot(p)))
  BY <1>0, <1>1
<1>5. HistoryOK'
  BY <1>0, <1>1 DEF HistoryOK
<1>6. \A q \in Sessions \ {p} : SessionSame(q)
  BY <1>1, <1>2, <1>4 DEF SessionSame
<1>7. SlotOK(p)'
  BY <1>0, <1>1, <1>2, RestSlot
<1>8. Slot(p) = s /\ Slot(p)' = task'[p][ran[p]]
  BY <1>1 DEF Slot
<1>9. CaptureOK(p)'
  <2>1. SUFFICES ASSUME clean'[p]
                 PROVE  /\ torn' = "no" /\ (Free' \/ lock'.sess = p)
                        /\ \A k \in Runs \ {ran[p]} : ~Running(task'[p][k])
                        /\ Running(s) => task'[p][ran[p]].held # "orphan"
                        /\ s.pc \in {"compare", "push"} => s.snap.tree = captured[p]
                        /\ s.pc = "write" =>
                             lock.kind = "snapshot" /\ Holds(After("undo", refs["undo"], todo)[0], p)
                        /\ ~Running(s) =>
                             IF lock.phase = "pop" THEN lock.target.tree = captured[p]
                             ELSE Free => Holds(refs["undo"][0], p)
    <3> HIDE DEF s
    <3>1. QED
      BY <1>1, <1>2, <1>3, <1>4, <1>8, <2>1 DEF CaptureOK, Free, Holds, s
  <2>2. Counts(p) /\ turn[p] # "start"
    BY <1>2, <1>4, <2>1 DEF Counts
  <2>3. torn = "no" /\ (Free \/ lock.sess = p) /\ \A k \in Runs : Running(task[p][k]) => k = ran[p]
    BY <1>0, <2>2, CountsFacts
  <2>4. Running(s) => ~Waits(p)
    BY <1>4, <1>8, <2>1
  <2>5. /\ s.pc \in {"compare", "push"} => s.snap.tree = captured[p]
        /\ s.pc = "write" =>
             lock.kind = "snapshot" /\ Holds(After("undo", refs["undo"], todo)[0], p)
        /\ ~Running(s) =>
             IF lock.phase = "pop" THEN lock.target.tree = captured[p]
             ELSE Free => Holds(refs["undo"][0], p)
    BY <1>0, <1>8, <2>2 DEF CaptureOK, Counts
  <2>6. torn' = "no" /\ (Free' \/ lock'.sess = p)
    BY <1>1, <2>3 DEF Free
  <2> HIDE DEF s
  <2>7. QED
    BY <1>2, <2>3, <2>4, <2>5, <2>6
<1>10. op[p].pc # "run"
  BY <1>1, NoneTypes
<1>11. QED
  BY <1>1, <1>2, <1>5, <1>6, <1>7, <1>9, <1>10, OwnStep

(* A session without a turn begins, ends or goes on with a command that is no *)
(* abort.                                                                     *)
LEMMA CommandStep ==
  ASSUME TurnStepInv, NEW p \in Sessions, NEW o, OpTo(p, o), o.kind # "abort",
         turn[p] = "none", op[p].pc # "run",
         UNCHANGED <<torn, lock, refs, todo, turn, ran, task, captured, clean>>
  PROVE  HistoryOK' /\ OwnerOK' /\ \A q \in Sessions : SlotOK(q)' /\ CaptureOK(q)'
<1>0. HistoryOK /\ SlotOK(p) /\ op \in [Sessions -> Commands] /\ op' = [op EXCEPT ![p] = o]
  BY TurnNow DEF OpTo
<1>1. HistoryOK' /\ op'[p] = o
  BY <1>0 DEF HistoryOK
<1>2. \A q \in Sessions \ {p} : SessionSame(q)
  BY <1>0 DEF SessionSame
<1>3. SlotOK(p)' /\ CaptureOK(p)'
  BY <1>0, <1>1, RestSlot, RestCapture
<1>4. QED
  BY <1>1, <1>2, <1>3, OwnStep

(* A command in progress has no turn *)
LEMMA CommandRests ==
  ASSUME TurnStepInv, NEW p \in Sessions, op[p].pc # "none"
  PROVE  op[p].kind # "none" /\ turn[p] = "none"
BY TurnNow DEF CommandInv, SlotOK

LEMMA CommandTurn ==
  ASSUME TurnStepInv, NEW p \in Sessions, NEW kind \in {"undo", "redo"}, Command(p, kind)
  PROVE  HistoryOK' /\ OwnerOK' /\ \A q \in Sessions : SlotOK(q)' /\ CaptureOK(q)'
<1> DEFINE o == [NoOp EXCEPT !.kind = kind, !.pc = "settle"]
<1>1. /\ turn[p] = "none" /\ op[p].pc # "run" /\ OpTo(p, o)
      /\ UNCHANGED <<torn, lock, refs, todo, turn, ran, task, captured, clean>>
  BY NoneTypes DEF Command, Idle, repoVars, lockVars, threadVars, historyVars
<1>2. o.kind # "abort"
  BY DEF NoOp
<1> HIDE DEF o
<1>3. QED
  BY <1>1, <1>2, CommandStep

LEMMA StartRewindTurn ==
  ASSUME TurnStepInv, NEW p \in Sessions, NEW k, StartRewind(p, k)
  PROVE  HistoryOK' /\ OwnerOK' /\ \A q \in Sessions : SlotOK(q)' /\ CaptureOK(q)'
<1> DEFINE o == [NoOp EXCEPT !.kind = "rewind", !.pc = "settle", !.target = FindForTurn(p, k), !.turn = k]
<1>1. /\ turn[p] = "none" /\ op[p].pc # "run"
      /\ UNCHANGED <<torn, lock, refs, todo, turn, task, captured, clean>>
      /\ ran' = ran
      /\ op' = op \/ OpTo(p, o)
  BY NoneTypes DEF StartRewind, Forks, Idle, repoVars, lockVars, threadVars, historyVars
<1>2. o.kind # "abort"
  BY DEF NoOp
<1> HIDE DEF o
<1>3. CASE op' = op
  BY <1>1, <1>3, StillTurn
<1>4. CASE OpTo(p, o)
  BY <1>1, <1>2, <1>4, CommandStep
<1>5. QED
  BY <1>1, <1>3, <1>4

LEMMA GivesUpTurn ==
  ASSUME TurnStepInv, NEW p \in Sessions, op[p].pc # "run", op[p].pc # "none", GivesUp(p)
  PROVE  HistoryOK' /\ OwnerOK' /\ \A q \in Sessions : SlotOK(q)' /\ CaptureOK(q)'
<1>1. turn[p] = "none"
  BY CommandRests
<1>2. OpTo(p, NoOp) /\ UNCHANGED <<torn, lock, refs, todo, turn, ran, task, captured, clean>>
  BY DEF GivesUp, repoVars, lockVars, threadVars, historyVars
<1>3. NoOp.kind # "abort"
  BY NoneTypes
<1>4. QED
  BY <1>1, <1>2, <1>3, CommandStep

LEMMA PreviewTurn ==
  ASSUME TurnStepInv, NEW p \in Sessions, Preview(p) \/ Confirm(p) \/ Decline(p)
  PROVE  HistoryOK' /\ OwnerOK' /\ \A q \in Sessions : SlotOK(q)' /\ CaptureOK(q)'
<1>1. op[p].pc \in {"preview", "confirm"}
  BY DEF Preview, Confirm, Decline
<1>2. op[p].kind = "undo" /\ turn[p] = "none" /\ op[p] \in Commands
  BY <1>1, TurnNow, CommandRests DEF CommandInv
<1>3. CASE GivesUp(p)
  BY <1>1, <1>3, GivesUpTurn
<1>4. CASE ~GivesUp(p)
  <2> DEFINE a == [op[p] EXCEPT !.pc = "confirm", !.target = refs["undo"][0], !.tree = tree]
             b == [op[p] EXCEPT !.pc = "want"]
  <2>1. /\ OpTo(p, a) \/ OpTo(p, b)
        /\ UNCHANGED <<torn, lock, refs, todo, turn, ran, task, captured, clean>>
    BY <1>4 DEF Preview, Confirm, Decline, repoVars, lockVars, threadVars, historyVars
  <2>2. a.kind # "abort" /\ b.kind # "abort"
    BY <1>2 DEF Commands
  <2> HIDE DEF a, b
  <2>3. QED
    BY <1>1, <1>2, <2>1, <2>2, CommandStep
<1>5. QED
  BY <1>3, <1>4

(* An abort goes on when the snapshot of its turn is done *)
LEMMA SettleTurn ==
  ASSUME TurnStepInv, NEW p \in Sessions, Settle(p)
  PROVE  HistoryOK' /\ OwnerOK' /\ \A q \in Sessions : SlotOK(q)' /\ CaptureOK(q)'
<1> DEFINE o == [op[p] EXCEPT !.pc = IF op[p].kind = "undo" THEN "preview" ELSE "want"]
<1>1. /\ op[p].pc = "settle" /\ Settled(p) /\ OpTo(p, o)
      /\ UNCHANGED <<torn, lock, refs, todo, turn, ran, task, captured, clean>>
  BY DEF Settle, MaySettle, repoVars, lockVars, threadVars, historyVars
<1>2. turn[p] = "none" /\ op[p] \in Commands /\ op \in [Sessions -> Commands]
  BY <1>1, TurnNow, CommandRests
<1>3. o.kind = op[p].kind
  BY <1>2 DEF Commands
<1> HIDE DEF o
<1>4. CASE op[p].kind # "abort"
  BY <1>1, <1>2, <1>3, <1>4, CommandStep
<1>5. CASE op[p].kind = "abort"
  <2>0. HistoryOK /\ SlotOK(p) /\ CaptureOK(p) /\ op' = [op EXCEPT ![p] = o]
    BY <1>1, TurnNow DEF OpTo
  <2>1. HistoryOK' /\ op'[p] = o /\ Slot(p)' = Slot(p)
    BY <1>1, <1>2, <2>0 DEF HistoryOK, Slot
  <2>2. \A q \in Sessions \ {p} : SessionSame(q)
    BY <1>1, <1>2, <2>0 DEF SessionSame
  <2>3. SlotOK(p)'
    <3>1. ran[p] \in Runs
      BY <1>5, <2>0 DEF SlotOK
    <3>2. QED
      BY <1>1, <1>2, <2>0, <3>1, RestSlot
  <2>4. CaptureOK(p)'
    <3>1. Slot(p) = task[p][ran[p]] /\ ran[p] \in Runs
      BY <1>5, <2>0 DEF SlotOK, Slot
    <3>2. Running(Slot(p)) => Slot(p).held = "orphan"
      BY <1>1, <3>1 DEF Settled
    <3>3. QED
      BY <1>1, <1>2, <1>3, <1>5, <2>0, <2>1, <3>2 DEF CaptureOK, Running, Free, Holds
  <2>5. QED
    BY <1>1, <2>1, <2>2, <2>3, <2>4, OwnStep
<1>6. QED
  BY <1>4, <1>5

(* A snapshot thread of session p moves on; k is its turn's slot if it counts *)
LEMMA BuildSnapshotTurn ==
  ASSUME TurnStepInv, NEW p \in Sessions, NEW k \in Runs, BuildSnapshot(p, k)
  PROVE  HistoryOK' /\ OwnerOK' /\ \A q \in Sessions : SlotOK(q)' /\ CaptureOK(q)'
<1> DEFINE t == task[p][k]
           s == Built(t.owner, t.turn, "turn")
           u == [t EXCEPT !.pc = "compare", !.snap = s]
<1>0. /\ HistoryOK /\ SlotOK(p) /\ CaptureOK(p) /\ ran \in [Sessions -> Nat]
      /\ task \in [Sessions -> [Runs -> Tasks]] /\ clean \in [Sessions -> BOOLEAN]
      /\ captured \in [Sessions -> Trees] /\ tree \in Trees /\ t \in Tasks
  BY TurnNow DEF TypeOK
<1>1. t.pc = "build" /\ UNCHANGED <<torn, lock, refs, todo, turn, op, ran>>
  BY DEF BuildSnapshot, repoVars, lockVars, threadVars
<1>2. Running(t)
  BY <1>1, OffFacts
<1>3. CASE TaskTo(p, k, u) /\ clean' = clean
           /\ captured' = IF k = ran[p] /\ turn[p] # "edited" THEN [captured EXCEPT ![p] = tree]
                           ELSE captured
  <2>1. u.pc = "compare" /\ u.snap = s /\ u.held = t.held /\ s.tree = tree
    <3>1. s.tree = tree
      BY DEF Built
    <3> HIDE DEF t, s
    <3>2. QED
      BY <1>0, <3>1 DEF Tasks
  <2>2. Running(u)
    BY <2>1, OffFacts
  <2> HIDE DEF u, s
  <2>3. /\ \A l \in Runs : task'[p][l] = IF l = k THEN u ELSE task[p][l]
        /\ \A q \in Sessions \ {p} : task'[q] = task[q]
    BY <1>0, <1>3 DEF TaskTo
  <2>4. HistoryOK' /\ \A q \in Sessions \ {p} : captured'[q] = captured[q]
    BY <1>0, <1>1, <1>3 DEF HistoryOK
  <2>5. \A q \in Sessions \ {p} : SessionSame(q)
    BY <1>1, <1>3, <2>3, <2>4 DEF SessionSame
  <2>6. \A l \in Runs : task[p][l].pc = "write" => task'[p][l].pc = "write"
    BY <1>1, <2>3
  <2>7. \A l \in Runs : /\ Running(task'[p][l]) <=> Running(task[p][l])
                        /\ task'[p][l].held = task[p][l].held
    BY <1>2, <2>1, <2>2, <2>3
  <2>8. SlotOK(p)'
    BY <1>0, <1>1, <2>7 DEF SlotOK, Running, Slot
  <2>9. CaptureOK(p)'
    <3>1. SUFFICES ASSUME Counts(p) PROVE CaptureOK(p)'
      BY <1>1, <1>3 DEF CaptureOK, Counts
    <3>2. /\ torn = "no" /\ (Free \/ lock.sess = p) /\ ran[p] \in Runs
          /\ \A l \in Runs : Running(task[p][l]) => l = ran[p]
      BY <1>0, <3>1, CountsFacts
    <3>3. k = ran[p] /\ Slot(p) = t /\ Slot(p)' = u
      BY <1>1, <1>2, <2>3, <3>2 DEF Slot
    <3>4. turn[p] # "edited"
      BY <1>0, <1>2, <3>3 DEF SlotOK
    <3>5. captured'[p] = tree
      BY <1>0, <1>3, <3>3, <3>4
    <3>6. turn[p] = "none" => t.held # "orphan" /\ op[p].pc = "settle"
      BY <1>0, <1>2, <3>1, <3>3 DEF CaptureOK, Counts
    <3>7. \A l \in Runs \ {ran[p]} : ~Running(task'[p][l])
      BY <2>7, <3>2
    <3> HIDE DEF t
    <3>8. QED
      BY <1>1, <2>1, <2>2, <3>2, <3>3, <3>5, <3>6, <3>7 DEF CaptureOK, Running, Free
  <2>10. QED
    BY <1>1, <2>4, <2>5, <2>6, <2>8, <2>9, OwnStep
<1>4. CASE TaskTo(p, k, OffTask) /\ clean' = [clean EXCEPT ![p] = FALSE] /\ captured' = captured
  <2>1. /\ \A l \in Runs : task'[p][l] = IF l = k THEN OffTask ELSE task[p][l]
        /\ \A q \in Sessions \ {p} : task'[q] = task[q] /\ clean'[q] = clean[q]
        /\ clean'[p] = FALSE
    BY <1>0, <1>4 DEF TaskTo
  <2>2. HistoryOK'
    BY <1>0, <1>1, <1>4 DEF HistoryOK
  <2>3. \A q \in Sessions \ {p} : SessionSame(q)
    BY <1>1, <1>4, <2>1 DEF SessionSame
  <2>4. \A l \in Runs : task[p][l].pc = "write" => task'[p][l].pc = "write"
    BY <1>1, <2>1
  <2>5. \A l \in Runs : Running(task'[p][l]) => task'[p][l] = task[p][l]
    BY <2>1, OffFacts
  <2>6. SlotOK(p)'
    BY <1>0, <1>1, <2>5 DEF SlotOK, Running, Slot
  <2>7. CaptureOK(p)'
    BY <2>1 DEF CaptureOK
  <2>8. QED
    BY <1>1, <2>2, <2>3, <2>4, <2>6, <2>7, OwnStep
<1>5. QED
  BY <1>3, <1>4 DEF BuildSnapshot

(* Who counts and has its snapshot thread running does not restore *)
LEMMA NoRestore ==
  ASSUME TurnStepInv, NEW p \in Sessions, Counts(p), Running(Slot(p)) PROVE lock.phase # "pop"
<1>0. SlotOK(p) /\ CaptureOK(p) /\ OwnerOK /\ LockInv
  BY TurnNow
<1>1. SUFFICES ASSUME lock.phase = "pop" PROVE FALSE
  OBVIOUS
<1>2. ~Free /\ lock.kind \in Kinds \ {"none"}
  BY <1>0, <1>1, NoneTypes DEF LockInv, Free, Kinds
<1>3. lock.sess = p
  BY <1>0, <1>2, CountsFacts
<1>4. op[p].kind # "none" /\ op[p].pc = "run"
  BY <1>0, <1>2, <1>3 DEF OwnerOK
<1>5. turn[p] = "none"
  BY <1>0, <1>4 DEF SlotOK
<1>6. op[p].pc = "settle"
  BY <1>0, <1>5 DEF CaptureOK, Counts
<1>7. QED
  BY <1>4, <1>6

LEMMA CompareSnapshotTurn ==
  ASSUME TurnStepInv, NEW p \in Sessions, NEW k \in Runs, CompareSnapshot(p, k)
  PROVE  HistoryOK' /\ OwnerOK' /\ \A q \in Sessions : SlotOK(q)' /\ CaptureOK(q)'
<1> DEFINE t == task[p][k]
           same == refs["undo"][0] # None /\ refs["undo"][0].tree = t.snap.tree
           u == [t EXCEPT !.pc = "push"]
           v == IF same THEN OffTask ELSE u
<1>0. /\ HistoryOK /\ SlotOK(p) /\ CaptureOK(p) /\ ran \in [Sessions -> Nat]
      /\ task \in [Sessions -> [Runs -> Tasks]] /\ t \in Tasks
  BY TurnNow
<1>1. /\ t.pc = "compare" /\ TaskTo(p, k, v)
      /\ UNCHANGED <<torn, lock, refs, todo, turn, op, ran, captured, clean>>
  BY DEF CompareSnapshot, repoVars, lockVars, threadVars, historyVars
<1>2. Running(t)
  BY <1>1, OffFacts
<1>3. u.pc = "push" /\ u.snap = t.snap /\ u.held = t.held
  <2> HIDE DEF t
  <2>1. QED
    BY <1>0 DEF Tasks
<1>4. Running(u)
  BY <1>3, OffFacts
<1>5. (same => v = OffTask) /\ (~same => v = u)
  OBVIOUS
<1> HIDE DEF u, v
<1>6. /\ \A l \in Runs : task'[p][l] = IF l = k THEN v ELSE task[p][l]
      /\ \A q \in Sessions \ {p} : task'[q] = task[q]
  BY <1>0, <1>1 DEF TaskTo
<1>7. HistoryOK' /\ \A q \in Sessions \ {p} : SessionSame(q)
  BY <1>0, <1>1, <1>6 DEF HistoryOK, SessionSame
<1>8. \A l \in Runs : task[p][l].pc = "write" => task'[p][l].pc = "write"
  BY <1>1, <1>6
<1>9. \A l \in Runs : Running(task'[p][l]) => Running(task[p][l]) /\ task'[p][l].held = task[p][l].held
  BY <1>2, <1>3, <1>5, <1>6, OffFacts
<1>10. SlotOK(p)'
  BY <1>0, <1>1, <1>9 DEF SlotOK, Running, Slot
<1>11. CaptureOK(p)'
  <2>1. SUFFICES ASSUME Counts(p) PROVE CaptureOK(p)'
    BY <1>1 DEF CaptureOK, Counts
  <2>2. /\ torn = "no" /\ (Free \/ lock.sess = p) /\ ran[p] \in Runs
        /\ \A l \in Runs : Running(task[p][l]) => l = ran[p]
    BY <1>0, <2>1, CountsFacts
  <2>3. k = ran[p] /\ Slot(p) = t /\ Slot(p)' = v
    BY <1>1, <1>2, <1>6, <2>2 DEF Slot
  <2>4. /\ t.snap.tree = captured[p]
        /\ turn[p] = "none" => t.held # "orphan" /\ op[p].pc = "settle"
    BY <1>0, <1>1, <1>2, <2>1, <2>3 DEF CaptureOK, Counts
  <2>5. \A l \in Runs \ {ran[p]} : ~Running(task'[p][l])
    BY <1>9, <2>2
  <2>6. lock.phase # "pop"
    BY <1>2, <2>1, <2>3, NoRestore
  <2>7. CASE same
    <3>1. Slot(p)' = OffTask /\ Holds(refs["undo"][0], p)
      BY <1>5, <2>3, <2>4, <2>7 DEF Holds
    <3>2. QED
      BY <1>1, <2>2, <2>5, <2>6, <3>1, OffFacts DEF CaptureOK, Running, Free, Holds
  <2>8. CASE ~same
    <3>1. Slot(p)' = u
      BY <1>5, <2>3, <2>8
    <3> HIDE DEF t
    <3>2. QED
      BY <1>1, <1>3, <1>4, <2>2, <2>4, <2>5, <3>1 DEF CaptureOK, Running, Free
  <2>9. QED
    BY <2>7, <2>8
<1>12. QED
  BY <1>1, <1>7, <1>8, <1>10, <1>11, OwnStep

(* An operation of session p takes the lock: nobody else counts any more *)
LEMMA TakesLock ==
  ASSUME TurnStepInv, NEW p \in Sessions, Disturbs(p), UNCHANGED <<ran, captured>>,
         \A q \in Sessions \ {p} : turn'[q] = turn[q] /\ op'[q] = op[q] /\ task'[q] = task[q],
         SlotOK(p)', CaptureOK(p)'
  PROVE  HistoryOK' /\ \A q \in Sessions : SlotOK(q)' /\ CaptureOK(q)'
<1>0. HistoryOK /\ clean \in [Sessions -> BOOLEAN]
  BY TurnNow
<1>1. \A q \in Sessions : clean'[q] = (clean[q] /\ q = p)
  BY DEF Disturbs
<1>2. HistoryOK'
  BY <1>0 DEF HistoryOK, Disturbs
<1>3. ASSUME NEW q \in Sessions, q # p PROVE SlotOK(q)' /\ CaptureOK(q)'
  <2>1. SessionSame(q) /\ ~clean'[q]
    BY <1>1, <1>3 DEF SessionSame
  <2>2. QED
    BY <2>1, TurnNow, SameSlot, SameCapture
<1>4. QED
  BY <1>2, <1>3

LEMMA PushSnapshotTurn ==
  ASSUME TurnStepInv, NEW p \in Sessions, NEW k \in Runs, PushSnapshot(p, k)
  PROVE  HistoryOK' /\ OwnerOK' /\ \A q \in Sessions : SlotOK(q)' /\ CaptureOK(q)'
<1> DEFINE t == task[p][k]
           s == t.snap
           u == [t EXCEPT !.pc = "write"]
<1>0. /\ HistoryOK /\ SlotOK(p) /\ CaptureOK(p) /\ CheckpointInv /\ refs \in [Stacks -> Refs]
      /\ task \in [Sessions -> [Runs -> Tasks]] /\ t \in Tasks
  BY TurnNow
<1>1. /\ t.pc = "push" /\ Free /\ TaskTo(p, k, u) /\ Disturbs(p) /\ todo' = SnapshotWrites(refs, s)
      /\ lock' = [NoLock EXCEPT !.sess = p, !.job = k, !.kind = "snapshot", !.phase = "finish", !.pre = s]
      /\ UNCHANGED <<torn, refs, turn, op, ran, captured>>
  BY DEF PushSnapshot, repoVars, threadVars
<1>2. lock'.sess = p /\ lock'.job = k /\ lock'.kind = "snapshot" /\ lock'.phase = "finish"
  BY <1>1 DEF NoLock
<1>3. lock' # NoLock
  BY <1>2, NoneTypes
<1>4. s \in Snapshots
  BY <1>0, <1>1 DEF CheckpointInv, FreshInv, Building
<1>5. Running(t)
  BY <1>1, OffFacts
<1>6. u.pc = "write" /\ u.held = t.held
  <2> HIDE DEF t
  <2>1. QED
    BY <1>0 DEF Tasks
<1>7. Running(u)
  BY <1>6, OffFacts
<1> HIDE DEF u
<1>8. /\ \A l \in Runs : task'[p][l] = IF l = k THEN u ELSE task[p][l]
      /\ \A q \in Sessions \ {p} : task'[q] = task[q]
  BY <1>0, <1>1 DEF TaskTo
<1>9. OwnerOK'
  BY <1>2, <1>6, <1>8 DEF OwnerOK, Kinds
<1>10. \A l \in Runs : /\ Running(task'[p][l]) <=> Running(task[p][l])
                       /\ task'[p][l].held = task[p][l].held
  BY <1>5, <1>6, <1>7, <1>8
<1>11. SlotOK(p)'
  BY <1>0, <1>1, <1>10 DEF SlotOK, Running, Slot
<1>12. CaptureOK(p)'
  <2>0. clean'[p] => clean[p]
    BY <1>1 DEF Disturbs
  <2>1. SUFFICES ASSUME Counts(p) PROVE CaptureOK(p)'
    BY <1>1, <2>0 DEF CaptureOK, Counts
  <2>2. torn = "no" /\ ran[p] \in Runs /\ \A l \in Runs : Running(task[p][l]) => l = ran[p]
    BY <1>0, <2>1, CountsFacts
  <2>3. k = ran[p] /\ Slot(p) = t /\ Slot(p)' = u
    BY <1>1, <1>5, <1>8, <2>2 DEF Slot
  <2>4. /\ s.tree = captured[p]
        /\ turn[p] = "none" => t.held # "orphan" /\ op[p].pc = "settle"
    BY <1>0, <1>1, <1>5, <2>1, <2>3 DEF CaptureOK, Counts
  <2>5. \A l \in Runs \ {ran[p]} : ~Running(task'[p][l])
    BY <1>10, <2>2
  <2>6. After("undo", refs["undo"], todo')[0] = s
    <3> HIDE DEF s
    <3>1. \A st \in Stacks : refs[st] \in Refs /\ Whole(refs[st], snaps)
      BY <1>0, <1>1, <2>2, FreeStacks
    <3>2. PICK n \in 0 .. MaxStack : Shape(refs["undo"], n)
      BY <3>1, TwoStacks, WholeShape
    <3>3. PICK m \in 0 .. MaxStack : Shape(refs["redo"], m)
      BY <3>1, TwoStacks, WholeShape
    <3>4. After("undo", refs["undo"], todo') = CutAt(Pushed(refs["undo"], s), MaxStack)
      BY <1>0, <1>1, <1>4, <3>2, <3>3, SnapshotIs
    <3>5. 0 \in Indexes /\ 0 < MaxStack
      BY IndexFacts, CheckpointsAssumption
    <3>6. QED
      BY <3>4, <3>5 DEF CutAt, Pushed
  <2>7. Holds(After("undo", refs["undo"], todo)[0], p)'
    BY <1>1, <1>4, <2>4, <2>6, NoneFacts DEF Holds
  <2>8. /\ torn' = "no" /\ (Free' \/ lock'.sess = p)
    BY <1>1, <1>2, <2>2
  <2> HIDE DEF t, s
  <2>9. QED
    BY <1>1, <1>2, <1>6, <1>7, <2>3, <2>4, <2>5, <2>7, <2>8 DEF CaptureOK, Running, Holds
<1>13. QED
  BY <1>1, <1>8, <1>9, <1>11, <1>12, TakesLock

(* The operation in progress goes on: the other sessions do not count *)
LEMMA HolderStep ==
  ASSUME TurnStepInv, ~Free, NEW p \in Sessions, lock.sess = p,
         \A q \in Sessions \ {p} : SessionSame(q), SlotOK(p)', CaptureOK(p)'
  PROVE  \A q \in Sessions : SlotOK(q)' /\ CaptureOK(q)'
<1>1. ASSUME NEW q \in Sessions PROVE SlotOK(q)' /\ CaptureOK(q)'
  <2>1. CASE q = p
    BY <2>1
  <2>2. CASE q # p
    BY <2>2, TurnNow, SameSlot, SameCapture
  <2>3. QED
    BY <2>1, <2>2
<1>2. QED
  BY <1>1

LEMMA WriteRefTurn ==
  ASSUME TurnStepInv, WriteRef
  PROVE  HistoryOK' /\ OwnerOK' /\ \A q \in Sessions : SlotOK(q)' /\ CaptureOK(q)'
<1>0. TypeOK /\ LockInv /\ OwnerOK /\ HistoryOK /\ \A q \in Sessions : SlotOK(q) /\ CaptureOK(q)
  BY TurnNow
<1>1. UNCHANGED <<torn, lock, turn, op, ran, task, captured, clean>> /\ todo # <<>>
  BY DEF WriteRef, threadVars, sessionVars, historyVars
<1>2. ~Free
  BY <1>0, <1>1 DEF LockInv
<1>3. HistoryOK' /\ \A q \in Sessions : SessionSame(q)
  BY <1>0, <1>1 DEF HistoryOK, SessionSame
<1>4. OwnerOK'
  BY <1>0, <1>1, OwnerSame
<1>5. ASSUME NEW q \in Sessions PROVE SlotOK(q)' /\ CaptureOK(q)'
  <2>1. /\ todo \in Seq(Writes) /\ todo # <<>> /\ todo' = Tail(todo) /\ Head(todo) \in Writes
        /\ refs["undo"] \in Refs /\ refs'["undo"] = Written("undo", refs["undo"], Head(todo))
    BY <1>0, TwoStacks, WriteRefIs
  <2>2. After("undo", Written("undo", refs["undo"], Head(todo)), Tail(todo)) = After("undo", refs["undo"], todo)
    BY <2>1, AfterHead
  <2>3. After("undo", refs'["undo"], todo') = After("undo", refs["undo"], todo)
    BY <2>1, <2>2, Zenon
  <2>4. Slot(q)' = Slot(q) /\ ~Free'
    BY <1>1, <1>2 DEF Slot, Free
  <2>5. CaptureOK(q)'
    BY <1>0, <1>1, <1>2, <2>3, <2>4 DEF CaptureOK, Running, Holds
  <2>6. QED
    BY <1>0, <1>3, <2>5, SameSlot
<1>6. QED
  BY <1>3, <1>4, <1>5

LEMMA WriteFailsTurn ==
  ASSUME TurnStepInv, WriteFails
  PROVE  HistoryOK' /\ OwnerOK' /\ \A q \in Sessions : SlotOK(q)' /\ CaptureOK(q)'
<1>0. TypeOK /\ LockInv /\ OwnerOK /\ HistoryOK /\ \A q \in Sessions : SlotOK(q) /\ CaptureOK(q)
  BY TurnNow
<1>1. UNCHANGED <<lock, turn, op, ran, task, captured>> /\ clean' = [q \in Sessions |-> FALSE]
  BY DEF WriteFails, threadVars, sessionVars
<1>2. HistoryOK' /\ \A q \in Sessions : SessionSame(q) /\ ~clean'[q]
  BY <1>0, <1>1 DEF HistoryOK, SessionSame
<1>3. OwnerOK'
  BY <1>0, <1>1, OwnerSame
<1>4. \A q \in Sessions : SlotOK(q)' /\ CaptureOK(q)'
  BY <1>0, <1>2, SameSlot, SameCapture
<1>5. QED
  BY <1>2, <1>3, <1>4

(* The turn's snapshot is on top of the undo stack when its thread ends *)
LEMMA SnapshotDoneTurn ==
  ASSUME TurnStepInv, SnapshotDone
  PROVE  HistoryOK' /\ OwnerOK' /\ \A q \in Sessions : SlotOK(q)' /\ CaptureOK(q)'
<1>0. /\ TypeOK /\ LockInv /\ OwnerOK /\ HistoryOK /\ task \in [Sessions -> [Runs -> Tasks]]
      /\ \A q \in Sessions : SlotOK(q) /\ CaptureOK(q)
  BY TurnNow
<1>1. /\ lock.kind = "snapshot" /\ todo = <<>> /\ lock' = NoLock /\ todo' = <<>>
      /\ task' = [task EXCEPT ![lock.sess][lock.job] = OffTask]
      /\ UNCHANGED <<torn, refs, turn, op, ran, captured, clean>>
  BY DEF SnapshotDone, Unlocks, repoVars, threadVars, historyVars
<1>2. PICK p \in Sessions, k \in Runs :
        ~Free /\ lock.sess = p /\ lock.job = k /\ task[p][k].pc = "write"
  BY <1>0, <1>1, NoneTypes DEF LockInv, Free, OwnerOK
<1>3. /\ \A l \in Runs : task'[p][l] = IF l = k THEN OffTask ELSE task[p][l]
      /\ \A q \in Sessions \ {p} : task'[q] = task[q]
  BY <1>0, <1>1, <1>2
<1>4. HistoryOK' /\ \A q \in Sessions \ {p} : SessionSame(q)
  BY <1>0, <1>1, <1>3 DEF HistoryOK, SessionSame
<1>5. OwnerOK'
  BY <1>1, NoneTypes DEF OwnerOK
<1>6. \A l \in Runs : Running(task'[p][l]) => task'[p][l] = task[p][l]
  BY <1>3, OffFacts
<1>7. SlotOK(p)'
  <2>1. SlotOK(p)
    BY <1>0, <1>2
  <2>2. QED
    BY <1>1, <1>6, <2>1 DEF SlotOK, Running, Slot
<1>8. CaptureOK(p)'
  <2>0. SlotOK(p) /\ CaptureOK(p)
    BY <1>0, <1>2
  <2>1. SUFFICES ASSUME Counts(p) PROVE CaptureOK(p)'
    BY <1>1 DEF CaptureOK, Counts
  <2>2. Running(task[p][k])
    BY <1>2, OffFacts
  <2>3. torn = "no" /\ ran[p] \in Runs /\ \A l \in Runs : Running(task[p][l]) => l = ran[p]
    BY <1>2, <2>0, <2>1, CountsFacts
  <2>4. k = ran[p] /\ Slot(p) = task[p][k] /\ Slot(p)' = OffTask
    BY <1>1, <1>2, <1>3, <2>2, <2>3 DEF Slot
  <2>5. Holds(After("undo", refs["undo"], todo)[0], p)
    BY <1>2, <2>0, <2>1, <2>4 DEF CaptureOK, Counts
  <2>6. Holds(refs["undo"][0], p)
    BY <1>1, <2>5, StoredEmpty
  <2>7. \A l \in Runs \ {ran[p]} : ~Running(task'[p][l])
    BY <1>6, <2>3
  <2>8. lock'.phase # "pop" /\ Free'
    BY <1>1, NoneTypes DEF Free
  <2>9. QED
    BY <1>1, <2>3, <2>4, <2>6, <2>7, <2>8, OffFacts DEF CaptureOK, Running, Holds
<1>9. \A q \in Sessions : SlotOK(q)' /\ CaptureOK(q)'
  BY <1>2, <1>4, <1>7, <1>8, HolderStep
<1>10. QED
  BY <1>4, <1>5, <1>9

LEMMA ApplyTurn ==
  ASSUME TurnStepInv, Apply
  PROVE  HistoryOK' /\ OwnerOK' /\ \A q \in Sessions : SlotOK(q)' /\ CaptureOK(q)'
<1>0. /\ TypeOK /\ LockInv /\ OwnerOK /\ HistoryOK /\ lock \in Locks
      /\ \A q \in Sessions : SlotOK(q) /\ CaptureOK(q)
  BY TurnNow DEF TypeOK
<1>1. /\ lock.phase = "pop" /\ lock' = [lock EXCEPT !.phase = "finish", !.start = <<>>]
      /\ UNCHANGED <<torn, refs, turn, op, ran, task, captured, clean>>
  BY DEF Apply, threadVars, sessionVars
<1>2. lock.kind \in {"undo", "redo", "abort", "rewind"} /\ ~Free
  BY <1>0, <1>1, NoneTypes DEF LockInv, Free
<1>3. /\ lock'.kind = lock.kind /\ lock'.sess = lock.sess /\ lock'.phase = "finish"
  BY <1>0, <1>1 DEF Locks
<1>4. ~Free'
  BY <1>3, NoneTypes DEF Free
<1>5. HistoryOK' /\ \A q \in Sessions : SessionSame(q)
  BY <1>0, <1>1 DEF HistoryOK, SessionSame
<1>6. OwnerOK'
  BY <1>0, <1>1, <1>2, <1>3 DEF OwnerOK
<1>7. ASSUME NEW q \in Sessions PROVE SlotOK(q)' /\ CaptureOK(q)'
  <2>1. Slot(q)' = Slot(q)
    BY <1>1 DEF Slot
  <2>2. CaptureOK(q)'
    BY <1>0, <1>1, <1>2, <1>3, <1>4, <2>1 DEF CaptureOK, Running, Holds
  <2>3. QED
    BY <1>0, <1>5, <2>2, SameSlot
<1>8. QED
  BY <1>5, <1>6, <1>7

LEMMA EndRestoreTurn ==
  ASSUME TurnStepInv, EndRestore
  PROVE  HistoryOK' /\ OwnerOK' /\ \A q \in Sessions : SlotOK(q)' /\ CaptureOK(q)'
<1>0. /\ TypeOK /\ LockInv /\ OwnerOK /\ HistoryOK /\ op \in [Sessions -> Commands]
      /\ \A q \in Sessions : SlotOK(q) /\ CaptureOK(q)
  BY TurnNow
<1>1. /\ lock.kind \in {"undo", "abort", "redo", "rewind"} /\ lock' = NoLock
      /\ Forgets(lock.sess) /\ op' = [op EXCEPT ![lock.sess] = NoOp]
      /\ UNCHANGED <<torn, refs, turn, task, ran>>
  BY DEF EndRestore, Unlocks, OpTo, Forks, repoVars, threadVars
<1>2. PICK p \in Sessions : ~Free /\ lock.sess = p
  BY <1>0, <1>1, NoneTypes DEF LockInv, Free
<1>3. op[p].kind # "none"
  BY <1>0, <1>1, <1>2 DEF OwnerOK, Kinds
<1>4. turn[p] = "none" /\ op'[p] = NoOp /\ \A q \in Sessions \ {p} : op'[q] = op[q]
  BY <1>0, <1>1, <1>2, <1>3 DEF SlotOK
<1>5. /\ captured' \in [Sessions -> Trees] /\ clean' \in [Sessions -> BOOLEAN]
      /\ \A q \in Sessions \ {p} : captured'[q] = captured[q] /\ clean'[q] = clean[q]
  BY <1>0, <1>1, <1>2, ForgetsIs
<1>6. HistoryOK' /\ \A q \in Sessions \ {p} : SessionSame(q)
  BY <1>0, <1>1, <1>4, <1>5 DEF HistoryOK, SessionSame
<1>7. OwnerOK'
  BY <1>1, NoneTypes DEF OwnerOK
<1>8. SlotOK(p)' /\ CaptureOK(p)'
  <2>1. SlotOK(p) /\ turn'[p] = "none" /\ ran'[p] = ran[p] /\ task'[p] = task[p] /\ op'[p].kind # "abort"
    BY <1>0, <1>1, <1>2, <1>4, NoneTypes
  <2>2. QED
    BY <1>2, <2>1, RestSlot, RestCapture
<1>9. \A q \in Sessions : SlotOK(q)' /\ CaptureOK(q)'
  BY <1>2, <1>6, <1>8, HolderStep
<1>10. QED
  BY <1>6, <1>7, <1>9

(* An abort that counts pops the snapshot of its turn *)
LEMMA BeginRestoreTurn ==
  ASSUME TurnStepInv, NEW p \in Sessions, BeginRestore(p)
  PROVE  HistoryOK' /\ OwnerOK' /\ \A q \in Sessions : SlotOK(q)' /\ CaptureOK(q)'
<1>1. CASE GivesUp(p)
  <2>1. op[p].pc = "want"
    BY DEF BeginRestore
  <2>2. QED
    BY <1>1, <2>1, GivesUpTurn
<1>2. CASE ~GivesUp(p)
  <2> DEFINE o == op[p]
             top == refs[Pops(o.kind)][0]
             u == [o EXCEPT !.pc = "run"]
  <2>0. /\ TypeOK /\ HistoryOK /\ op \in [Sessions -> Commands] /\ o \in Commands
        /\ SlotOK(p) /\ CaptureOK(p)
    BY TurnNow
  <2>1. /\ o.pc = "want" /\ Free /\ op' = [op EXCEPT ![p] = u] /\ Disturbs(p)
        /\ \E s : lock' = [NoLock EXCEPT !.sess = p, !.kind = o.kind, !.phase = "pop", !.pre = s,
                                         !.target = top, !.start = refs]
        /\ UNCHANGED <<torn, refs, turn, task, ran, captured>>
    BY <1>2 DEF BeginRestore, OpTo, repoVars, threadVars
  <2>2. /\ lock'.sess = p /\ lock'.kind = o.kind /\ lock'.phase = "pop" /\ lock'.target = top
    BY <2>1 DEF NoLock
  <2>3. u.kind = o.kind /\ u.pc = "run"
    <3> HIDE DEF o
    <3>1. QED
      BY <2>0 DEF Commands
  <2> HIDE DEF u
  <2>4. op'[p] = u /\ \A q \in Sessions \ {p} : op'[q] = op[q]
    BY <2>0, <2>1
  <2>5. turn[p] = "none" /\ o.kind # "none"
    BY <2>1, CommandRests
  <2>6. OwnerOK'
    <3>1. o.kind # "snapshot"
      BY <2>0 DEF Commands, Kinds
    <3>2. QED
      BY <2>2, <2>3, <2>4, <3>1 DEF OwnerOK
  <2>7. SlotOK(p)'
    <3>1. op'[p].kind = "abort" => ran[p] \in Runs
      BY <2>0, <2>3, <2>4 DEF SlotOK
    <3>2. QED
      BY <2>0, <2>1, <2>5, <3>1, RestSlot
  <2>8. CaptureOK(p)'
    <3>0. clean'[p] => clean[p]
      BY <2>1 DEF Disturbs
    <3>1. SUFFICES ASSUME Counts(p), o.kind = "abort" PROVE CaptureOK(p)'
      BY <2>1, <2>3, <2>4, <2>5, <3>0 DEF CaptureOK, Counts
    <3>2. /\ torn = "no" /\ ran[p] \in Runs
          /\ \A l \in Runs : Running(task[p][l]) => l = ran[p]
      BY <2>0, <3>1, CountsFacts
    <3>3. ~Running(Slot(p))
      BY <2>0, <2>1, <2>5, <3>1 DEF CaptureOK, Counts
    <3>4. lock.phase # "pop"
      BY <2>1, NoneTypes DEF Free
    <3>5. Holds(refs["undo"][0], p)
      BY <2>0, <2>1, <2>5, <3>1, <3>3, <3>4 DEF CaptureOK, Counts
    <3>6. top.tree = captured[p]
      BY <3>1, <3>5 DEF Pops, Holds
    <3>7. Slot(p)' = OffTask /\ \A l \in Runs \ {ran[p]} : ~Running(task'[p][l])
      BY <2>1, <3>2, <3>3, OffFacts DEF Slot
    <3> HIDE DEF top
    <3>8. QED
      BY <2>1, <2>2, <2>5, <3>2, <3>6, <3>7, OffFacts DEF CaptureOK, Running
  <2>9. HistoryOK' /\ \A q \in Sessions : SlotOK(q)' /\ CaptureOK(q)'
    BY <2>1, <2>4, <2>7, <2>8, TakesLock
  <2>10. QED
    BY <2>6, <2>9
<1>3. QED
  BY <1>1, <1>2

LEMMA BeginRewindTurn ==
  ASSUME TurnStepInv, NEW p \in Sessions, BeginRewind(p)
  PROVE  HistoryOK' /\ OwnerOK' /\ \A q \in Sessions : SlotOK(q)' /\ CaptureOK(q)'
<1> DEFINE o == op[p]
           u == [o EXCEPT !.pc = "run"]
<1>0. /\ op \in [Sessions -> Commands] /\ o \in Commands /\ SlotOK(p)
  BY TurnNow
<1>1. /\ o.pc = "want" /\ o.kind = "rewind" /\ op' = [op EXCEPT ![p] = u] /\ Disturbs(p)
      /\ lock'.sess = p /\ lock'.kind = "rewind"
      /\ UNCHANGED <<turn, task, ran, captured>>
  BY DEF BeginRewind, OpTo, threadVars, NoLock
<1>2. u.kind = "rewind" /\ u.pc = "run"
  <2> HIDE DEF o
  <2>1. QED
    BY <1>0, <1>1 DEF Commands
<1> HIDE DEF u
<1>3. op'[p] = u /\ \A q \in Sessions \ {p} : op'[q] = op[q]
  BY <1>0, <1>1
<1>4. turn[p] = "none"
  BY <1>1, CommandRests
<1>5. OwnerOK'
  BY <1>1, <1>2, <1>3 DEF OwnerOK
<1>6. SlotOK(p)' /\ CaptureOK(p)'
  <2>1. op'[p].kind # "abort"
    BY <1>2, <1>3
  <2>2. QED
    BY <1>0, <1>1, <1>4, <2>1, RestSlot, RestCapture
<1>7. QED
  BY <1>1, <1>3, <1>5, <1>6, TakesLock

LEMMA CrashTurn ==
  ASSUME TurnStepInv, NEW p \in Sessions, Crash(p)
  PROVE  HistoryOK' /\ OwnerOK' /\ \A q \in Sessions : SlotOK(q)' /\ CaptureOK(q)'
<1>0. /\ TypeOK /\ LockInv /\ OwnerOK /\ HistoryOK /\ \A q \in Sessions : SlotOK(q) /\ CaptureOK(q)
      /\ turn \in [Sessions -> Turns] /\ task \in [Sessions -> [Runs -> Tasks]]
      /\ op \in [Sessions -> Commands]
  BY TurnNow
<1>1. /\ turn' = [turn EXCEPT ![p] = "none"] /\ task' = [task EXCEPT ![p] = [k \in Runs |-> OffTask]]
      /\ op' = [op EXCEPT ![p] = NoOp] /\ clean' = [q \in Sessions |-> FALSE]
      /\ (lock.sess = p /\ lock' = NoLock) \/ (lock.sess # p /\ lock' = lock)
      /\ UNCHANGED <<ran, captured>>
  BY DEF Crash, OpTo, Unlocks, lockVars
<1>2. HistoryOK'
  BY <1>0, <1>1 DEF HistoryOK
<1>3. \A q \in Sessions : ~clean'[q]
  BY <1>1
<1>4. /\ turn'[p] = "none" /\ op'[p] = NoOp /\ \A k \in Runs : task'[p][k] = OffTask
      /\ \A q \in Sessions \ {p} : turn'[q] = turn[q] /\ op'[q] = op[q] /\ task'[q] = task[q]
  BY <1>0, <1>1
<1>5. ASSUME NEW q \in Sessions PROVE SlotOK(q)'
  <2>1. CASE q = p
    <3>1. op'[p].kind # "abort" /\ \A k \in Runs : ~Running(task'[p][k])
      BY <1>4, NoneTypes, OffFacts
    <3>2. QED
      BY <1>0, <1>1, <1>4, <2>1, <3>1, RestSlot
  <2>2. CASE q # p
    <3>1. SessionSame(q)
      BY <1>1, <1>3, <1>4, <2>2 DEF SessionSame
    <3>2. QED
      BY <1>0, <3>1, SameSlot
  <2>3. QED
    BY <2>1, <2>2
<1>6. \A q \in Sessions : CaptureOK(q)'
  BY <1>3 DEF CaptureOK
<1>7. OwnerOK'
  <2>1. CASE lock' = NoLock
    BY <2>1, NoneTypes DEF OwnerOK
  <2>2. CASE lock' = lock /\ lock.sess # p /\ ~Free
    <3>1. lock.sess \in Sessions \ {p}
      BY <1>0, <2>2 DEF LockInv
    <3>2. QED
      BY <1>0, <1>4, <2>2, <3>1 DEF OwnerOK
  <2>3. QED
    BY <1>1, <2>1, <2>2 DEF Free
<1>8. QED
  BY <1>2, <1>5, <1>6, <1>7

LEMMA InitTurn == Init => TurnStepInv
<1> SUFFICES ASSUME Init PROVE TurnStepInv
  OBVIOUS
<1>1. CheckpointInv
  BY InitCheckpoint
<1>2. KeepInv
  <2>1. todo = <<>> /\ Len(<<>>) = 0
    BY DEF Init
  <2>2. ASSUME NEW st \in Stacks PROVE KeepsAll(lock, st, refs[st], todo)
    BY <2>1 DEF KeepsAll
  <2>3. QED
    BY <2>2 DEF KeepInv
<1>3. HistoryOK
  <2>1. 0 \in Trees
    BY CheckpointsAssumption DEF Trees
  <2>2. QED
    BY <2>1 DEF Init, HistoryOK
<1>4. OwnerOK
  BY NoneTypes DEF Init, OwnerOK
<1>5. ASSUME NEW p \in Sessions PROVE SlotOK(p) /\ CaptureOK(p)
  <2>1. turn[p] = "none" /\ op[p].kind = "none" /\ \A k \in Runs : ~Running(task[p][k])
    BY NoneTypes, OffFacts DEF Init
  <2>2. QED
    BY <2>1 DEF SlotOK, CaptureOK
<1>6. QED
  BY <1>1, <1>2, <1>3, <1>4, <1>5 DEF TurnStepInv

LEMMA NextTurn == TurnStepInv /\ [Next]_vars => TurnStepInv'
<1> SUFFICES ASSUME TurnStepInv, [Next]_vars PROVE TurnStepInv'
  OBVIOUS
<1> DEFINE Good == HistoryOK /\ OwnerOK /\ \A q \in Sessions : SlotOK(q) /\ CaptureOK(q)
<1>0. CheckpointInv' /\ KeepInv'
  BY NextCheckpoint, NextKeeps DEF TurnStepInv
<1> SUFFICES Good'
  BY <1>0 DEF TurnStepInv
<1>1. CASE UNCHANGED vars
  BY <1>1, StillTurn DEF vars, repoVars, lockVars, threadVars, sessionVars, historyVars
<1>2. CASE UserEdit \/ WriteRef \/ WriteFails \/ SnapshotDone \/ Apply \/ EndRestore
  <2>1. CASE UserEdit
    BY <2>1, StillTurn DEF UserEdit, lockVars, threadVars, sessionVars
  <2>2. QED
    BY <1>2, <2>1, WriteRefTurn, WriteFailsTurn, SnapshotDoneTurn, ApplyTurn, EndRestoreTurn
<1>3. ASSUME NEW p \in Sessions,
             \/ StartTurn(p) \/ StartSnapshot(p) \/ Mutate(p) \/ FinishTurn(p)
             \/ Await(p, "gate") \/ Await(p, "end") \/ Cancel(p) \/ Abort(p)
             \/ Command(p, "undo") \/ Command(p, "redo")
             \/ Settle(p) \/ Preview(p) \/ Confirm(p) \/ Decline(p)
             \/ BeginRestore(p) \/ BeginRewind(p) \/ Crash(p)
      PROVE  Good'
  <2>1. CASE StartTurn(p) \/ StartSnapshot(p) \/ Mutate(p) \/ FinishTurn(p) \/ Cancel(p) \/ Abort(p)
    BY <2>1, StartTurnTurn, StartSnapshotTurn, MutateTurn, FinishTurnTurn, CancelTurn, AbortTurn
  <2>2. CASE Await(p, "gate") \/ Await(p, "end") \/ Command(p, "undo") \/ Command(p, "redo")
    BY <2>2, AwaitTurn, CommandTurn
  <2>3. CASE Settle(p) \/ Preview(p) \/ Confirm(p) \/ Decline(p)
    BY <2>3, SettleTurn, PreviewTurn
  <2>4. CASE BeginRestore(p) \/ BeginRewind(p) \/ Crash(p)
    BY <2>4, BeginRestoreTurn, BeginRewindTurn, CrashTurn
  <2>5. QED
    BY <1>3, <2>1, <2>2, <2>3, <2>4
<1>4. ASSUME NEW p \in Sessions, NEW k \in Runs,
             BuildSnapshot(p, k) \/ CompareSnapshot(p, k) \/ PushSnapshot(p, k)
      PROVE  Good'
  BY <1>4, BuildSnapshotTurn, CompareSnapshotTurn, PushSnapshotTurn
<1>5. ASSUME NEW p \in Sessions, NEW k \in 0 .. (MaxTurns - 1), StartRewind(p, k)
      PROVE  Good'
  BY <1>5, StartRewindTurn
<1>6. QED
  BY <1>1, <1>2, <1>3, <1>4, <1>5 DEF Next

(* TurnStepInv holds in every reachable state: where the snapshot of a turn is, *)
(* from its capture (SessionDriver.run_turn) to the abort that pops it.         *)
THEOREM TurnStepInvariant == Spec => []TurnStepInv
<1>1. Init => TurnStepInv
  BY InitTurn
<1>2. TurnStepInv /\ [Next]_vars => TurnStepInv'
  BY NextTurn
<1>3. QED
  BY <1>1, <1>2, PTL DEF Spec

(* No single ref write of _stack_push and _stack_pop, after which the process *)
(* may die, takes an entry out of every ref, but for the one that moves.      *)
THEOREM EntriesAreKept == Spec => StepKeepsEntries
<1>1. TurnStepInv /\ [Next]_vars =>
        [ \A st \in Stacks, i \in Indexes :
            \/ refs[st][i] = None
            \/ \E j \in Indexes : refs'[st][j] = refs[st][i]
            \/ refs[st][i] = lock.target /\ lock.phase = "pop"
            \/ i >= MaxStack
            \/ torn = "ref"
            \/ st = "redo" /\ lock.kind \in {"snapshot", "rewind"} ]_vars
  BY StepKeeps DEF TurnStepInv
<1>2. QED
  BY <1>1, TurnStepInvariant, PTL DEF Spec, StepKeepsEntries

(* /abort after a turn that had the stacks for itself, and was not waiting for *)
(* its snapshot, restores the tree the turn began with (abort_rollback).       *)
THEOREM AbortRestores == Spec => []CleanAbortRestores
<1>1. TurnStepInv => CleanAbortRestores
  <2>1. SUFFICES ASSUME TurnStepInv, lock.kind = "abort", lock.phase = "pop", clean[lock.sess]
                 PROVE  lock.target.tree = captured[lock.sess]
    BY DEF CleanAbortRestores
  <2>2. PICK p \in Sessions : lock.sess = p /\ ~Free
    BY <2>1, TurnNow, NoneTypes DEF LockInv, Free
  <2>3. op[p].kind = "abort" /\ op[p].pc = "run"
    BY <2>1, <2>2, TurnNow DEF OwnerOK, Kinds
  <2>4. SlotOK(p) /\ CaptureOK(p) /\ Counts(p) /\ turn[p] = "none"
    BY <2>1, <2>2, <2>3, TurnNow DEF SlotOK, Counts
  <2>5. ~Running(Slot(p))
    BY <2>1, <2>4, NoRestore
  <2>6. QED
    BY <2>1, <2>2, <2>4, <2>5 DEF CaptureOK, Counts
<1>2. QED
  BY <1>1, TurnStepInvariant, PTL

=============================================================================
