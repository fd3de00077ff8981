--------------------------- MODULE SchedulerProofs ---------------------------
(***************************************************************************)
(* Proofs about the scheduled jobs: the type invariant, the rows' next     *)
(* runs and the two promises of the tick, that no due job is passed over   *)
(* and that a job catches up once, for every number of chats, roots and    *)
(* jobs, every calendar and every set of cron expressions.                 *)
(***************************************************************************)
EXTENDS Scheduler, FiniteSetTheorems, WellFoundedInduction, NaturalsInduction, TLAPS

-----------------------------------------------------------------------------
(* The calendar *)

(* A set of naturals that is not empty has its minimum. *)
LEMMA MinOfSet ==
  ASSUME NEW S \in SUBSET Nat, S # {}
  PROVE  Min(S) \in S
<1> DEFINE R == OpToRel(<, Nat)
<1>1. IsWellFoundedOn(R, Nat)
  BY NatLessThanWellFounded
<1>2. \A x, y \in Nat : x < y => <<x, y>> \in R
  BY DEF OpToRel
<1> HIDE DEF R
<1>3. PICK m \in S : \A n \in S : ~(<<n, m>> \in R)
  BY <1>1, WFMin
<1>4. \A n \in S : n \in Nat /\ m \in Nat /\ ~(n < m)
  BY <1>2, <1>3
<1>5. \A n \in S : m =< n
  BY <1>4
<1>6. QED
  BY <1>5 DEF Min

(* The start of a minute is that minute and has no seconds. *)
LEMMA MinuteStart ==
  ASSUME NEW n \in Nat, NEW s \in Nat \ {0}
  PROVE  (n * s) \div s = n /\ (n * s) % s = 0 /\ n * s \in Nat
OBVIOUS

(* The minute after a time begins after it. *)
LEMMA NextMinute ==
  ASSUME NEW t \in Nat, NEW s \in Nat \ {0}, NEW k \in Nat
  PROVE  t < (1 + (t \div s) + k) * s /\ 1 + (t \div s) + k \in Nat
<1>1. t < (1 + (t \div s)) * s /\ t \div s \in Nat
  OBVIOUS
<1>2. (1 + (t \div s) + k) * s = (1 + (t \div s)) * s + k * s /\ k * s \in Nat
  BY <1>1
<1>3. QED
  BY <1>1, <1>2

(* next_cron_after returns a slot of the expression after the given time. *)
LEMMA NextCronIsSlot ==
  ASSUME NEW cron \in Crons, NEW after \in Nat, NextCron(cron, after) # None
  PROVE  /\ NextCron(cron, after) \in Nat
         /\ after < NextCron(cron, after)
         /\ NextCron(cron, after) % SecondsPerMinute = 0
         /\ Matches(cron, NextCron(cron, after) \div SecondsPerMinute)
<1> DEFINE hits == {k \in 0 .. SearchLimit - 1 : Matches(cron, FirstMinute(after) + k)}
           n == FirstMinute(after) + Min(hits)
           S == SecondsPerMinute
<1>1. hits # {} /\ NextCron(cron, after) = n * S
  BY DEF NextCron
<1>2. hits \in SUBSET Nat
  BY CalendarAssumption
<1>3. Min(hits) \in hits
  BY <1>1, <1>2, MinOfSet
<1>4. S \in Nat \ {0}
  BY CalendarAssumption
<1>5. Matches(cron, n) /\ Min(hits) \in Nat
  BY <1>2, <1>3
<1>6. n = 1 + (after \div S) + Min(hits)
  BY DEF FirstMinute
<1>7. after < n * S /\ n \in Nat
  <2> HIDE DEF n, hits, S
  <2> QED
    BY <1>4, <1>5, <1>6, NextMinute
<1>8. (n * S) \div S = n /\ (n * S) % S = 0 /\ n * S \in Nat
  <2> HIDE DEF n, S
  <2> QED
    BY <1>4, <1>7, MinuteStart
<1>9. QED
  <2> HIDE DEF n, hits
  <2> QED
    BY <1>1, <1>5, <1>7, <1>8

(* compute_next_run returns a slot of the plan after the given time. *)
LEMMA NextRunIsSlot ==
  ASSUME NEW plan \in Plan, Runnable(plan), NEW after \in Nat, NextRun(plan, after) # None
  PROVE  /\ NextRun(plan, after) \in Nat
         /\ after < NextRun(plan, after)
         /\ OnSlot(plan, NextRun(plan, after))
<1>1. CASE plan.cron # None
  <2>1. NextRun(plan, after) = NextCron(plan.cron, after) /\ plan.cron \in Crons
    BY <1>1 DEF NextRun, Plan
  <2>2. QED
    BY <1>1, <2>1, NextCronIsSlot DEF OnSlot
<1>2. CASE plan.cron = None
  BY <1>2 DEF NextRun, Plan, Runnable, OnSlot
<1>3. QED
  BY <1>1, <1>2

(* The hint, from the root's own entry or the only one, is a chat. *)
LEMMA HintIsChat ==
  ASSUME delivery \in [Roots -> Chats \cup {None}], NEW r \in Roots
  PROVE  Hint(r) \in Chats \cup {None}
<1>1. CASE Cardinality(Hinted) = 1
  <2>1. Hinted # {}
    BY <1>1, FS_EmptySet
  <2>2. (CHOOSE q \in Hinted : TRUE) \in Roots
    BY <2>1 DEF Hinted
  <2>3. QED
    BY <2>2 DEF Hint
<1>2. CASE Cardinality(Hinted) # 1
  BY <1>2 DEF Hint
<1>3. QED
  BY <1>1, <1>2
-----------------------------------------------------------------------------
(* The type invariant *)
(* Ids stay minted, so what was proposed stays proposable. *)
LEMMA MintedGrows ==
  ASSUME minted \subseteq minted', NEW x
  PROVE  /\ TurnTyped(x) => TurnTyped(x)'
         /\ ParkedTyped(x) => ParkedTyped(x)'
         /\ CallTyped(x) => CallTyped(x)'
BY DEF TurnTyped, ParkedTyped, CallTyped, Proposable

LEMMA NoneTyped ==
  /\ TurnTyped(None) /\ ParkedTyped(None) /\ CallTyped(None)
  /\ TurnTyped(None)' /\ ParkedTyped(None)' /\ CallTyped(None)'
BY DEF TurnTyped, ParkedTyped, CallTyped

(* A dispatched turn has no call of its own yet. *)
LEMMA FreshTurn ==
  ASSUME NEW c \in Chats
  PROVE  /\ TurnTyped([chat |-> c, asks |-> None, resumed |-> FALSE])
         /\ TurnTyped([chat |-> c, asks |-> None, resumed |-> FALSE])'
BY DEF TurnTyped, Turn

(* A turn whose call has been answered *)
LEMMA AnsweredTurn ==
  ASSUME NEW t, t # None, TurnTyped(t)
  PROVE  /\ [t EXCEPT !.asks = None] \in Turn
         /\ [t EXCEPT !.asks = None].chat = t.chat
         /\ [t EXCEPT !.asks = None].asks = None
         /\ [t EXCEPT !.asks = None].resumed = t.resumed
         /\ TurnTyped([t EXCEPT !.asks = None])'
BY DEF TurnTyped, Turn

(* A call that is parked, and the turn its verdict resumes *)
LEMMA ParkedCall ==
  ASSUME NEW c \in Chats, NEW p, Proposable(p), UNCHANGED minted
  PROVE  /\ ParkedTyped([chat |-> c, what |-> p])'
         /\ TurnTyped([chat |-> c, asks |-> p, resumed |-> TRUE])'
BY DEF ParkedTyped, TurnTyped, Turn, Proposable

(* Init satisfies every part. *)
LEMMA InitTyped == Init => TypeOK
BY CalendarAssumption, NoneTyped
   DEF Init, TypeOK, StoreTyped, RouterTyped, CallsTyped

(* submit_turn, from a message, a tick or the queue *)
LEMMA DispatchTyped ==
  ASSUME CallsTyped, RouterTyped, NEW r \in Roots, NEW c \in Chats, Dispatch(r, c), ~Busy(r),
         UNCHANGED <<parked, call, minted>>
  PROVE  CallsTyped' /\ delivery' \in [Roots -> Chats \cup {None}]
<1>1. delivery' \in [Roots -> Chats \cup {None}]
  BY DEF Dispatch, RouterTyped
<1>2. /\ DOMAIN turn' = Roots
      /\ turn'[r] = [chat |-> c, asks |-> None, resumed |-> FALSE]
      /\ \A q \in Roots : q # r => turn'[q] = turn[q]
      /\ call[r] = None
  BY DEF Dispatch, CallsTyped, Busy
<1>3. QED
  BY <1>1, <1>2, FreshTurn, MintedGrows DEF CallsTyped

LEMMA SubmitTyped ==
  ASSUME CallsTyped, RouterTyped, NEW r \in Roots, NEW c \in Chats, Submit(r, c),
         UNCHANGED <<reader, parked, call, minted>>
  PROVE  CallsTyped' /\ RouterTyped'
<1>1. CASE Busy(r)
  <2>1. CallsTyped'
    BY <1>1, MintedGrows DEF Submit, CallsTyped
  <2>2. queue' \in [Roots -> Seq(Chats)]
    BY <1>1 DEF Submit, RouterTyped
  <2> QED
    BY <1>1, <2>1, <2>2 DEF Submit, RouterTyped
<1>2. CASE ~Busy(r)
  BY <1>2, DispatchTyped DEF Submit, RouterTyped
<1>3. QED
  BY <1>1, <1>2

(* The end of a turn, and a call that is parked *)
LEMMA ReleaseTyped ==
  ASSUME RouterTyped, CallsTyped, NEW r \in Roots, Release(r)
  PROVE  /\ DOMAIN turn' = Roots /\ turn'[r] = None
         /\ \A q \in Roots : q # r => turn'[q] = turn[q]
         /\ reader' \in [Roots -> {"idle", "clear", "drain"}]
BY DEF RouterTyped, CallsTyped, Release

LEMMA AskTyped ==
  ASSUME TypeOK, NEW r \in Roots, NEW p \in Proposals, Ask(r, p)
  PROVE  CallsTyped' /\ RouterTyped'
<1>1. Proposable(p)
  BY CalendarAssumption
     DEF TypeOK, StoreTyped, Proposals, Proposable, Proposal, Plan, Plans, NoPlan, Runnable
<1>2. turn[r].chat \in Chats
  BY DEF TypeOK, CallsTyped, TurnTyped, Turn, Ask, Busy
<1>3. PICK c \in Chats : c = turn[r].chat
  BY <1>2
<1>4. call[r] = None
  BY DEF TypeOK, CallsTyped, Ask, Busy
<1>5. /\ DOMAIN turn' = Roots /\ turn'[r] = None
      /\ \A q \in Roots : q # r => turn'[q] = turn[q]
      /\ reader' \in [Roots -> {"idle", "clear", "drain"}]
  BY ReleaseTyped DEF TypeOK, Ask
<1>6. DOMAIN parked' = Roots /\ parked'[r] = [chat |-> c, what |-> p]
      /\ \A q \in Roots : q # r => parked'[q] = parked[q]
  BY <1>3 DEF TypeOK, CallsTyped, Ask
<1>7. UNCHANGED <<minted, call, delivery, queue>>
  BY DEF Ask
<1>8. CallsTyped'
  BY <1>1, ParkedCall, <1>4, <1>5, <1>6, <1>7, NoneTyped, MintedGrows DEF TypeOK, CallsTyped
<1>9. QED
  BY <1>5, <1>7, <1>8 DEF TypeOK, RouterTyped

LEMMA ApproveTyped ==
  ASSUME TypeOK, NEW r \in Roots, Approve(r)
  PROVE  CallsTyped'
<1>1. PICK c \in Chats, p \in Proposal : c = parked[r].chat /\ p = parked[r].what /\ Proposable(p)
  BY DEF TypeOK, CallsTyped, ParkedTyped, Approve
<1>2. /\ DOMAIN turn' = Roots /\ DOMAIN parked' = Roots
      /\ turn'[r] = [chat |-> c, asks |-> p, resumed |-> TRUE]
      /\ parked'[r] = None /\ call[r] = None
      /\ \A q \in Roots : q # r => turn'[q] = turn[q] /\ parked'[q] = parked[q]
      /\ UNCHANGED <<minted, call>>
  BY <1>1 DEF TypeOK, CallsTyped, Approve, Busy
<1>3. QED
  BY <1>1, <1>2, NoneTyped, ParkedCall, MintedGrows DEF TypeOK, CallsTyped

LEMMA FinishTyped ==
  ASSUME TypeOK, NEW r \in Roots, Finish(r)
  PROVE  CallsTyped' /\ RouterTyped'
<1>1. /\ DOMAIN turn' = Roots /\ turn'[r] = None /\ call[r] = None
      /\ \A q \in Roots : q # r => turn'[q] = turn[q]
      /\ reader' \in [Roots -> {"idle", "clear", "drain"}]
      /\ UNCHANGED <<minted, parked, call, delivery, queue>>
  BY ReleaseTyped DEF TypeOK, Finish
<1>2. CallsTyped'
  BY <1>1, NoneTyped, MintedGrows DEF TypeOK, CallsTyped
<1>3. QED
  BY <1>1, <1>2 DEF TypeOK, RouterTyped

LEMMA ClearAndDrainTyped ==
  ASSUME TypeOK, NEW r \in Roots, ClearAndDrain(r)
  PROVE  CallsTyped' /\ RouterTyped'
<1>1. reader' \in [Roots -> {"idle", "clear", "drain"}]
  BY DEF TypeOK, RouterTyped, ClearAndDrain
<1>2. CASE Busy(r) \/ queue[r] = <<>>
  <2>1. delivery' \in [Roots -> Chats \cup {None}] /\ UNCHANGED <<turn, queue, parked, call, minted>>
    BY <1>2 DEF TypeOK, RouterTyped, ClearAndDrain
  <2> QED
    BY <1>1, <2>1, MintedGrows DEF TypeOK, RouterTyped, CallsTyped
<1>3. CASE ~(Busy(r) \/ queue[r] = <<>>)
  <2> DEFINE s == queue[r]
  <2>0. s \in Seq(Chats) /\ s # <<>>
    BY <1>3 DEF TypeOK, RouterTyped
  <2>1. Head(queue[r]) \in Chats /\ queue' \in [Roots -> Seq(Chats)]
    <3>1. Head(s) \in Chats /\ Tail(s) \in Seq(Chats)
      <4> HIDE DEF s
      <4> QED
        BY <2>0
    <3>2. queue' = [queue EXCEPT ![r] = Tail(s)]
      BY <1>3 DEF ClearAndDrain
    <3> HIDE DEF s
    <3>3. QED
      BY <3>1, <3>2 DEF TypeOK, RouterTyped, s
  <2>2. CallsTyped' /\ delivery' \in [Roots -> Chats \cup {None}]
    BY <1>3, <2>1, DispatchTyped DEF TypeOK, ClearAndDrain
  <2> QED
    BY <1>1, <2>1, <2>2 DEF RouterTyped
<1>4. QED
  BY <1>2, <1>3
-----------------------------------------------------------------------------
(* The tool call *)

(* Whatever a call carries, add writes a row with a chat and a next run. *)
LEMMA BeginCreateKeeps ==
  ASSUME TypeOK, NEW r \in Roots, BeginCreate(r)
  PROVE  /\ CallsTyped' /\ minted \subseteq minted' /\ minted' \subseteq JobIds
         /\ turn' = turn \/ (turn' = Answered(r) /\ turn[r] # None)
         /\ \A q \in Roots : call'[q] # call[q] =>
              /\ q = r /\ call'[r].row.last = None
              /\ NextIsAhead(call'[r].row)
<1> DEFINE plan == turn[r].asks.plan
           next == NextRun(plan, clock)
<1>1. /\ turn[r] # None /\ turn[r] \in Turn /\ turn[r].resumed
      /\ plan \in Plan /\ Runnable(plan)
  BY DEF TypeOK, CallsTyped, TurnTyped, Turn, Proposable, Proposal, BeginCreate, Busy
<1>2. CASE Refused(r, next)
  <2>1. turn' = Answered(r) /\ UNCHANGED <<call, minted, parked>>
    BY <1>2 DEF BeginCreate
  <2>2. DOMAIN turn' = Roots /\ turn'[r] = [turn[r] EXCEPT !.asks = None]
        /\ \A q \in Roots : q # r => turn'[q] = turn[q]
    BY <2>1 DEF Answered, TypeOK, CallsTyped
  <2>3. TurnTyped(turn[r])
    BY DEF TypeOK, CallsTyped
  <2>4. PICK t : t = turn[r]
    OBVIOUS
  <2>5. TurnTyped([t EXCEPT !.asks = None])' /\ call[r] = None
    BY <1>1, <2>3, <2>4, AnsweredTurn DEF BeginCreate
  <2>6. CallsTyped'
    BY <2>1, <2>2, <2>4, <2>5, MintedGrows DEF TypeOK, CallsTyped
  <2>7. QED
    BY <1>1, <2>1, <2>6 DEF TypeOK, StoreTyped
<1>3. CASE ~Refused(r, next)
  <2>1. Hint(r) \in Chats
    BY <1>3, HintIsChat DEF Refused, TypeOK, RouterTyped
  <2>2. next \in Nat /\ clock < next /\ OnSlot(plan, next)
    BY <1>1, <1>3, NextRunIsSlot DEF Refused, TypeOK
  <2> DEFINE new == [plan |-> plan, chat |-> Hint(r), enabled |-> TRUE,
                     last |-> None, next |-> next, home |-> turn[r].chat]
  <2>3. PICK j \in JobIds \ minted :
          /\ minted' = minted \cup {j}
          /\ call' = [call EXCEPT ![r] =
               [op |-> "create", id |-> j, stamp |-> clock, row |-> new]]
          /\ UNCHANGED <<turn, parked>>
    BY <1>3 DEF BeginCreate
  <2>4. new \in Row /\ new.plan = plan /\ new.next = next /\ new.last = None
    BY <1>1, <2>1, <2>2 DEF Row, Turn
  <2>5. PICK row : row = new
    OBVIOUS
  <2> HIDE DEF new
  <2>6. NextIsAhead(row)
    BY <2>2, <2>4, <2>5 DEF NextIsAhead
  <2> HIDE DEF plan, next
  <2>7. PICK n \in Nat : n = clock
    BY DEF TypeOK
  <2>8. /\ DOMAIN call' = Roots
        /\ call'[r] = [op |-> "create", id |-> j, stamp |-> n, row |-> row]
        /\ \A q \in Roots : q # r => call'[q] = call[q]
    BY <2>3, <2>5, <2>7 DEF TypeOK, CallsTyped
  <2>9. CallTyped([op |-> "create", id |-> j, stamp |-> n, row |-> row])'
    BY <1>1, <2>3, <2>4, <2>5 DEF CallTyped
  <2>10. CallsTyped'
    BY <1>1, <2>3, <2>8, <2>9, MintedGrows DEF TypeOK, CallsTyped
  <2>11. call'[r].row = row /\ row.last = None
    BY <2>4, <2>5, <2>8
  <2>12. minted \subseteq minted' /\ minted' \subseteq JobIds
    BY <2>3 DEF TypeOK, StoreTyped
  <2>13. ASSUME NEW q \in Roots, call'[q] # call[q]
         PROVE  q = r /\ call'[r].row.last = None /\ NextIsAhead(call'[r].row)
    BY <2>6, <2>8, <2>11, <2>13
  <2>14. QED
    BY <2>3, <2>10, <2>12, <2>13
<1>4. QED
  BY <1>2, <1>3

LEMMA BeginChangeKeeps ==
  ASSUME TypeOK, NEW r \in Roots, BeginChange(r)
  PROVE  /\ CallsTyped' /\ UNCHANGED minted
         /\ \A q \in Roots : call'[q] # call[q] => call'[q].op # "create"
<1>1. PICK o \in {"remove", "enable", "disable"}, j \in minted, n \in Nat :
        o = turn[r].asks.op /\ j = turn[r].asks.id /\ n = clock
  BY DEF TypeOK, CallsTyped, TurnTyped, Proposable, Proposal, BeginChange, Busy
<1>2. /\ DOMAIN call' = Roots
      /\ call'[r] = [op |-> o, id |-> j, stamp |-> n, row |-> None]
      /\ \A q \in Roots : q # r => call'[q] = call[q]
      /\ UNCHANGED <<minted, turn, parked>>
  BY <1>1 DEF TypeOK, CallsTyped, BeginChange, router
<1>3. CallTyped([op |-> o, id |-> j, stamp |-> n, row |-> None])'
  BY <1>1, <1>2 DEF CallTyped
<1>4. turn[r] # None /\ turn[r].resumed
  BY DEF TypeOK, CallsTyped, TurnTyped, BeginChange, Busy
<1>5. CallsTyped'
  BY <1>2, <1>3, <1>4, MintedGrows DEF TypeOK, CallsTyped
<1>6. QED
  BY <1>1, <1>2, <1>5

(* enable, with the clock read before the lock *)
LEMMA EnabledRow ==
  ASSUME NEW row \in Row, Runnable(row.plan), NEW stamp \in Nat
  PROVE  /\ Enabled(row, stamp) \in Row /\ Enabled(row, stamp).plan = row.plan
         /\ (row.last = None \/ row.last =< stamp) /\ NextIsAhead(row)
              => NextIsAhead(Enabled(row, stamp))
<1> DEFINE next == NextRun(row.plan, stamp)
<1>1. CASE next = None
  BY <1>1 DEF Enabled
<1>2. CASE next # None
  <2>1. next \in Nat /\ stamp < next /\ OnSlot(row.plan, next)
    BY <1>2, NextRunIsSlot DEF Row
  <2>2. Enabled(row, stamp) = [row EXCEPT !.enabled = TRUE, !.next = next]
    BY <1>2 DEF Enabled
  <2> HIDE DEF next
  <2>3. /\ Enabled(row, stamp) \in Row
        /\ Enabled(row, stamp).plan = row.plan
        /\ Enabled(row, stamp).next = next /\ Enabled(row, stamp).last = row.last
    BY <2>1, <2>2 DEF Row
  <2>4. row.last \in Nat \cup {None}
    BY DEF Row
  <2>5. QED
    BY <2>1, <2>3, <2>4 DEF NextIsAhead
<1>3. QED
  BY <1>1, <1>2

(* The row a call leaves behind is typed, and its next run is ahead of its last
   one unless the call re-arms the job from an old clock read. *)
LEMMA EditedRow ==
  ASSUME TypeOK, NEW c, CallTyped(c), c # None,
         c.op = "create" => c.row.last = None /\ NextIsAhead(c.row)
  PROVE  /\ Edited(c) \in Row \cup {None}
         /\ Edited(c) # None => Runnable(Edited(c).plan)
         /\ (Edited(c) # None
               /\ (jobs[c.id] # None => NextIsAhead(jobs[c.id]))
               /\ ~(/\ c.op = "enable" /\ jobs[c.id] # None /\ jobs[c.id].last # None
                    /\ c.stamp < jobs[c.id].last))
              => NextIsAhead(Edited(c))
<1> DEFINE row == jobs[c.id]
<1>1. c.op \in {"create", "remove", "enable", "disable"} /\ c.id \in JobIds /\ c.stamp \in Nat
  BY DEF CallTyped, TypeOK, StoreTyped
<1>2. row \in Row \cup {None} /\ (row # None => row \in Row /\ Runnable(row.plan))
  BY <1>1 DEF TypeOK, StoreTyped
<1>3. CASE c.op = "create"
  <2>1. Edited(c) = c.row
    BY <1>3 DEF Edited
  <2>2. QED
    BY <1>3, <2>1 DEF CallTyped
<1>4. CASE c.op # "create" /\ row = None
  BY <1>4 DEF Edited
<1>5. CASE c.op = "remove" /\ row # None
  BY <1>5 DEF Edited
<1>6. CASE c.op = "disable" /\ row # None
  <2>1. Edited(c) = [row EXCEPT !.enabled = FALSE]
    BY <1>6 DEF Edited
  <2> HIDE DEF row
  <2>2. QED
    BY <1>2, <1>6, <2>1 DEF Row, NextIsAhead, row
<1>7. CASE c.op = "enable" /\ row # None
  <2>1. Edited(c) = Enabled(row, c.stamp)
    BY <1>7 DEF Edited
  <2>2. row.last = None \/ row.last \in Nat
    BY <1>2, <1>7 DEF Row
  <2> HIDE DEF row
  <2>3. QED
    BY <1>1, <1>2, <1>7, <2>1, <2>2, EnabledRow DEF row
<1>8. QED
  BY <1>1, <1>3, <1>4, <1>5, <1>6, <1>7
(* The locked section of add, remove and enable *)
LEMMA CommitKeeps ==
  ASSUME ScheduleInv, NEW r \in Roots, Commit(r)
  PROVE  /\ StoreTyped' /\ CallsTyped' /\ rearmed' \subseteq JobIds
         /\ \A j \in JobIds : jobs'[j] # None /\ j \notin rearmed' => NextIsAhead(jobs'[j])
         /\ turn' = Answered(r) /\ turn[r] # None
         /\ \A q \in Roots : call'[q] # None => call'[q] = call[q]
<1> USE DEF ScheduleInv
<1>1. PICK c : c = call[r]
  OBVIOUS
<1>2. /\ c # None /\ CallTyped(c)
      /\ c.op = "create" => c.row.last = None /\ NextIsAhead(c.row)
      /\ turn[r] # None /\ turn[r].resumed /\ TurnTyped(turn[r])
  BY <1>1 DEF TypeOK, CallsTyped, Commit
<1>3. c.id \in minted /\ c.id \in JobIds
  BY <1>2 DEF CallTyped, TypeOK, StoreTyped
<1>4. PICK new : new = Edited(c)
  OBVIOUS
<1>5. /\ new \in Row \cup {None}
      /\ new # None => Runnable(new.plan)
  BY <1>2, <1>4, EditedRow
<1>6. /\ jobs' = [jobs EXCEPT ![c.id] = new]
      /\ rearmed \subseteq rearmed' /\ rearmed' \subseteq rearmed \cup {c.id}
      /\ UNCHANGED <<minted, parked>> /\ turn' = Answered(r)
      /\ call' = [call EXCEPT ![r] = None]
  BY <1>1, <1>4 DEF Commit
<1>7. (new # None /\ c.id \notin rearmed') => NextIsAhead(new)
  <2>1. HAVE new # None /\ c.id \notin rearmed'
  <2>2. ~(/\ c.op = "enable" /\ jobs[c.id] # None /\ jobs[c.id].last # None
          /\ c.stamp < jobs[c.id].last)
    BY <1>1, <2>1 DEF Commit
  <2>3. jobs[c.id] # None => NextIsAhead(jobs[c.id])
    BY <1>3, <1>6, <2>1
  <2>4. QED
    BY <1>2, <1>4, <2>1, <2>2, <2>3, EditedRow
<1>8. /\ DOMAIN jobs' = JobIds /\ jobs'[c.id] = new
      /\ \A j \in JobIds : j # c.id => jobs'[j] = jobs[j]
  BY <1>3, <1>6 DEF TypeOK, StoreTyped
<1>9. StoreTyped'
  <2>1. jobs' \in [JobIds -> Row \cup {None}]
    BY <1>3, <1>5, <1>6 DEF TypeOK, StoreTyped
  <2>2. QED
    BY <1>3, <1>5, <1>6, <1>8, <2>1 DEF TypeOK, StoreTyped
<1>10. ASSUME NEW j \in JobIds, jobs'[j] # None, j \notin rearmed'
       PROVE  NextIsAhead(jobs'[j])
  BY <1>6, <1>7, <1>8, <1>10
<1>11. /\ DOMAIN call' = Roots /\ call'[r] = None
       /\ \A q \in Roots : q # r => call'[q] = call[q]
       /\ DOMAIN turn' = Roots /\ turn'[r] = [turn[r] EXCEPT !.asks = None]
       /\ \A q \in Roots : q # r => turn'[q] = turn[q]
  BY <1>6 DEF Answered, TypeOK, CallsTyped
<1>12. PICK t : t = turn[r]
  OBVIOUS
<1>13. TurnTyped([t EXCEPT !.asks = None])'
  BY <1>2, <1>12, AnsweredTurn
<1>14. CallsTyped'
  BY <1>6, <1>11, <1>12, <1>13, NoneTyped, MintedGrows DEF TypeOK, CallsTyped
<1>15. rearmed' \subseteq JobIds
  BY <1>3, <1>6 DEF TypeOK
<1>16. QED
  BY <1>2, <1>6, <1>9, <1>10, <1>11, <1>14, <1>15

-----------------------------------------------------------------------------
(* The tick *)

(* What run_due writes back: typed, and its next run after the clock it read *)
LEMMA FiredRow ==
  ASSUME NEW row \in Row, Runnable(row.plan), NEW stamp \in Nat
  PROVE  /\ Fired(row, stamp) \in Row /\ Fired(row, stamp).plan = row.plan
         /\ NextIsAhead(Fired(row, stamp))
<1> DEFINE next == NextRun(row.plan, stamp)
<1>1. CASE row.plan.cron # None
  <2>1. Fired(row, stamp) = [row EXCEPT !.last = stamp, !.next = next]
    BY <1>1 DEF Fired
  <2>2. next # None => next \in Nat /\ stamp < next /\ OnSlot(row.plan, next)
    BY NextRunIsSlot DEF Row
  <2> HIDE DEF next
  <2>3. /\ Fired(row, stamp) \in Row /\ Fired(row, stamp).plan = row.plan
        /\ Fired(row, stamp).next = next /\ Fired(row, stamp).last = stamp
    BY <2>1, <2>2 DEF Row
  <2>4. QED
    BY <2>2, <2>3 DEF NextIsAhead
<1>2. CASE row.plan.cron = None
  BY <1>2 DEF Fired, Row, NextIsAhead
<1>3. QED
  BY <1>1, <1>2

LEMMA RunDueKeeps ==
  ASSUME ScheduleInv, RunDue
  PROVE  /\ StoreTyped' /\ due' \subseteq [id : minted, chat : Chats]
         /\ \A j \in JobIds : jobs'[j] # None /\ j \notin rearmed' => NextIsAhead(jobs'[j])
<1> USE DEF ScheduleInv
<1>1. UNCHANGED <<minted, rearmed>> /\ tick \in Nat
  BY DEF RunDue, TypeOK
<1>2. CASE Raises(tick)
  <2>1. UNCHANGED <<jobs, due>>
    BY <1>2 DEF RunDue
  <2>2. QED
    BY <1>1, <2>1 DEF TypeOK, StoreTyped
<1>3. CASE ~Raises(tick)
  <2>1. /\ jobs' = [j \in JobIds |-> IF j \in DueJobs(tick)
                                       THEN Fired(jobs[j], tick) ELSE jobs[j]]
        /\ due' = Works(DueJobs(tick))
    BY <1>3 DEF RunDue
  <2>2. ASSUME NEW j \in DueJobs(tick)
        PROVE  jobs[j] \in Row /\ Runnable(jobs[j].plan) /\ j \in minted /\ j \in JobIds
    BY DEF DueJobs, IsDue, TypeOK, StoreTyped
  <2>3. ASSUME NEW j \in DueJobs(tick)
        PROVE  /\ Fired(jobs[j], tick) \in Row /\ Runnable(Fired(jobs[j], tick).plan)
               /\ NextIsAhead(Fired(jobs[j], tick))
    BY <1>1, <2>2, FiredRow
  <2>4. due' \subseteq [id : minted, chat : Chats]
    BY <2>1, <2>2 DEF Works, Row
  <2>5. jobs' \in [JobIds -> Row \cup {None}]
    BY <2>1, <2>3 DEF TypeOK, StoreTyped
  <2>6. \A j \in JobIds : jobs'[j] # None => j \in minted' /\ Runnable(jobs'[j].plan)
    BY <1>1, <2>1, <2>2, <2>3 DEF TypeOK, StoreTyped
  <2>7. \A j \in JobIds : jobs'[j] # None /\ j \notin rearmed' => NextIsAhead(jobs'[j])
    BY <1>1, <2>1, <2>3
  <2>8. QED
    BY <1>1, <2>4, <2>5, <2>6, <2>7 DEF TypeOK, StoreTyped
<1>4. QED
  BY <1>2, <1>3
-----------------------------------------------------------------------------
(* Every step *)

LEMMA InitScheduled == Init => ScheduleInv
<1> SUFFICES ASSUME Init PROVE ScheduleInv
  OBVIOUS
<1>1. TypeOK
  BY InitTyped
<1>2. QED
  BY <1>1 DEF Init, ScheduleInv

(* A step that leaves rows and calls alone keeps them in order. *)
LEMMA RowsKept ==
  ASSUME ScheduleInv, TypeOK', UNCHANGED <<jobs, rearmed>>,
         \A r \in Roots : call'[r] # None => call'[r] = call[r]
  PROVE  ScheduleInv'
BY DEF ScheduleInv

LEMMA NextScheduled == ScheduleInv /\ [Next]_vars => ScheduleInv'
<1> SUFFICES ASSUME ScheduleInv, [Next]_vars PROVE ScheduleInv'
  OBVIOUS
<1>0. TypeOK
  BY DEF ScheduleInv
<1>1. CASE Advance
  <2>1. TypeOK'
    BY <1>0, <1>1 DEF Advance, router, TypeOK, StoreTyped, RouterTyped, CallsTyped,
                      TurnTyped, ParkedTyped, CallTyped, Proposable
  <2>2. QED
    BY <1>0, <1>1, <2>1, RowsKept DEF Advance, router
<1>2. CASE TickStart
  <2>1. TypeOK'
    BY <1>0, <1>2 DEF TickStart, router, TypeOK, StoreTyped, RouterTyped, CallsTyped,
                      TurnTyped, ParkedTyped, CallTyped, Proposable
  <2>2. QED
    BY <1>0, <1>2, <2>1, RowsKept DEF TickStart, router
<1>3. CASE RunDue
  <2>1. TypeOK'
    BY <1>0, <1>3, RunDueKeeps DEF RunDue, router, TypeOK, RouterTyped, CallsTyped,
                      TurnTyped, ParkedTyped, CallTyped, Proposable
  <2>3. QED
    BY <1>3, <2>1, RunDueKeeps DEF ScheduleInv, RunDue
<1>4. CASE Restart
  <2>1. TypeOK'
    BY <1>0, <1>4, NoneTyped, MintedGrows
       DEF Restart, TypeOK, StoreTyped, RouterTyped, CallsTyped
  <2>2. QED
    BY <1>0, <1>4, <2>1, RowsKept DEF Restart
<1>5. ASSUME NEW r \in Roots, NEW c \in Chats, Message(r, c) PROVE ScheduleInv'
  <2>1. CallsTyped' /\ RouterTyped'
    BY <1>0, <1>5, SubmitTyped DEF Message, TypeOK
  <2>2. TypeOK'
    BY <1>0, <1>5, <2>1 DEF Message, TypeOK, StoreTyped
  <2>3. QED
    BY <1>0, <1>5, <2>2, RowsKept DEF Message
<1>6. ASSUME NEW r \in Roots, NEW p \in Proposals, Ask(r, p) PROVE ScheduleInv'
  <2>1. TypeOK'
    BY <1>0, <1>6, AskTyped DEF Ask, TypeOK, StoreTyped
  <2>3. QED
    BY <1>0, <1>6, <2>1, RowsKept DEF Ask
<1>7. ASSUME NEW r \in Roots, Approve(r) PROVE ScheduleInv'
  <2>1. TypeOK'
    BY <1>0, <1>7, ApproveTyped DEF Approve, TypeOK, StoreTyped, RouterTyped
  <2>3. QED
    BY <1>0, <1>7, <2>1, RowsKept DEF Approve
<1>8. ASSUME NEW r \in Roots, Finish(r) PROVE ScheduleInv'
  <2>1. TypeOK'
    BY <1>0, <1>8, FinishTyped DEF Finish, TypeOK, StoreTyped
  <2>3. QED
    BY <1>0, <1>8, <2>1, RowsKept DEF Finish
<1>9. ASSUME NEW r \in Roots, ClearAndDrain(r) PROVE ScheduleInv'
  <2>1. TypeOK'
    BY <1>0, <1>9, ClearAndDrainTyped DEF ClearAndDrain, TypeOK, StoreTyped
  <2>2. QED
    BY <1>0, <1>9, <2>1, RowsKept DEF ClearAndDrain
<1>10. ASSUME NEW r \in Roots, BeginCreate(r) PROVE ScheduleInv'
  <2>1. /\ CallsTyped' /\ minted \subseteq minted' /\ minted' \subseteq JobIds
        /\ turn' = turn \/ (turn' = Answered(r) /\ turn[r] # None)
        /\ \A q \in Roots : call'[q] # call[q] =>
             q = r /\ call'[r].row.last = None /\ NextIsAhead(call'[r].row)
    BY <1>0, <1>10, BeginCreateKeeps
  <2>2. TypeOK'
    BY <1>0, <1>10, <2>1 DEF BeginCreate, TypeOK, StoreTyped, RouterTyped
  <2>4. QED
    BY <1>10, <2>1, <2>2 DEF ScheduleInv, BeginCreate
<1>11. ASSUME NEW r \in Roots, BeginChange(r) PROVE ScheduleInv'
  <2>1. /\ CallsTyped' /\ UNCHANGED minted
        /\ \A q \in Roots : call'[q] # call[q] => call'[q].op # "create"
    BY <1>0, <1>11, BeginChangeKeeps
  <2>2. TypeOK'
    BY <1>0, <1>11, <2>1 DEF BeginChange, router, TypeOK, StoreTyped, RouterTyped
  <2>4. QED
    BY <1>11, <2>1, <2>2 DEF ScheduleInv, BeginChange
<1>12. ASSUME NEW r \in Roots, Commit(r) PROVE ScheduleInv'
  <2>1. TypeOK'
    BY <1>0, <1>12, CommitKeeps DEF Commit, TypeOK, RouterTyped
  <2>3. QED
    BY <1>12, <2>1, CommitKeeps DEF ScheduleInv
<1>13. ASSUME NEW r \in Roots, WorkerDies(r) PROVE ScheduleInv'
  <2>1. /\ DOMAIN turn' = Roots /\ DOMAIN call' = Roots
        /\ turn'[r] = None /\ call'[r] = None
        /\ \A q \in Roots : q # r => turn'[q] = turn[q] /\ call'[q] = call[q]
        /\ reader' \in [Roots -> {"idle", "clear", "drain"}]
        /\ UNCHANGED <<clock, jobs, minted, delivery, queue, parked, tick, due, rearmed>>
    BY <1>0, <1>13 DEF WorkerDies, TypeOK, RouterTyped, CallsTyped
  <2>2. CallsTyped'
    BY <1>0, <2>1, NoneTyped, MintedGrows DEF TypeOK, CallsTyped
  <2>3. TypeOK'
    BY <1>0, <2>1, <2>2 DEF TypeOK, StoreTyped, RouterTyped
  <2>4. QED
    BY <1>0, <2>1, <2>3, RowsKept
<1>14. ASSUME NEW w \in due, SubmitDue(w) PROVE ScheduleInv'
  <2>0. Personal \in Roots /\ w.chat \in Chats
    BY <1>0, CalendarAssumption DEF TypeOK
  <2>1. CallsTyped' /\ RouterTyped'
    BY <1>0, <1>14, <2>0, SubmitTyped DEF SubmitDue, TypeOK
  <2>2. TypeOK'
    BY <1>0, <1>14, <2>1 DEF SubmitDue, TypeOK, StoreTyped
  <2>3. QED
    BY <1>0, <1>14, <2>0, <2>2, RowsKept DEF SubmitDue
<1>15. ASSUME NEW w \in due, SubmitFails(w) PROVE ScheduleInv'
  <2>0. Personal \in Roots /\ w.chat \in Chats
    BY <1>0, CalendarAssumption DEF TypeOK
  <2>1. delivery' \in [Roots -> Chats \cup {None}] /\ UNCHANGED <<queue, reader>>
    BY <1>0, <1>15, <2>0 DEF SubmitFails, TypeOK, RouterTyped
  <2>2. TypeOK'
    BY <1>0, <1>15, <2>1, MintedGrows
       DEF SubmitFails, TypeOK, StoreTyped, RouterTyped, CallsTyped
  <2>4. QED
    BY <1>0, <1>15, <2>2, RowsKept DEF SubmitFails
<1>16. CASE UNCHANGED vars
  <2>1. TypeOK'
    BY <1>0, <1>16 DEF vars, TypeOK, StoreTyped, RouterTyped, CallsTyped,
                       TurnTyped, ParkedTyped, CallTyped, Proposable
  <2>2. QED
    BY <1>0, <1>16, <2>1, RowsKept DEF vars
<1>17. QED
  BY <1>1, <1>2, <1>3, <1>4, <1>5, <1>6, <1>7, <1>8, <1>9, <1>10, <1>11, <1>12,
     <1>13, <1>14, <1>15, <1>16 DEF Next
(* The invariant of the schedule: typed files and turns, and
   rows whose next run lies ahead of their last one. *)
THEOREM ScheduleInvariant == Spec => []ScheduleInv
<1>1. Init => ScheduleInv
  BY InitScheduled
<1>2. ScheduleInv /\ [Next]_vars => ScheduleInv'
  BY NextScheduled
<1>3. QED
  BY <1>1, <1>2, PTL DEF Spec

(* jobs.json, active_delivery.json and the state of the router keep their
   types; a job is only ever stored with a chat. *)
THEOREM SchedulerTyped == Spec => []TypeOK
<1>1. ScheduleInv => TypeOK
  BY DEF ScheduleInv
<1>2. QED
  BY <1>1, ScheduleInvariant, PTL

-----------------------------------------------------------------------------
(* What a tick may do *)

(* Only run_due adds works, and each is for a job that was due at its stamp. *)
LEMMA OnlyRunDueFires ==
  ASSUME [Next]_vars, NEW w \in due', w \notin due
  PROVE  RunDue /\ w.id \in DueJobs(tick)
<1>1. RunDue
  BY DEF Next, vars, router, Advance, TickStart, Restart, Message, Ask, Approve, Finish,
         ClearAndDrain, BeginCreate, BeginChange, Commit, WorkerDies, SubmitDue, SubmitFails
<1>2. ~Raises(tick)
  BY <1>1 DEF RunDue
<1>3. w \in Works(DueJobs(tick))
  BY <1>1, <1>2 DEF RunDue
<1>4. QED
  BY <1>1, <1>3 DEF Works

(* Whenever a job that ran before fires again, one of its slots lies between
   the two runs: missed slots are caught up once. *)
THEOREM CatchUpOnce == Spec => FiresOncePerSlot
<1> DEFINE A == \A j \in JobIds :
                  (/\ \E w \in due' \ due : w.id = j
                   /\ jobs[j].last # None
                   /\ j \notin rearmed)
                  => SlotBetween(jobs[j].plan, jobs[j].last, tick)
<1>1. ScheduleInv /\ [Next]_vars => A
  <2> SUFFICES ASSUME ScheduleInv, [Next]_vars, NEW j \in JobIds, NEW w \in due', w \notin due,
                      w.id = j, jobs[j].last # None, j \notin rearmed
               PROVE  SlotBetween(jobs[j].plan, jobs[j].last, tick)
    BY DEF A
  <2>1. RunDue /\ j \in DueJobs(tick)
    BY OnlyRunDueFires
  <2>2. tick \in Nat
    BY <2>1 DEF RunDue, ScheduleInv, TypeOK
  <2>3. jobs[j] \in Row /\ jobs[j].next # None /\ jobs[j].next =< tick
    BY <2>1 DEF DueJobs, IsDue, ScheduleInv, TypeOK, StoreTyped
  <2>4. NextIsAhead(jobs[j])
    BY <2>1 DEF DueJobs, IsDue, ScheduleInv
  <2>5. OnSlot(jobs[j].plan, jobs[j].next) /\ jobs[j].last < jobs[j].next
    BY <2>3, <2>4 DEF NextIsAhead
  <2>6. jobs[j].last \in Nat /\ jobs[j].next \in Nat
    BY <2>3 DEF Row
  <2>7. jobs[j].next \in (jobs[j].last + 1) .. tick
    BY <2>2, <2>3, <2>5, <2>6
  <2>8. QED
    BY <2>5, <2>7 DEF SlotBetween
<1>2. QED
  BY <1>1, ScheduleInvariant, PTL DEF Spec, FiresOncePerSlot

(* A due job stays due until a tick hands it out or a tool call edits it. *)
THEOREM DueJobsFire == Spec => NoFiringSkipped
<1> DEFINE A == \A j \in JobIds :
       IsDue(jobs[j], clock) =>
         \/ IsDue(jobs'[j], clock)
         \/ \E w \in due' : w.id = j
         \/ \E r \in Roots : call[r] # None /\ call'[r] = None /\ call[r].id = j
<1>1. ScheduleInv /\ [Next]_vars => A
  <2> SUFFICES ASSUME ScheduleInv, [Next]_vars, NEW j \in JobIds, IsDue(jobs[j], clock),
                      jobs'[j] # jobs[j]
               PROVE  \/ \E w \in due' : w.id = j
                      \/ \E r \in Roots : call[r] # None /\ call'[r] = None /\ call[r].id = j
    BY DEF A
  <2>1. RunDue \/ \E r \in Roots : Commit(r)
    BY DEF Next, vars, router, Advance, TickStart, Restart, Message, Ask, Approve, Finish,
           ClearAndDrain, BeginCreate, BeginChange, WorkerDies, SubmitDue, SubmitFails
  <2>2. CASE RunDue
    <3>1. ~Raises(tick)
      BY <2>2 DEF RunDue
    <3>2. j \in DueJobs(tick) /\ due' = Works(DueJobs(tick))
      BY <2>2, <3>1 DEF RunDue
    <3>3. [id |-> j, chat |-> jobs[j].chat] \in due'
      BY <3>2 DEF Works
    <3>4. QED
      BY <3>3
  <2>3. ASSUME NEW r \in Roots, Commit(r)
        PROVE  \E q \in Roots : call[q] # None /\ call'[q] = None /\ call[q].id = j
    <3>1. call[r] # None /\ call'[r] = None
      BY <2>3 DEF Commit, ScheduleInv, TypeOK, CallsTyped
    <3>2. call[r].id = j
      BY <2>3 DEF Commit, ScheduleInv, TypeOK, StoreTyped
    <3>3. QED
      BY <3>1, <3>2
  <2>4. QED
    BY <2>1, <2>2, <2>3
<1>2. QED
  BY <1>1, ScheduleInvariant, PTL DEF Spec, NoFiringSkipped
=============================================================================
