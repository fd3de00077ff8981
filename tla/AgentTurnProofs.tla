--------------------------- MODULE AgentTurnProofs ---------------------------
(***************************************************************************)
(* Proofs about AgentTurn: AgentInv is inductive, and with it, for chains  *)
(* of models, budgets, bounds and reports of any size, a prompt is sent    *)
(* once, no model sees an open call, a turn that succeeds was verified and *)
(* took its steers along, and the limits hold.                             *)
(***************************************************************************)
EXTENDS AgentTurn, SequenceTheorems, FiniteSetTheorems, TLAPS

-----------------------------------------------------------------------------
(* The thread: what is appended, dropped, removed and marked. *)

LEMMA AppendFacts ==
  ASSUME NEW s \in Seq(Messages), NEW m \in Messages
  PROVE  /\ Append(s, m) \in Seq(Messages)
         /\ DOMAIN s = 1 .. Len(s) /\ Len(s) \in Nat
         /\ Len(Append(s, m)) = Len(s) + 1 /\ DOMAIN Append(s, m) = 1 .. (Len(s) + 1)
         /\ Append(s, m)[Len(s) + 1] = m
         /\ \A i \in 1 .. Len(s) : Append(s, m)[i] = s[i]
OBVIOUS

LEMMA DropFacts ==
  ASSUME NEW s \in Seq(Messages), s # <<>>
  PROVE  LET d == SubSeq(s, 1, Len(s) - 1) IN
         /\ d \in Seq(Messages)
         /\ DOMAIN s = 1 .. Len(s) /\ Len(s) \in Nat \ {0}
         /\ Len(d) = Len(s) - 1 /\ DOMAIN d = 1 .. (Len(s) - 1)
         /\ \A i \in 1 .. (Len(s) - 1) : d[i] = s[i]
<1>1. Len(s) \in Nat \ {0} /\ DOMAIN s = 1 .. Len(s)
  BY EmptySeq
<1>2. QED
  BY <1>1, SubSeqProperties

LEMMA RemoveFacts ==
  ASSUME NEW s \in Seq(Messages), NEW p \in 1 .. Len(s)
  PROVE  LET d == [i \in 1 .. Len(s) - 1 |-> s[IF i < p THEN i ELSE i + 1]] IN
         /\ d \in Seq(Messages)
         /\ DOMAIN s = 1 .. Len(s) /\ Len(s) \in Nat \ {0}
         /\ Len(d) = Len(s) - 1 /\ DOMAIN d = 1 .. (Len(s) - 1)
         /\ \A i \in 1 .. (Len(s) - 1) : d[i] = s[IF i < p THEN i ELSE i + 1]
OBVIOUS

LEMMA MarkFacts ==
  ASSUME NEW s \in Seq(Messages), NEW p \in 1 .. Len(s)
  PROVE  LET d == [s EXCEPT ![p].k = "refused"] IN
         /\ d \in Seq(Messages)
         /\ DOMAIN s = 1 .. Len(s) /\ Len(s) \in Nat
         /\ Len(d) = Len(s) /\ DOMAIN d = 1 .. Len(s)
         /\ d[p].k = "refused"
         /\ \A i \in 1 .. Len(s) : i # p => d[i] = s[i]
<1> DEFINE d == [s EXCEPT ![p].k = "refused"]
<1>0. s[p] \in Messages
  OBVIOUS
<1>1. s[p] \in Messages /\ [s[p] EXCEPT !.k = "refused"] \in Messages
  BY <1>0 DEF Messages, Kinds
<1>2. d = [s EXCEPT ![p] = [s[p] EXCEPT !.k = "refused"]]
  OBVIOUS
<1>3. QED
  BY <1>1, <1>2 DEF Messages

LEMMA PatchFacts ==
  ASSUME TypeOK, thread' = [i \in DOMAIN thread |-> IF Open(i) THEN Tag("patched") ELSE thread[i]]
  PROVE  /\ thread' \in Seq(Messages)
         /\ DOMAIN thread = 1 .. Len(thread) /\ Len(thread) \in Nat
         /\ Len(thread') = Len(thread) /\ DOMAIN thread' = 1 .. Len(thread)
         /\ \A i \in 1 .. Len(thread) : \/ Open(i) /\ thread[i].k = "calls" /\ thread'[i].k = "patched"
                                        \/ ~Open(i) /\ thread'[i] = thread[i]
<1>1. thread \in Seq(Messages) /\ DOMAIN thread = 1 .. Len(thread) /\ Len(thread) \in Nat
  BY DEF TypeOK
<1>2. Tag("patched") \in Messages /\ Tag("patched").k = "patched"
  BY TurnAssumption DEF Tag, Msg, Messages, Kinds
<1>3. \A i \in 1 .. Len(thread) : thread[i] \in Messages
  BY <1>1
<1>4. /\ DOMAIN thread' = 1 .. Len(thread)
      /\ \A i \in 1 .. Len(thread) : thread'[i] = IF Open(i) THEN Tag("patched") ELSE thread[i]
  BY <1>1
<1>5. \A i \in 1 .. Len(thread) : thread'[i] \in Messages
  BY <1>2, <1>3, <1>4
<1>6. thread' \in [1 .. Len(thread) -> Messages]
  BY <1>1, <1>2, <1>3
<1>7. thread' \in Seq(Messages) /\ Len(thread') = Len(thread)
  BY <1>1, <1>6
<1>8. \A i \in 1 .. Len(thread) : Open(i) => thread[i].k = "calls"
  BY DEF Open
<1>9. ASSUME NEW i \in 1 .. Len(thread)
      PROVE  \/ Open(i) /\ thread[i].k = "calls" /\ thread'[i].k = "patched"
             \/ ~Open(i) /\ thread'[i] = thread[i]
  <2>1. CASE Open(i)
    BY <1>2, <1>4, <1>8, <2>1
  <2>2. CASE ~Open(i)
    BY <1>4, <2>2
  <2>3. QED
    BY <2>1, <2>2
<1>10. \A i \in 1 .. Len(thread) : \/ Open(i) /\ thread[i].k = "calls" /\ thread'[i].k = "patched"
                                   \/ ~Open(i) /\ thread'[i] = thread[i]
  BY <1>9
<1>11. /\ thread' \in Seq(Messages) /\ Len(thread') = Len(thread)
       /\ DOMAIN thread = 1 .. Len(thread) /\ Len(thread) \in Nat
       /\ DOMAIN thread' = 1 .. Len(thread)
  BY <1>1, <1>4, <1>7, Zenon
<1>12. QED
  BY <1>10, <1>11, Zenon

(* Messages the actions append *)
LEMMA Tags ==
  /\ \A k \in Kinds : Tag(k) \in Messages /\ Tag(k).k = k
  /\ \A k \in Kinds, n \in 0 .. MaxPrompts : /\ Msg(k, n) \in Messages
                                             /\ Msg(k, n).k = k /\ Msg(k, n).n = n
BY TurnAssumption DEF Tag, Msg, Messages

(* A message at a place of the thread *)
LEMMA MessageFacts ==
  ASSUME TypeOK
  PROVE  /\ Len(thread) \in Nat /\ DOMAIN thread = 1 .. Len(thread)
         /\ \A i \in DOMAIN thread : /\ thread[i] \in Messages
                                    /\ thread[i].n \in 0 .. MaxPrompts /\ thread[i].k \in Kinds
<1>1. thread \in Seq(Messages)
  BY DEF TypeOK
<1>2. \A m \in Messages : m.n \in 0 .. MaxPrompts /\ m.k \in Kinds
  BY DEF Messages
<1>3. /\ Len(thread) \in Nat /\ DOMAIN thread = 1 .. Len(thread)
      /\ \A i \in DOMAIN thread : thread[i] \in Messages
  BY <1>1
<1>4. QED
  BY <1>2, <1>3

(* The image message that the policy takes back is the prompt of this turn. *)
LEMMA LastPromptFacts ==
  ASSUME AgentInv, pc = "policy", RetriesTextOnly
  PROVE  /\ LastPrompt \in 1 .. Len(thread) /\ LastPrompt \in Prompted
         /\ thread[LastPrompt].k = "image" /\ thread[LastPrompt].n = att.id
         /\ att.id = prompts /\ ~att.pendingOnly
<1>1. att.sent /\ att.error = "image"
  BY DEF RetriesTextOnly
<1>2. ~att.pendingOnly /\ att.id = prompts /\ Delivered
  BY <1>1 DEF AgentInv, PromptInv, Delivered
<1>0. \E i \in Prompted : thread[i].n = att.id /\ (att.sent => thread[i].k = "image")
  BY <1>2, Zenon DEF AgentInv, PromptInv
<1>3. PICK i \in Prompted : thread[i].n = att.id /\ thread[i].k = "image"
  BY <1>0, <1>1, Zenon
<1>4. DOMAIN thread = 1 .. Len(thread) /\ Len(thread) \in Nat /\ prompts \in Nat
      /\ \A j \in DOMAIN thread : thread[j].n \in Nat
  BY MessageFacts DEF AgentInv, TypeOK
<1>5. i \in Positions("image") /\ i \in 1 .. Len(thread)
  BY <1>3, <1>4 DEF Prompted, Positions
<1>6. ASSUME NEW j \in Positions("image") PROVE j <= i
  <2>1. j \in Prompted /\ j \in 1 .. Len(thread) /\ thread[j].n <= prompts
    BY <1>4, <1>6 DEF Prompted, Positions, AgentInv, PromptInv, PromptsOrdered
  <2>2. i < j => thread[i].n < thread[j].n
    BY <1>3, <2>1 DEF AgentInv, PromptInv, PromptsOrdered
  <2>3. QED
    BY <1>2, <1>3, <1>4, <1>5, <2>1, <2>2
<1>7. ASSUME NEW j \in Positions("image"), \A h \in Positions("image") : h <= j
      PROVE  j = i
  <2>1. j <= i /\ i <= j /\ j \in Int
    BY <1>4, <1>5, <1>6, <1>7 DEF Positions
  <2>2. QED
    BY <1>5, <2>1
<1>8. LastPrompt = i
  BY <1>5, <1>6, <1>7 DEF LastPrompt
<1>9. QED
  BY <1>2, <1>3, <1>5, <1>8

-----------------------------------------------------------------------------
(* Types. *)

LEMMA ChargedFacts ==
  ASSUME TypeOK, NEW u \in Usages
  PROVE  Charged(u) \in Nat /\ Total(u) \in Nat
<1>1. \A v \in Usages : v[1] \in Nat /\ v[2] \in Nat /\ Total(v) \in Nat
  BY TurnAssumption DEF Total
<1>2. drv.last \in Usages \cup {None}
  BY DEF TypeOK, Drivers
<1>3. CASE drv.last = None
  BY <1>1, <1>3 DEF Charged
<1>4. CASE drv.last \in Usages
  BY <1>1, <1>4 DEF Charged, Total
<1>5. QED
  BY <1>1, <1>2, <1>3, <1>4

LEMMA Fresh ==
  /\ NoAttempt \in Attempts
  /\ \A n \in Nat : NewDriver(n) \in Drivers
BY TurnAssumption DEF NoAttempt, Attempts, NewDriver, Drivers, Errors

LEMMA EndTyped ==
  ASSUME TypeOK, NEW how \in Outcomes, End(how)
  PROVE  /\ pc' = "idle" /\ outcome' = how
         /\ drv' \in Drivers /\ att' \in Attempts
         /\ edited' \in {"none", "now", "parked"}
         /\ att'.id = att.id /\ att'.retried = att.retried
<1>1. att.id \in 0 .. MaxPrompts /\ att.retried \in BOOLEAN
  BY DEF TypeOK, Attempts
<1>2. att' \in Attempts /\ att'.id = att.id /\ att'.retried = att.retried
  BY <1>1, Fresh DEF End, Attempts, NoAttempt
<1>3. QED
  BY <1>2, Fresh DEF End, TypeOK

LEMMA BeginTyped ==
  ASSUME TypeOK, NEW a \in Attempts, Begin(a), prompts' \in 0 .. MaxPrompts,
         slot' \in BOOLEAN, followup' \in BOOLEAN, chain' \in Nat, followups' \in Nat
  PROVE  TypeOK'
BY TurnAssumption DEF Begin, TypeOK

(* The counter of prompts can take one more below its bound. *)
LEMMA PromptRoom ==
  ASSUME TypeOK, prompts < MaxPrompts
  PROVE  prompts + 1 \in 0 .. MaxPrompts
<1>1. prompts \in 0 .. MaxPrompts
  BY DEF TypeOK
<1>2. MaxPrompts \in Nat
  BY TurnAssumption
<1>3. QED
  BY <1>1, <1>2

LEMMA NextType ==
  ASSUME AgentInv, [Next]_vars
  PROVE  TypeOK'
<1> USE DEF AgentInv
<1>0. /\ TypeOK /\ att \in Attempts /\ drv \in Drivers /\ thread \in Seq(Messages)
      /\ slot \in BOOLEAN /\ chain \in Nat /\ taken \in Nat /\ spent \in Nat
      /\ call \in CallStates
  BY DEF TypeOK
<1>c. {"none", "new", "asked", "approved"} = CallStates
  BY DEF CallStates
<1>k. \A k \in Kinds : Append(thread, Tag(k)) \in Seq(Messages)
  BY <1>0, Tags, AppendFacts
<1>1. ASSUME NEW image \in BOOLEAN, SubmitLine(image) PROVE TypeOK'
  <2>1. prompts + 1 \in 0 .. MaxPrompts
    BY <1>0, <1>1, PromptRoom DEF SubmitLine
  <2>2. [NoAttempt EXCEPT !.image = image, !.id = prompts + 1] \in Attempts
    BY <2>1, Fresh DEF Attempts, NoAttempt
  <2>3. QED
    BY <1>0, <1>1, <2>1, <2>2, BeginTyped DEF SubmitLine, TypeOK
<1>2. ASSUME RunLeftover \/ RunFollowup PROVE TypeOK'
  <2>1. prompts + 1 \in 0 .. MaxPrompts
    BY <1>0, <1>2, PromptRoom DEF RunLeftover, RunFollowup
  <2>2. [NoAttempt EXCEPT !.id = prompts + 1] \in Attempts
    BY <2>1, Fresh DEF Attempts, NoAttempt
  <2>3. CASE RunLeftover
    BY <1>0, <2>1, <2>2, <2>3, BeginTyped DEF RunLeftover, TypeOK
  <2>4. CASE RunFollowup
    <3>1. followups' \in Nat
      BY <2>4 DEF RunFollowup, TypeOK
    <3>2. QED
      BY <1>0, <2>1, <2>2, <2>4, <3>1, BeginTyped DEF RunFollowup, TypeOK
  <2>5. QED
    BY <1>2, <2>3, <2>4
<1>3. ASSUME ResumeParked PROVE TypeOK'
  <2>1. [NoAttempt EXCEPT !.pendingOnly = TRUE] \in Attempts
    BY Fresh DEF Attempts, NoAttempt
  <2>2. QED
    BY <1>0, <1>3, <2>1, BeginTyped DEF ResumeParked, TypeOK
<1>4. ASSUME Attempt PROVE TypeOK'
  <2>1. CASE ShouldStop(spent)
    BY <1>0, <1>4, <2>1, EndTyped DEF Attempt, TypeOK, session, counters, Outcomes
  <2>2. CASE ~ShouldStop(spent)
    <3>1. att' \in Attempts
      BY <1>0, <1>4, <2>2 DEF Attempt, TypeOK, Attempts
    <3>2. QED
      BY <1>0, <1>4, <2>2, <3>1, Fresh DEF Attempt, TypeOK, session, counters
  <2>3. QED
    BY <2>1, <2>2
<1>5. ASSUME Inspect PROVE TypeOK'
  <2>1. att' \in Attempts /\ drv' \in Drivers
    BY <1>0, <1>5 DEF Inspect, Fails, Attempts, Drivers, Errors
  <2>2. QED
    BY <1>0, <1>5, <2>1 DEF Inspect, TypeOK, session, history, counters
<1>6. ASSUME Prompt PROVE TypeOK'
  <2>1. att.id \in 0 .. MaxPrompts
    BY <1>0 DEF Attempts
  <2>2. Msg(IF att.sent THEN "image" ELSE "human", att.id) \in Messages
    BY <2>1 DEF Msg, Messages, Kinds
  <2>3. thread' \in Seq(Messages)
    BY <1>0, <1>6, <2>2, AppendFacts DEF Prompt
  <2>4. call' \in CallStates
    BY <1>0, <1>c, <1>6 DEF Prompt
  <2>5. QED
    BY <1>0, <1>6, <2>3, <2>4 DEF Prompt, TypeOK, session, history, counters
<1>p. ASSUME PatchCalls PROVE TypeOK'
  <2>1. thread' \in Seq(Messages)
    BY <1>0, <1>p, PatchFacts DEF PatchCalls
  <2>2. QED
    BY <1>0, <1>c, <1>p, <2>1 DEF PatchCalls, TypeOK, session, history, counters
<1>q. ASSUME PatchSteered PROVE TypeOK'
  <2>1. att' \in Attempts
    BY <1>0, <1>q DEF PatchSteered, Attempts
  <2>2. thread' \in Seq(Messages)
    BY <1>0, <1>k, <1>q DEF PatchSteered, Kinds
  <2>3. drv' \in Drivers
    BY <1>0, <1>q DEF PatchSteered, Drivers, HeldAfter
  <2>4. QED
    BY <1>0, <1>q, <2>1, <2>2, <2>3 DEF PatchSteered, TakesSteer, TypeOK, session, history, counters
<1>7. ASSUME NEW e \in {"retryable", "auth", "image", "fatal"}, NEW shown \in BOOLEAN,
             NEW took \in BOOLEAN, ModelFails(e, shown, took)
      PROVE  TypeOK'
  <2>1. att' \in Attempts /\ drv' \in Drivers
    BY <1>0, <1>7 DEF ModelFails, Attempts, Drivers, Errors
  <2>2. QED
    BY <1>0, <1>7, <2>1 DEF ModelFails, TakesSteer, Over, TypeOK, session, history, counters
<1>8. ASSUME NEW u \in Usages, NEW k \in {"calls", "text"}, NEW kept \in {"none", "new", "asked"},
             ModelOverBudget(u, k, kept)
      PROVE  TypeOK'
  <2>1. att' \in Attempts /\ drv' \in Drivers
    BY <1>0, <1>8 DEF ModelOverBudget, Attempts, Drivers, Errors
  <2>2. thread' \in Seq(Messages)
    BY <1>0, <1>k, <1>8 DEF ModelOverBudget, Kinds
  <2>3. spent' \in Nat /\ uncounted' \in BOOLEAN
    BY <1>0, <1>8, ChargedFacts DEF ModelOverBudget, Charge, TypeOK
  <2>c. call' \in CallStates
    BY <1>c, <1>8 DEF ModelOverBudget
  <2>4. QED
    BY <1>0, <1>8, <2>1, <2>2, <2>3, <2>c
    DEF ModelOverBudget, Over, TypeOK, session, history, counters
<1>9. ASSUME NEW u \in Usages, NEW k \in {"calls", "text"}, ModelReplies(u, k)
      PROVE  TypeOK'
  <2>1. att' \in Attempts /\ drv' \in Drivers
    BY <1>0, <1>9 DEF ModelReplies, Attempts, Drivers
  <2>2. thread' \in Seq(Messages)
    BY <1>0, <1>k, <1>9 DEF ModelReplies, Kinds
  <2>3. spent' \in Nat /\ uncounted' \in BOOLEAN
    BY <1>0, <1>9, ChargedFacts DEF ModelReplies, Charge, TypeOK
  <2>c. call' \in CallStates
    BY <1>c, <1>9 DEF ModelReplies
  <2>4. QED
    BY <1>0, <1>9, <2>1, <2>2, <2>3, <2>c DEF ModelReplies, TypeOK, session, history, counters
<1>10. ASSUME NEW u \in Usages, NEW k \in {"calls", "text"}, NEW lagging \in BOOLEAN,
              ModelSteered(u, k, lagging)
       PROVE  TypeOK'
  <2>1. att' \in Attempts /\ drv' \in Drivers
    BY <1>0, <1>10 DEF ModelSteered, Attempts, Drivers, HeldAfter
  <2>2. thread' \in Seq(Messages)
    BY <1>0, <1>k, <1>10, DropFacts DEF ModelSteered, SteerSettled, Kinds, Ends
  <2>c. call' \in CallStates
    BY <1>c, <1>10 DEF ModelSteered
  <2>3. spent' \in Nat /\ uncounted' \in BOOLEAN
    BY <1>0, <1>10, ChargedFacts DEF ModelSteered, Charge, TypeOK
  <2>4. QED
    BY <1>0, <1>10, <2>1, <2>2, <2>3, <2>c
    DEF ModelSteered, TakesSteer, TypeOK, session, history, counters
<1>s. ASSUME Steer PROVE TypeOK'
  <2>1. steers' \in Nat
    BY <1>s DEF Steer, TypeOK
  <2>2. QED
    BY <1>0, <1>s, <2>1 DEF Steer, TypeOK, history
<1>11. ASSUME NEW took \in BOOLEAN, Interrupted(took) PROVE TypeOK'
  <2>1. drv' \in Drivers
    BY <1>0, <1>11 DEF Interrupted, Drivers
  <2>2. QED
    BY <1>0, <1>c, <1>11, <2>1 DEF Interrupted, TakesSteer, TypeOK, session, history, counters
<1>a. ASSUME NEW shown \in BOOLEAN, Approve(shown) PROVE TypeOK'
  <2>1. att' \in Attempts
    BY <1>0, <1>a DEF Approve, Attempts
  <2>2. QED
    BY <1>0, <1>c, <1>a, <2>1 DEF Approve, TypeOK, session, history, counters
<1>r. ASSUME NEW took \in BOOLEAN, Reject(took) PROVE TypeOK'
  <2>1. att' \in Attempts /\ drv' \in Drivers
    BY <1>0, <1>r DEF Reject, Attempts, Drivers
  <2>2. thread' \in Seq(Messages)
    BY <1>0, <1>k, <1>r DEF Reject, Kinds
  <2>3. QED
    BY <1>0, <1>c, <1>r, <2>1, <2>2 DEF Reject, TakesSteer, TypeOK, session, history, counters
<1>12. ASSUME NEW edit \in BOOLEAN, NEW took \in BOOLEAN, RunTools(edit, took) PROVE TypeOK'
  <2>1. att' \in Attempts /\ drv' \in Drivers
    BY <1>0, <1>12 DEF RunTools, Attempts, Drivers
  <2>2. thread' \in Seq(Messages)
    BY <1>0, <1>k, <1>12 DEF RunTools, Kinds
  <2>3. QED
    BY <1>0, <1>c, <1>12, <2>1, <2>2 DEF RunTools, TakesSteer, TypeOK, session, history, counters
<1>13. ASSUME Park \/ Cancel \/ GiveUp PROVE TypeOK'
  <2>1. CASE Park
    BY <1>0, <2>1, EndTyped DEF Park, TypeOK, session, counters, Outcomes
  <2>2. CASE Cancel
    <3>1. cancels' \in Nat
      BY <2>2 DEF Cancel, TypeOK
    <3>2. QED
      BY <1>0, <2>2, <3>1, EndTyped DEF Cancel, TypeOK, Outcomes
  <2>3. CASE GiveUp
    BY <1>0, <2>3, EndTyped DEF GiveUp, TypeOK, session, counters, Outcomes
  <2>4. QED
    BY <1>13, <2>1, <2>2, <2>3
<1>14. ASSUME VerifyPasses PROVE TypeOK'
  <2>1. drv' \in Drivers
    BY <1>0, <1>14 DEF VerifyPasses, Drivers
  <2>2. QED
    BY <1>0, <1>14, <2>1 DEF VerifyPasses, TypeOK, session, counters
<1>15. ASSUME NEW b \in BOOLEAN, VerifyFails(b) PROVE TypeOK'
  <2>a. att' \in Attempts
    BY <1>0, <1>15 DEF VerifyFails, Fails, Attempts, Errors
  <2>b. ASSUME ~b /\ MayRepair(drv) PROVE drv' \in Drivers
    <3>1. drv.repairs + 1 \in 0 .. MaxRepairRounds
      BY <1>0, <2>b, TurnAssumption DEF MayRepair, Drivers
    <3>2. drv' = [drv EXCEPT !.repairs = drv.repairs + 1, !.dirty = TRUE]
      BY <1>15, <2>b DEF VerifyFails, DirtyAfterRepair
    <3>3. drv' \in Drivers
      BY <1>0, <3>1, <3>2 DEF Drivers
    <3>4. QED
      BY <3>3
  <2>c. ASSUME ~(~b /\ MayRepair(drv)) PROVE drv' \in Drivers
    BY <1>0, <1>15, <2>c DEF VerifyFails, Drivers
  <2>1. att' \in Attempts /\ drv' \in Drivers
    BY <2>a, <2>b, <2>c
  <2>2. thread' \in Seq(Messages)
    BY <1>0, <1>k, <1>15 DEF VerifyFails, Kinds
  <2>3. QED
    BY <1>0, <1>15, <2>1, <2>2 DEF VerifyFails, Over, TypeOK, session, history, counters
<1>16. ASSUME NEW b \in BOOLEAN, Done(b) PROVE TypeOK'
  <2>1. chain' \in Nat
    BY <1>0, <1>16 DEF Done, Bumped
  <2>2. QED
    BY <1>0, <1>16, <2>1 DEF Done, Over, TypeOK, history, counters
<1>17. ASSUME NEW b \in BOOLEAN, RetryTextOnly(b) PROVE TypeOK'
  <2>1. att' \in Attempts
    BY <1>0, <1>17 DEF RetryTextOnly, Attempts
  <2>2. LastPrompt \in 1 .. Len(thread)
    BY <1>17, LastPromptFacts DEF RetryTextOnly
  <2>3. thread' \in Seq(Messages)
    BY <1>0, <1>17, <2>2, RemoveFacts, MarkFacts DEF RetryTextOnly
  <2>4. QED
    BY <1>0, <1>17, <2>1, <2>3 DEF RetryTextOnly, TypeOK, history, counters
<1>18. ASSUME NEW b \in BOOLEAN, RetryOnFallback(b) PROVE TypeOK'
  <2>1. NextCandidates \subseteq 1 .. Candidates
    BY TurnAssumption DEF NextCandidates, Viable
  <2>2. CASE b
    <3>1. att' \in Attempts
      BY <1>0, <1>18, <2>2 DEF RetryOnFallback, ResumesRetry, Attempts
    <3>2. QED
      BY <1>0, <1>18, <2>1, <2>2, <3>1 DEF RetryOnFallback, TypeOK, session, counters
  <2>3. CASE ~b
    BY <1>0, <1>18, <2>1, <2>3, EndTyped
    DEF RetryOnFallback, TypeOK, session, counters, Outcomes
  <2>4. QED
    BY <2>2, <2>3
<1>19. ASSUME After PROVE TypeOK'
  <2>a. att' \in Attempts
    BY <1>0, <1>19 DEF After, Fails, Attempts, Errors
  <2>b. drv.round \in Nat /\ drv.held \in BOOLEAN
    BY <1>0 DEF Drivers
  <2>c. [NewDriver(drv.round) EXCEPT !.held = drv.held] \in Drivers
    BY <2>b, Fresh DEF Drivers, NewDriver
  <2>1. att' \in Attempts /\ drv' \in Drivers
    BY <1>0, <1>19, <2>a, <2>c DEF After
  <2>2. QED
    BY <1>0, <1>19, <2>1 DEF After, TypeOK, session, history, counters
<1>20. ASSUME Succeed PROVE TypeOK'
  BY <1>0, <1>20, EndTyped, TurnAssumption DEF Succeed, TypeOK, session, counters, Outcomes
<1>21. CASE UNCHANGED vars
  BY <1>0, <1>21 DEF vars, TypeOK, session, history, counters
<1>22. QED
  BY <1>1, <1>2, <1>3, <1>4, <1>5, <1>6, <1>p, <1>q, <1>7, <1>8, <1>9, <1>10, <1>s, <1>11, <1>a,
     <1>r, <1>12, <1>13, <1>14, <1>15, <1>16, <1>17, <1>18, <1>19, <1>20, <1>21
  DEF Next, TurnStep, ModelStep

-----------------------------------------------------------------------------
(* The prompt of a turn. *)

(* Only what is no prompt is added to the thread or rolled back. *)
SamePrompts == Prompted' = Prompted /\ \A i \in Prompted : thread'[i] = thread[i]

LEMMA UnchangedKeepsPrompts == thread' = thread => SamePrompts
BY DEF SamePrompts, Prompted, Positions

LEMMA AppendKeepsPrompts ==
  ASSUME TypeOK, NEW k \in Kinds \ {"human", "image"}, thread' = Append(thread, Tag(k))
  PROVE  SamePrompts
<1>1. /\ DOMAIN thread = 1 .. Len(thread) /\ Len(thread) \in Nat
      /\ DOMAIN thread' = 1 .. (Len(thread) + 1)
      /\ thread'[Len(thread) + 1] = Tag(k) /\ Tag(k).k = k
      /\ \A i \in 1 .. Len(thread) : thread'[i] = thread[i]
  BY Tags, AppendFacts DEF TypeOK
<1>2. QED
  BY <1>1 DEF SamePrompts, Prompted, Positions

LEMMA DropKeepsPrompts ==
  ASSUME TypeOK, Ends("result"), thread' = SubSeq(thread, 1, Len(thread) - 1)
  PROVE  SamePrompts
<1>1. /\ DOMAIN thread = 1 .. Len(thread) /\ Len(thread) \in Nat \ {0}
      /\ DOMAIN thread' = 1 .. (Len(thread) - 1)
      /\ \A i \in 1 .. (Len(thread) - 1) : thread'[i] = thread[i]
  BY DropFacts DEF TypeOK, Ends
<1>2. thread[Len(thread)].k = "result"
  BY DEF Ends
<1>3. QED
  BY <1>1, <1>2 DEF SamePrompts, Prompted, Positions

LEMMA PatchKeepsPrompts ==
  ASSUME TypeOK, PatchCalls
  PROVE  SamePrompts
<1>1. /\ DOMAIN thread = 1 .. Len(thread) /\ DOMAIN thread' = 1 .. Len(thread)
      /\ \A i \in 1 .. Len(thread) : \/ Open(i) /\ thread[i].k = "calls" /\ thread'[i].k = "patched"
                                     \/ ~Open(i) /\ thread'[i] = thread[i]
  BY PatchFacts DEF PatchCalls
<1>2. \A i \in DOMAIN thread :
        (thread[i].k \in {"human", "image"} <=> thread'[i].k \in {"human", "image"})
        /\ (thread[i].k \in {"human", "image"} => thread'[i] = thread[i])
  BY <1>1
<1>3. /\ Prompted = {i \in DOMAIN thread : thread[i].k \in {"human", "image"}}
      /\ Prompted' = {i \in DOMAIN thread' : thread'[i].k \in {"human", "image"}}
  BY DEF Prompted, Positions
<1>4. Prompted' = Prompted
  BY <1>1, <1>2, <1>3
<1>5. QED
  BY <1>2, <1>3, <1>4 DEF SamePrompts

LEMMA OrderKept ==
  ASSUME AgentInv, SamePrompts, prompts' \in Nat, prompts <= prompts'
  PROVE  PromptsOrdered'
<1>1. prompts \in Nat /\ \A i \in Prompted : thread[i].n \in Nat
  BY MessageFacts DEF AgentInv, TypeOK, Prompted, Positions
<1>2. /\ \A i, j \in Prompted : i < j => thread[i].n < thread[j].n
      /\ \A i \in Prompted : thread[i].n <= prompts
  BY DEF AgentInv, PromptInv, PromptsOrdered
<1>3. \A i \in Prompted : thread[i].n <= prompts'
  BY <1>1, <1>2
<1>4. QED
  BY <1>2, <1>3 DEF SamePrompts, PromptsOrdered

(* A step inside a turn that leaves the prompts of the thread alone *)
LEMMA InsideKeepsPrompt ==
  ASSUME AgentInv, SamePrompts, UNCHANGED prompts, pc # "idle", pc' # "idle",
         att'.id = att.id, att'.pendingOnly = att.pendingOnly, att'.image = att.image,
         att'.pendingOnly => ~att'.sent,
         pc' \in {"inspect", "prompt", "patch"} => ~drv'.resumes,
         pc' \in {"prompt", "patch"} => ~att'.pendingOnly,
         pc' = "after" => drv'.resumes /\ ~att'.resume /\ ~att'.pendingOnly,
         Unsent' => Unsent,
         Delivered' => Delivered /\ (att'.sent => att.sent)
  PROVE  PromptInv'
<1>1. PromptsOrdered'
  BY OrderKept DEF AgentInv, TypeOK
<1>2. Unsent' => \A i \in Prompted' : thread'[i].n # att'.id
  BY DEF AgentInv, PromptInv, SamePrompts
<1>3. Delivered' =>
        \E i \in Prompted' : thread'[i].n = att'.id /\ (att'.sent => thread'[i].k = "image")
  BY DEF AgentInv, PromptInv, SamePrompts
<1>4. /\ ~att'.pendingOnly => att'.id = prompts'
      /\ att'.pendingOnly => att'.id = 0 /\ ~att'.image /\ ~att'.sent
  BY DEF AgentInv, PromptInv
<1>5. QED
  BY <1>1, <1>2, <1>3, <1>4 DEF PromptInv

(* A turn that ends *)
LEMMA EndKeepsPrompt ==
  ASSUME AgentInv, NEW how \in Outcomes, End(how), UNCHANGED <<thread, prompts>>, pc # "idle",
         how = "done" => pc = "policy" /\ att.error = None
  PROVE  PromptInv'
<1>1. SamePrompts /\ PromptsOrdered'
  BY UnchangedKeepsPrompts, OrderKept DEF AgentInv, TypeOK
<1>2. pc' = "idle" /\ outcome' = how /\ att'.id = att.id
  BY EndTyped DEF AgentInv
<1>3. ~Unsent' /\ ~Delivered'
  BY <1>2 DEF Unsent, Delivered, Streaming
<1>4. ASSUME how = "done", att.id # 0
      PROVE  \E i \in Prompted' : thread'[i].n = att'.id
  <2>1. Delivered
    BY <1>4, TurnAssumption DEF AgentInv, PromptInv, Delivered, Errors
  <2>2. QED
    BY <1>1, <1>2, <2>1 DEF AgentInv, PromptInv, SamePrompts
<1>5. QED
  BY <1>1, <1>2, <1>3, <1>4 DEF PromptInv

(* A turn that begins, with a new prompt or for a parked call alone *)
LEMMA BeginKeepsPrompt ==
  ASSUME AgentInv, NEW a \in Attempts, Begin(a), ~a.resume,
         \/ a.id = prompts + 1 /\ prompts' = prompts + 1 /\ ~a.pendingOnly
         \/ a.id = 0 /\ prompts' = prompts /\ a.pendingOnly /\ ~a.image /\ ~a.sent
  PROVE  PromptInv'
<1>1. prompts \in Nat /\ prompts' \in Nat /\ prompts <= prompts'
  BY DEF AgentInv, TypeOK
<1>2. SamePrompts /\ PromptsOrdered'
  BY <1>1, UnchangedKeepsPrompts, OrderKept DEF Begin
<1>3. pc' = "attempt" /\ att' = a
  BY DEF Begin
<1>4. ~Delivered'
  BY <1>3 DEF Delivered, Streaming
<1>5. ASSUME ~a.pendingOnly, NEW i \in Prompted'
      PROVE  thread'[i].n # att'.id
  <2>1. thread'[i].n = thread[i].n /\ thread[i].n <= prompts /\ thread[i].n \in Nat
    BY <1>2, <1>5, MessageFacts DEF SamePrompts, AgentInv, PromptInv, PromptsOrdered, Prompted, Positions
  <2>2. QED
    BY <1>1, <1>3, <1>5, <2>1
<1>6. Unsent' => ~a.pendingOnly
  BY <1>3 DEF Unsent
<1>7. QED
  BY <1>1, <1>2, <1>3, <1>4, <1>5, <1>6 DEF PromptInv

(* The graph gets its input: the prompt, or nothing on a fallback retry. *)
LEMMA PromptKeepsPrompt ==
  ASSUME AgentInv, Prompt
  PROVE  PromptInv'
<1>0. /\ TypeOK /\ att \in Attempts /\ drv \in Drivers /\ prompts \in Nat
      /\ pc = "prompt" /\ ~att.pendingOnly /\ ~drv.resumes /\ att.id = prompts
      /\ pc' = "patch" /\ UNCHANGED <<att, drv, prompts>>
  BY DEF AgentInv, TypeOK, PromptInv, Prompt, counters
<1>1. CASE att.resume
  <2>1. UNCHANGED thread
    BY <1>1 DEF Prompt
  <2>2. ~Unsent' /\ Delivered
    BY <1>0, <1>1 DEF Unsent, Delivered
  <2>3. QED
    BY <1>0, <2>1, <2>2, UnchangedKeepsPrompts, InsideKeepsPrompt
<1>2. CASE ~att.resume
  <2> DEFINE m == Msg(IF att.sent THEN "image" ELSE "human", att.id)
  <2>1. /\ m \in Messages /\ m.n = prompts /\ m.k \in {"human", "image"}
        /\ att.sent => m.k = "image"
    BY <1>0 DEF Msg, Messages, Kinds, Attempts
  <2>2. thread' = Append(thread, m)
    BY <1>2 DEF Prompt
  <2> HIDE DEF m
  <2>3. /\ DOMAIN thread = 1 .. Len(thread) /\ Len(thread) \in Nat
        /\ DOMAIN thread' = 1 .. (Len(thread) + 1)
        /\ thread'[Len(thread) + 1] = m
        /\ \A i \in 1 .. Len(thread) : thread'[i] = thread[i]
    BY <1>0, <2>1, <2>2, AppendFacts DEF TypeOK
  <2>4. /\ Prompted \subseteq 1 .. Len(thread)
        /\ Prompted' = Prompted \cup {Len(thread) + 1}
        /\ \A i \in Prompted : thread'[i] = thread[i]
    BY <2>1, <2>3 DEF Prompted, Positions
  <2>5. \A i \in Prompted : /\ thread[i].n \in Nat /\ thread[i].n <= prompts
                            /\ thread[i].n # prompts
    <3>1. Unsent
      BY <1>0, <1>2 DEF Unsent
    <3>2. \A i \in Prompted : thread[i].n <= prompts /\ thread[i].n # att.id
      BY <3>1 DEF AgentInv, PromptInv, PromptsOrdered
    <3>3. QED
      BY <1>0, <2>3, <2>4, <3>2, MessageFacts
  <2>6. \A i \in Prompted : thread'[i].n < prompts
    BY <1>0, <2>4, <2>5
  <2>7. \A i, j \in Prompted' : i < j => thread'[i].n < thread'[j].n
    <3> SUFFICES ASSUME NEW i \in Prompted', NEW j \in Prompted', i < j
                 PROVE  thread'[i].n < thread'[j].n
      OBVIOUS
    <3>1. CASE j = Len(thread) + 1
      <4>1. i \in Prompted
        BY <2>3, <2>4, <3>1
      <4>2. thread'[i].n < prompts /\ thread'[j].n = prompts
        BY <2>1, <2>3, <2>6, <3>1, <4>1
      <4>3. QED
        BY <4>2
    <3>2. CASE j \in Prompted
      <4>1. i \in Prompted
        BY <2>3, <2>4, <3>2
      <4>2. QED
        BY <2>4, <3>2, <4>1 DEF AgentInv, PromptInv, PromptsOrdered
    <3>3. QED
      BY <2>4, <3>1, <3>2
  <2>a. \A i \in Prompted' : thread'[i].n <= prompts'
    <3>1. \A i \in Prompted : thread'[i].n <= prompts
      BY <1>0, <2>4, <2>5
    <3>2. thread'[Len(thread) + 1].n <= prompts
      BY <1>0, <2>1, <2>3
    <3>3. QED
      BY <1>0, <2>4, <3>1, <3>2
  <2>8. PromptsOrdered'
    BY <2>7, <2>a DEF PromptsOrdered
  <2>9. ~Unsent'
    BY <1>0 DEF Unsent, Streaming
  <2>10. \E i \in Prompted' : thread'[i].n = att'.id /\ (att'.sent => thread'[i].k = "image")
    BY <1>0, <2>1, <2>3, <2>4
  <2>11. QED
    BY <1>0, <2>8, <2>9, <2>10 DEF PromptInv
<1>3. QED
  BY <1>1, <1>2

(* A refused image: the message is removed or no longer counts. *)
LEMMA RetryKeepsPrompt ==
  ASSUME AgentInv, NEW removed \in BOOLEAN, RetryTextOnly(removed)
  PROVE  PromptInv'
<1> DEFINE p == LastPrompt
<1>0. /\ TypeOK /\ att \in Attempts /\ prompts \in Nat /\ UNCHANGED prompts
      /\ pc = "policy" /\ pc' = "attempt"
      /\ att'.id = att.id /\ ~att'.resume /\ att'.pendingOnly = att.pendingOnly
  BY DEF AgentInv, TypeOK, RetryTextOnly, Attempts, counters
<1>1. /\ p \in 1 .. Len(thread) /\ p \in Prompted /\ thread[p].n = prompts
      /\ att.id = prompts /\ ~att.pendingOnly
  BY LastPromptFacts DEF RetryTextOnly
<1>2. /\ DOMAIN thread = 1 .. Len(thread) /\ Len(thread) \in Nat /\ thread \in Seq(Messages)
      /\ \A i \in Prompted : thread[i].n \in Nat
      /\ Prompted \subseteq 1 .. Len(thread)
  BY <1>0, MessageFacts DEF TypeOK, Prompted, Positions
<1>3. /\ \A i, j \in Prompted : i < j => thread[i].n < thread[j].n
      /\ \A i \in Prompted : thread[i].n <= prompts
  BY DEF AgentInv, PromptInv, PromptsOrdered
<1>a. removed => thread' = [i \in 1 .. Len(thread) - 1 |-> thread[IF i < p THEN i ELSE i + 1]]
  BY DEF RetryTextOnly
<1>b. ~removed => thread' = [thread EXCEPT ![p].k = "refused"]
  BY DEF RetryTextOnly
<1> HIDE DEF p
<1>4. \A i \in Prompted : i < p \/ i = p
  BY <1>1, <1>2, <1>3
<1>5. \A i \in Prompted' : i \in Prompted /\ i < p /\ thread'[i] = thread[i]
  <2>1. CASE removed
    <3>1. /\ DOMAIN thread' = 1 .. (Len(thread) - 1)
          /\ \A i \in 1 .. (Len(thread) - 1) : thread'[i] = thread[IF i < p THEN i ELSE i + 1]
      BY <1>a, <1>1, <1>2, <2>1, RemoveFacts
    <3>2. SUFFICES ASSUME NEW i \in Prompted'
                   PROVE  i \in Prompted /\ i < p /\ thread'[i] = thread[i]
      OBVIOUS
    <3>3. i \in 1 .. (Len(thread) - 1) /\ thread'[i].k \in {"human", "image"}
      BY <3>1 DEF Prompted, Positions
    <3>4. CASE i < p
      <4>1. thread'[i] = thread[i] /\ i \in DOMAIN thread
        BY <1>1, <1>2, <3>1, <3>3, <3>4
      <4>2. QED
        BY <3>3, <3>4, <4>1 DEF Prompted, Positions
    <3>5. CASE ~(i < p)
      <4>1. thread'[i] = thread[i + 1] /\ i + 1 \in DOMAIN thread
        BY <1>1, <1>2, <3>1, <3>3, <3>5
      <4>2. i + 1 \in Prompted
        BY <3>3, <4>1 DEF Prompted, Positions
      <4>3. QED
        BY <1>1, <1>2, <1>4, <3>3, <3>5, <4>2
    <3>6. QED
      BY <3>4, <3>5
  <2>2. CASE ~removed
    <3>1. /\ DOMAIN thread' = 1 .. Len(thread) /\ thread'[p].k = "refused"
          /\ \A i \in 1 .. Len(thread) : i # p => thread'[i] = thread[i]
      BY <1>b, <1>1, <1>2, <2>2, MarkFacts
    <3>2. SUFFICES ASSUME NEW i \in Prompted'
                   PROVE  i \in Prompted /\ i < p /\ thread'[i] = thread[i]
      OBVIOUS
    <3>3. i \in 1 .. Len(thread) /\ thread'[i].k \in {"human", "image"}
      BY <3>1 DEF Prompted, Positions
    <3>4. i # p /\ thread'[i] = thread[i]
      BY <3>1, <3>3
    <3>5. i \in Prompted
      BY <1>2, <3>3, <3>4 DEF Prompted, Positions
    <3>6. QED
      BY <1>4, <3>4, <3>5
  <2>3. QED
    BY <2>1, <2>2
<1>6. PromptsOrdered'
  BY <1>0, <1>3, <1>5 DEF PromptsOrdered
<1>7. \A i \in Prompted' : thread'[i].n # att'.id
  <2>1. SUFFICES ASSUME NEW i \in Prompted'
                 PROVE  thread'[i].n # att'.id
    OBVIOUS
  <2>2. i \in Prompted /\ i < p /\ thread'[i] = thread[i]
    BY <1>5
  <2>3. thread[i].n < thread[p].n /\ thread[i].n \in Nat
    BY <1>1, <1>2, <1>3, <2>2
  <2>4. QED
    BY <1>0, <1>1, <2>2, <2>3
<1>8. ~Delivered'
  BY <1>0 DEF Delivered, Streaming
<1>9. QED
  BY <1>0, <1>1, <1>6, <1>7, <1>8 DEF PromptInv

LEMMA NextPrompt ==
  ASSUME AgentInv, [Next]_vars
  PROVE  PromptInv'
<1>0. /\ TypeOK /\ att \in Attempts /\ drv \in Drivers /\ prompts \in Nat
      /\ pc # "idle" /\ ~att.pendingOnly => att.id = prompts
      /\ pc # "idle" /\ att.pendingOnly => att.id = 0 /\ ~att.image /\ ~att.sent
      /\ pc \in {"inspect", "prompt", "patch"} => ~drv.resumes
      /\ pc \in {"prompt", "patch"} => ~att.pendingOnly
      /\ pc = "after" => drv.resumes /\ ~att.resume /\ ~att.pendingOnly
  BY DEF AgentInv, TypeOK, PromptInv
<1>b. \A n \in 0 .. MaxPrompts, b \in BOOLEAN :
        /\ [NoAttempt EXCEPT !.image = b, !.id = n] \in Attempts
        /\ [NoAttempt EXCEPT !.id = n] \in Attempts
  BY Fresh DEF Attempts, NoAttempt
<1>1. ASSUME NEW image \in BOOLEAN, SubmitLine(image) PROVE PromptInv'
  <2>1. prompts + 1 \in 0 .. MaxPrompts /\ prompts' = prompts + 1
    BY <1>0, <1>1, TurnAssumption DEF SubmitLine
  <2> DEFINE a == [NoAttempt EXCEPT !.image = image, !.id = prompts + 1]
  <2>2. a \in Attempts /\ Begin(a) /\ a.id = prompts + 1 /\ ~a.resume /\ ~a.pendingOnly
    BY <1>b, <1>1, <2>1 DEF SubmitLine, NoAttempt
  <2> HIDE DEF a
  <2>3. QED
    BY <2>1, <2>2, BeginKeepsPrompt
<1>2. ASSUME RunLeftover \/ RunFollowup PROVE PromptInv'
  <2>1. prompts + 1 \in 0 .. MaxPrompts /\ prompts' = prompts + 1
    BY <1>0, <1>2, TurnAssumption DEF RunLeftover, RunFollowup
  <2> DEFINE a == [NoAttempt EXCEPT !.id = prompts + 1]
  <2>2. a \in Attempts /\ Begin(a) /\ a.id = prompts + 1 /\ ~a.resume /\ ~a.pendingOnly
    BY <1>b, <1>2, <2>1 DEF RunLeftover, RunFollowup, NoAttempt
  <2> HIDE DEF a
  <2>3. QED
    BY <2>1, <2>2, BeginKeepsPrompt
<1>3. ASSUME ResumeParked PROVE PromptInv'
  <2> DEFINE a == [NoAttempt EXCEPT !.pendingOnly = TRUE]
  <2>1. /\ a \in Attempts /\ Begin(a) /\ a.id = 0 /\ ~a.resume /\ a.pendingOnly
        /\ ~a.image /\ ~a.sent /\ prompts' = prompts
    BY <1>0, <1>3, Fresh DEF ResumeParked, NoAttempt, Attempts
  <2> HIDE DEF a
  <2>2. QED
    BY <2>1, BeginKeepsPrompt
<1>4. ASSUME Attempt PROVE PromptInv'
  <2>1. CASE ShouldStop(spent)
    BY <1>4, <2>1, EndKeepsPrompt DEF Attempt, Outcomes, counters
  <2>2. CASE ~ShouldStop(spent)
    <3> DEFINE goes == att.image /\ ~att.resume /\ ~imagesOff
    <3>a. /\ att' = [att EXCEPT !.produced = FALSE, !.error = None, !.sent = goes]
          /\ pc = "attempt" /\ pc' = "inspect" /\ drv' = NewDriver(chain)
          /\ UNCHANGED <<thread, prompts>>
      BY <1>4, <2>2 DEF Attempt, counters
    <3>b. goes => att.image /\ ~att.resume
      OBVIOUS
    <3> HIDE DEF goes
    <3>1. /\ att'.id = att.id /\ att'.pendingOnly = att.pendingOnly /\ att'.image = att.image
          /\ att'.resume = att.resume /\ att'.sent = goes /\ ~drv'.resumes
      BY <1>0, <3>a DEF Attempts, NewDriver
    <3>2. Unsent' => Unsent
      BY <3>1, <3>a DEF Unsent
    <3>3. Delivered' => Delivered /\ ~att'.sent
      BY <3>1, <3>a, <3>b DEF Delivered, Streaming
    <3>4. QED
      BY <1>0, <3>1, <3>a, <3>b, <3>2, <3>3, UnchangedKeepsPrompts, InsideKeepsPrompt
  <2>3. QED
    BY <2>1, <2>2
<1>5. ASSUME Inspect PROVE PromptInv'
  <2>1. /\ pc = "inspect" /\ UNCHANGED <<thread, prompts>>
        /\ att'.id = att.id /\ att'.pendingOnly = att.pendingOnly /\ att'.image = att.image
        /\ att'.resume = att.resume /\ att'.sent = att.sent
        /\ \/ pc' = "policy" /\ att'.error = "fatal"
           \/ pc' = "gate" /\ drv'.resumes
           \/ pc' = "policy" /\ att.pendingOnly
           \/ pc' = "prompt" /\ ~att.pendingOnly /\ drv' = drv
    BY <1>0, <1>5 DEF Inspect, Fails, Attempts, Drivers, counters
  <2>2. Unsent' => Unsent
    BY <2>1 DEF Unsent, Streaming
  <2>3. Delivered' => Delivered
    BY <2>1 DEF Delivered, Streaming
  <2>4. QED
    BY <1>0, <2>1, <2>2, <2>3, UnchangedKeepsPrompts, InsideKeepsPrompt
<1>7. ASSUME NEW e \in {"retryable", "auth", "image", "fatal"}, NEW shown \in BOOLEAN,
             NEW took \in BOOLEAN, ModelFails(e, shown, took)
      PROVE  PromptInv'
  <2>1. /\ pc = "stream" /\ pc' = Over /\ UNCHANGED <<thread, prompts>>
        /\ att'.id = att.id /\ att'.pendingOnly = att.pendingOnly /\ att'.image = att.image
        /\ att'.resume = att.resume /\ att'.sent = att.sent /\ drv'.resumes = drv.resumes
    BY <1>0, <1>7 DEF ModelFails, Attempts, Drivers, counters
  <2>2. pc' # "idle" /\ (Unsent' => Unsent) /\ (Delivered' => Delivered)
    BY <2>1 DEF Unsent, Delivered, Streaming, Over
  <2>3. QED
    BY <1>0, <2>1, <2>2, UnchangedKeepsPrompts, InsideKeepsPrompt DEF Over
<1>8. ASSUME NEW u \in Usages, NEW k \in {"calls", "text"}, NEW kept \in {"none", "new", "asked"},
             ModelOverBudget(u, k, kept)
      PROVE  PromptInv'
  <2>1. /\ pc = "stream" /\ pc' = Over /\ prompts' = prompts
        /\ att'.id = att.id /\ att'.pendingOnly = att.pendingOnly /\ att'.image = att.image
        /\ att'.resume = att.resume /\ att'.sent = att.sent /\ drv'.resumes = drv.resumes
    BY <1>0, <1>8 DEF ModelOverBudget, Attempts, Drivers, counters
  <2>2. pc' # "idle" /\ (Unsent' => Unsent) /\ (Delivered' => Delivered)
    BY <2>1 DEF Unsent, Delivered, Streaming, Over
  <2>3. SamePrompts
    BY <1>0, <1>8, UnchangedKeepsPrompts, AppendKeepsPrompts DEF ModelOverBudget, Kinds
  <2>4. QED
    BY <1>0, <2>1, <2>2, <2>3, InsideKeepsPrompt DEF Over
<1>9. ASSUME NEW u \in Usages, NEW k \in {"calls", "text"}, ModelReplies(u, k)
      PROVE  PromptInv'
  <2>1. /\ pc = "stream" /\ pc' \in {"stream", "verify"} /\ prompts' = prompts
        /\ att'.id = att.id /\ att'.pendingOnly = att.pendingOnly /\ att'.image = att.image
        /\ att'.resume = att.resume /\ att'.sent = att.sent /\ drv'.resumes = drv.resumes
    BY <1>0, <1>9 DEF ModelReplies, Attempts, Drivers
  <2>2. (Unsent' => Unsent) /\ (Delivered' => Delivered)
    BY <2>1 DEF Unsent, Delivered, Streaming
  <2>3. SamePrompts
    BY <1>0, <1>9, AppendKeepsPrompts DEF ModelReplies, Kinds
  <2>4. QED
    BY <1>0, <2>1, <2>2, <2>3, InsideKeepsPrompt
<1>10. ASSUME NEW u \in Usages, NEW k \in {"calls", "text"}, NEW lagging \in BOOLEAN,
              ModelSteered(u, k, lagging)
       PROVE  PromptInv'
  <2>1. /\ pc = "stream" /\ pc' = "stream" /\ prompts' = prompts
        /\ att'.id = att.id /\ att'.pendingOnly = att.pendingOnly /\ att'.image = att.image
        /\ att'.resume = att.resume /\ att'.sent = att.sent /\ drv'.resumes = drv.resumes
    BY <1>0, <1>10 DEF ModelSteered, Attempts, Drivers
  <2>2. (Unsent' => Unsent) /\ (Delivered' => Delivered)
    BY <2>1 DEF Unsent, Delivered, Streaming
  <2>3. SamePrompts
    BY <1>0, <1>10, AppendKeepsPrompts, DropKeepsPrompts DEF ModelSteered, SteerSettled, Kinds
  <2>4. QED
    BY <1>0, <2>1, <2>2, <2>3, InsideKeepsPrompt
<1>p. ASSUME PatchCalls PROVE PromptInv'
  <2>1. pc = "patch" /\ pc' = "stream" /\ UNCHANGED <<att, drv, prompts>>
    BY <1>p DEF PatchCalls, counters
  <2>2. (Unsent' => Unsent) /\ (Delivered' => Delivered)
    BY <2>1 DEF Unsent, Delivered, Streaming
  <2>3. QED
    BY <1>0, <1>p, <2>1, <2>2, PatchKeepsPrompts, InsideKeepsPrompt
<1>q. ASSUME PatchSteered PROVE PromptInv'
  <2>1. /\ pc = "patch" /\ pc' = "patch" /\ prompts' = prompts
        /\ att'.id = att.id /\ att'.pendingOnly = att.pendingOnly /\ att'.image = att.image
        /\ att'.resume = att.resume /\ att'.sent = att.sent /\ drv'.resumes = drv.resumes
    BY <1>0, <1>q DEF PatchSteered, Attempts, Drivers, counters
  <2>2. (Unsent' => Unsent) /\ (Delivered' => Delivered)
    BY <2>1 DEF Unsent, Delivered, Streaming
  <2>3. SamePrompts
    BY <1>0, <1>q, UnchangedKeepsPrompts, AppendKeepsPrompts DEF PatchSteered, Kinds
  <2>4. QED
    BY <1>0, <2>1, <2>2, <2>3, InsideKeepsPrompt
<1>11. ASSUME NEW took \in BOOLEAN, Interrupted(took) PROVE PromptInv'
  <2>1. /\ pc = "stream" /\ pc' = "gate" /\ drv'.resumes = drv.resumes
        /\ UNCHANGED <<att, thread, prompts>>
    BY <1>0, <1>11 DEF Interrupted, Drivers, counters
  <2>2. (Unsent' => Unsent) /\ (Delivered' => Delivered)
    BY <2>1 DEF Unsent, Delivered, Streaming
  <2>3. QED
    BY <1>0, <2>1, <2>2, UnchangedKeepsPrompts, InsideKeepsPrompt
<1>a. ASSUME NEW shown \in BOOLEAN, Approve(shown) PROVE PromptInv'
  <2>1. /\ pc = "gate" /\ pc' = "stream" /\ UNCHANGED <<drv, thread, prompts>>
        /\ att'.id = att.id /\ att'.pendingOnly = att.pendingOnly /\ att'.image = att.image
        /\ att'.resume = att.resume /\ att'.sent = att.sent /\ drv'.resumes = drv.resumes
    BY <1>0, <1>a DEF Approve, Attempts, counters
  <2>2. (Unsent' => Unsent) /\ (Delivered' => Delivered)
    BY <2>1 DEF Unsent, Delivered, Streaming
  <2>3. QED
    BY <1>0, <2>1, <2>2, UnchangedKeepsPrompts, InsideKeepsPrompt
<1>r. ASSUME NEW took \in BOOLEAN, Reject(took) PROVE PromptInv'
  <2>1. /\ pc = "gate" /\ pc' = "stream" /\ prompts' = prompts
        /\ att'.id = att.id /\ att'.pendingOnly = att.pendingOnly /\ att'.image = att.image
        /\ att'.resume = att.resume /\ att'.sent = att.sent /\ drv'.resumes = drv.resumes
    BY <1>0, <1>r DEF Reject, Attempts, Drivers, counters
  <2>2. (Unsent' => Unsent) /\ (Delivered' => Delivered)
    BY <2>1 DEF Unsent, Delivered, Streaming
  <2>3. SamePrompts
    BY <1>0, <1>r, AppendKeepsPrompts DEF Reject, Kinds
  <2>4. QED
    BY <1>0, <2>1, <2>2, <2>3, InsideKeepsPrompt
<1>s. ASSUME Steer PROVE PromptInv'
  <2>1. pc # "idle" /\ UNCHANGED <<pc, att, drv, thread, prompts>>
    BY <1>s DEF Steer
  <2>2. (Unsent' => Unsent) /\ (Delivered' => Delivered)
    BY <2>1 DEF Unsent, Delivered, Streaming
  <2>3. QED
    BY <1>0, <2>1, <2>2, UnchangedKeepsPrompts, InsideKeepsPrompt
<1>12. ASSUME NEW edit \in BOOLEAN, NEW took \in BOOLEAN, RunTools(edit, took) PROVE PromptInv'
  <2>1. /\ pc = "stream" /\ pc' = "stream" /\ prompts' = prompts
        /\ att'.id = att.id /\ att'.pendingOnly = att.pendingOnly /\ att'.image = att.image
        /\ att'.resume = att.resume /\ att'.sent = att.sent /\ drv'.resumes = drv.resumes
    BY <1>0, <1>12 DEF RunTools, Attempts, Drivers, counters
  <2>2. (Unsent' => Unsent) /\ (Delivered' => Delivered)
    BY <2>1 DEF Unsent, Delivered, Streaming
  <2>3. SamePrompts
    BY <1>0, <1>12, AppendKeepsPrompts DEF RunTools, Kinds
  <2>4. QED
    BY <1>0, <2>1, <2>2, <2>3, InsideKeepsPrompt
<1>13. ASSUME Park \/ Cancel \/ GiveUp \/ Succeed PROVE PromptInv'
  <2>1. UNCHANGED <<thread, prompts>> /\ pc # "idle"
    BY <1>13 DEF Park, Cancel, GiveUp, Succeed, counters
  <2>2. \E how \in Outcomes : End(how) /\ (how = "done" => pc = "policy" /\ att.error = None)
    BY <1>13 DEF Park, Cancel, GiveUp, Succeed, Outcomes
  <2>3. QED
    BY <2>1, <2>2, EndKeepsPrompt
<1>14. ASSUME VerifyPasses PROVE PromptInv'
  <2>1. pc = "verify" /\ drv'.resumes = drv.resumes /\ UNCHANGED <<pc, att, thread, prompts>>
    BY <1>0, <1>14 DEF VerifyPasses, Drivers, counters
  <2>2. (Unsent' => Unsent) /\ (Delivered' => Delivered)
    BY <2>1 DEF Unsent, Delivered, Streaming
  <2>3. QED
    BY <1>0, <2>1, <2>2, UnchangedKeepsPrompts, InsideKeepsPrompt
<1>15. ASSUME NEW b \in BOOLEAN, VerifyFails(b) PROVE PromptInv'
  <2>1. /\ pc = "verify" /\ pc' \in {"stream", Over} /\ prompts' = prompts
        /\ att'.id = att.id /\ att'.pendingOnly = att.pendingOnly /\ att'.image = att.image
        /\ att'.resume = att.resume /\ att'.sent = att.sent /\ drv'.resumes = drv.resumes
    BY <1>0, <1>15 DEF VerifyFails, Fails, Attempts, Drivers, counters
  <2>2. pc' # "idle" /\ (Unsent' => Unsent) /\ (Delivered' => Delivered)
    BY <2>1 DEF Unsent, Delivered, Streaming, Over
  <2>3. SamePrompts
    BY <1>0, <1>15, UnchangedKeepsPrompts, AppendKeepsPrompts DEF VerifyFails, Kinds
  <2>4. QED
    BY <1>0, <2>1, <2>2, <2>3, InsideKeepsPrompt DEF Over
<1>16. ASSUME NEW b \in BOOLEAN, Done(b) PROVE PromptInv'
  <2>1. pc = "verify" /\ pc' = Over /\ UNCHANGED <<att, drv, thread, prompts>>
    BY <1>16 DEF Done, counters
  <2>2. pc' # "idle" /\ (Unsent' => Unsent) /\ (Delivered' => Delivered)
    BY <2>1 DEF Unsent, Delivered, Streaming, Over
  <2>3. QED
    BY <1>0, <2>1, <2>2, UnchangedKeepsPrompts, InsideKeepsPrompt DEF Over
<1>18. ASSUME NEW b \in BOOLEAN, RetryOnFallback(b) PROVE PromptInv'
  <2>1. CASE b
    <3>1. /\ pc = "policy" /\ pc' = "attempt" /\ UNCHANGED <<drv, thread, prompts>>
          /\ att.error \in {"retryable", "auth"}
          /\ att'.id = att.id /\ att'.pendingOnly = att.pendingOnly /\ att'.image = att.image
          /\ att'.resume /\ att'.sent = att.sent
      BY <1>0, <1>18, <2>1 DEF RetryOnFallback, ResumesRetry, NextCandidates, Attempts, counters
    <3>2. ~Unsent' /\ (Delivered' => Delivered)
      BY <3>1 DEF Unsent, Delivered
    <3>3. QED
      BY <1>0, <3>1, <3>2, UnchangedKeepsPrompts, InsideKeepsPrompt
  <2>2. CASE ~b
    BY <1>18, <2>2, EndKeepsPrompt DEF RetryOnFallback, Outcomes, counters
  <2>3. QED
    BY <2>1, <2>2
<1>19. ASSUME After PROVE PromptInv'
  <2>1. /\ pc = "after" /\ UNCHANGED <<thread, prompts>>
        /\ att'.id = att.id /\ att'.pendingOnly = att.pendingOnly /\ att'.image = att.image
        /\ att'.resume = att.resume /\ att'.sent = att.sent
        /\ \/ pc' = "policy" /\ att'.error = "fatal"
           \/ pc' = "prompt" /\ ~drv'.resumes
    BY <1>0, <1>19 DEF After, Fails, NewDriver, Attempts, Drivers, counters
  <2>2. (Unsent' => Unsent) /\ ~Delivered'
    BY <1>0, <2>1 DEF Unsent, Delivered, Streaming
  <2>3. QED
    BY <1>0, <2>1, <2>2, UnchangedKeepsPrompts, InsideKeepsPrompt
<1>20. CASE UNCHANGED vars
  BY <1>20 DEF vars, AgentInv, PromptInv, PromptsOrdered, Unsent, Delivered, Streaming, Prompted, Positions, counters

<1>6. ASSUME Prompt PROVE PromptInv'
  BY <1>6, PromptKeepsPrompt
<1>17. ASSUME NEW b \in BOOLEAN, RetryTextOnly(b) PROVE PromptInv'
  BY <1>17, RetryKeepsPrompt
<1>21. QED
  BY <1>1, <1>2, <1>3, <1>4, <1>5, <1>6, <1>p, <1>q, <1>7, <1>8, <1>9, <1>10, <1>11, <1>a, <1>r,
     <1>s, <1>12, <1>13, <1>14, <1>15, <1>16, <1>17, <1>18, <1>19, <1>20
  DEF Next, TurnStep, ModelStep

-----------------------------------------------------------------------------
(* Tool calls and their results. *)

\* What may come behind a call
Followed ==
  \A i \in DOMAIN thread :
    (thread[i].k = "calls" /\ i < Len(thread)) => thread[i + 1].k \in {"result", "human", "image"}

LEMMA LastMessage ==
  ASSUME TypeOK
  PROVE  Unsettled <=> Len(thread) \in DOMAIN thread /\ thread[Len(thread)].k = "calls"
<1>1. thread \in Seq(Messages) /\ Len(thread) \in Nat /\ DOMAIN thread = 1 .. Len(thread)
  BY DEF TypeOK
<1>2. thread # <<>> <=> Len(thread) # 0
  BY <1>1, EmptySeq
<1>3. QED
  BY <1>1, <1>2 DEF Unsettled, Ends

(* The parts of ThreadInv *)
LEMMA ThreadParts ==
  ASSUME TypeOK', Followed', ResultsFollow', Unsettled' <=> call' # "none",
         pc' = "gate" => Pending', pc' = "prompt" => ~Pending',
         pc' \in {"stream", "gate", "verify", "after"} \/ call' # "none" => Answered',
         pc' = "policy" /\ att'.error = "image" => Answered',
         pc' = "inspect" => att'.error = None,
         pc' = "verify" => call' = "none"
  PROVE  ThreadInv'
<1>1. /\ Len(thread') \in Nat /\ DOMAIN thread' = 1 .. Len(thread')
  BY DEF TypeOK
<1>2. Unsettled' <=> Len(thread') \in DOMAIN thread' /\ thread'[Len(thread')].k = "calls"
  <2>1. thread' \in Seq(Messages)
    BY DEF TypeOK
  <2>2. thread' # <<>> <=> Len(thread') # 0
    BY <2>1, EmptySeq
  <2>3. QED
    BY <1>1, <2>2 DEF Unsettled, Ends
<1>3. ASSUME pc' = "stream", call' = "none", NEW i \in DOMAIN thread'
      PROVE  ~Open(i)'
  <2>1. Answered' /\ ~Unsettled'
    BY <1>3
  <2>2. CASE i < Len(thread')
    BY <2>1, <2>2 DEF Answered
  <2>3. CASE i = Len(thread')
    BY <1>1, <1>2, <2>1, <2>3 DEF Open
  <2>4. QED
    BY <1>1, <2>2, <2>3
<1>4. CallsAnswered'
  BY <1>3 DEF CallsAnswered, Followed
<1>5. QED
  BY <1>4 DEF ThreadInv

LEMMA AppendCalls ==
  ASSUME TypeOK, Followed, ResultsFollow, NEW m \in Messages, thread' = Append(thread, m),
         m.k = "result" => Unsettled,
         Unsettled => m.k \in {"result", "human", "image"}
  PROVE  /\ Followed' /\ ResultsFollow' /\ (Unsettled' <=> m.k = "calls")
         /\ Answered /\ (Unsettled => m.k = "result") => Answered'
<1>1. /\ DOMAIN thread = 1 .. Len(thread) /\ Len(thread) \in Nat
      /\ DOMAIN thread' = 1 .. (Len(thread) + 1) /\ Len(thread') = Len(thread) + 1
      /\ thread'[Len(thread) + 1] = m
      /\ \A i \in 1 .. Len(thread) : thread'[i] = thread[i]
  BY AppendFacts DEF TypeOK
<1>2. Unsettled' <=> m.k = "calls"
  BY <1>1 DEF Unsettled, Ends
<1>u. Unsettled <=> Len(thread) \in DOMAIN thread /\ thread[Len(thread)].k = "calls"
  BY LastMessage
<1>3. ASSUME NEW i \in DOMAIN thread', thread'[i].k = "calls", i < Len(thread')
      PROVE  thread'[i + 1].k \in {"result", "human", "image"}
  <2>1. i \in 1 .. Len(thread) /\ thread[i].k = "calls"
    BY <1>1, <1>3
  <2>2. CASE i = Len(thread)
    BY <1>1, <1>u, <2>1, <2>2
  <2>3. CASE i < Len(thread)
    BY <1>1, <2>1, <2>3 DEF Followed
  <2>4. QED
    BY <1>1, <2>1, <2>2, <2>3
<1>4. ASSUME NEW i \in Positions("result")' PROVE i > 1 /\ thread'[i - 1].k = "calls"
  <2>1. i \in 1 .. (Len(thread) + 1) /\ thread'[i].k = "result"
    BY <1>1 DEF Positions
  <2>2. CASE i = Len(thread) + 1
    <3>1. Len(thread) \in 1 .. Len(thread) /\ thread[Len(thread)].k = "calls"
      BY <1>1, <1>u, <2>1, <2>2
    <3>2. i > 1 /\ i - 1 = Len(thread)
      BY <1>1, <2>2, <3>1
    <3>3. QED
      BY <1>1, <3>1, <3>2
  <2>3. CASE i \in 1 .. Len(thread)
    <3>1. i \in Positions("result")
      BY <1>1, <2>1, <2>3 DEF Positions
    <3>2. i > 1 /\ thread[i - 1].k = "calls"
      BY <3>1 DEF ResultsFollow
    <3>3. QED
      BY <1>1, <2>3, <3>2
  <2>4. QED
    BY <1>1, <2>1, <2>2, <2>3
<1>5. ASSUME Answered, Unsettled => m.k = "result", NEW i \in DOMAIN thread', i < Len(thread')
      PROVE  ~Open(i)'
  <2>1. i \in 1 .. Len(thread) /\ thread'[i] = thread[i]
    BY <1>1, <1>5
  <2>2. CASE i = Len(thread)
    BY <1>1, <1>5, <1>u, <2>1, <2>2 DEF Open
  <2>3. CASE i < Len(thread)
    <3>1. ~Open(i)
      BY <1>1, <1>5, <2>1, <2>3 DEF Answered
    <3>2. thread'[i + 1] = thread[i + 1]
      BY <1>1, <2>1, <2>3
    <3>3. QED
      BY <1>1, <2>1, <2>3, <3>1, <3>2 DEF Open
  <2>4. QED
    BY <1>1, <2>1, <2>2, <2>3
<1>6. QED
  BY <1>2, <1>3, <1>4, <1>5 DEF Followed, ResultsFollow, Answered

LEMMA DropCalls ==
  ASSUME TypeOK, Followed, ResultsFollow, Answered, Ends("result"),
         thread' = SubSeq(thread, 1, Len(thread) - 1)
  PROVE  Followed' /\ ResultsFollow' /\ Unsettled' /\ Answered'
<1>1. /\ DOMAIN thread = 1 .. Len(thread) /\ Len(thread) \in Nat \ {0}
      /\ DOMAIN thread' = 1 .. (Len(thread) - 1) /\ Len(thread') = Len(thread) - 1
      /\ \A i \in 1 .. (Len(thread) - 1) : thread'[i] = thread[i]
      /\ thread' \in Seq(Messages)
  BY DropFacts DEF TypeOK, Ends
<1>2. Len(thread) > 1 /\ thread[Len(thread) - 1].k = "calls"
  <2>1. Len(thread) \in Positions("result")
    BY <1>1 DEF Ends, Positions
  <2>2. QED
    BY <2>1 DEF ResultsFollow
<1>3. Unsettled'
  <2>1. Len(thread') \in 1 .. (Len(thread) - 1) /\ thread'[Len(thread')].k = "calls"
    BY <1>1, <1>2
  <2>2. thread' # <<>>
    <3>1. Len(thread') # 0
      BY <1>1, <1>2
    <3>2. QED
      BY <1>1, <3>1, EmptySeq
  <2>3. QED
    BY <2>1, <2>2 DEF Unsettled, Ends
<1>4. ASSUME NEW i \in DOMAIN thread', i < Len(thread')
      PROVE  ~Open(i)' /\ (thread'[i].k = "calls" => thread'[i + 1].k = "result")
  <2>1. /\ i \in DOMAIN thread /\ i < Len(thread) /\ thread'[i] = thread[i]
        /\ thread'[i + 1] = thread[i + 1]
    BY <1>1, <1>4
  <2>2. ~Open(i)
    BY <2>1 DEF Answered
  <2>3. QED
    BY <1>1, <1>4, <2>1, <2>2 DEF Open
<1>5. ASSUME NEW i \in Positions("result")' PROVE i > 1 /\ thread'[i - 1].k = "calls"
  <2>1. i \in 1 .. (Len(thread) - 1) /\ thread[i].k = "result" /\ i \in DOMAIN thread
    BY <1>1 DEF Positions
  <2>2. i > 1 /\ thread[i - 1].k = "calls"
    BY <2>1 DEF ResultsFollow, Positions
  <2>3. QED
    BY <1>1, <2>1, <2>2
<1>6. QED
  BY <1>3, <1>4, <1>5 DEF Followed, ResultsFollow, Answered

LEMMA PatchAnswers ==
  ASSUME TypeOK, Followed, ResultsFollow, PatchCalls
  PROVE  Followed' /\ ResultsFollow' /\ ~Unsettled' /\ Answered'
<1>1. /\ DOMAIN thread = 1 .. Len(thread) /\ Len(thread) \in Nat
      /\ Len(thread') = Len(thread) /\ DOMAIN thread' = 1 .. Len(thread)
      /\ \A i \in 1 .. Len(thread) : \/ Open(i) /\ thread[i].k = "calls" /\ thread'[i].k = "patched"
                                     \/ ~Open(i) /\ thread'[i] = thread[i]
  BY PatchFacts DEF PatchCalls
<1>2. ASSUME NEW i \in 1 .. Len(thread), thread'[i].k = "calls"
      PROVE  i < Len(thread) /\ thread'[i + 1].k = "result"
  <2>1. ~Open(i) /\ thread[i].k = "calls" /\ Len(thread) \in Nat
    BY <1>1, <1>2
  <2>a. i # Len(thread) /\ thread[i + 1].k = "result"
    BY <2>1 DEF Open
  <2>2. i < Len(thread) /\ thread[i + 1].k = "result"
    BY <2>1, <2>a
  <2>b. ~Open(i + 1)
    BY <2>2 DEF Open
  <2>3. i + 1 \in 1 .. Len(thread) /\ ~Open(i + 1)
    BY <2>1, <2>2, <2>b
  <2>4. QED
    BY <1>1, <2>2, <2>3
<1>3. ~Unsettled'
  BY <1>1, <1>2 DEF Unsettled, Ends
<1>4. ASSUME NEW i \in DOMAIN thread', i < Len(thread') PROVE ~Open(i)'
  BY <1>1, <1>2, <1>4 DEF Open
<1>5. ASSUME NEW i \in Positions("result")' PROVE i > 1 /\ thread'[i - 1].k = "calls"
  <2>1. i \in 1 .. Len(thread) /\ thread[i].k = "result" /\ i \in DOMAIN thread
    BY <1>1 DEF Positions
  <2>2. i > 1 /\ thread[i - 1].k = "calls"
    BY <2>1 DEF ResultsFollow, Positions
  <2>a. i - 1 # Len(thread) /\ (i - 1) + 1 = i
    BY <1>1, <2>1
  <2>b. ~Open(i - 1)
    BY <2>1, <2>a DEF Open
  <2>3. i - 1 \in 1 .. Len(thread) /\ ~Open(i - 1)
    BY <1>1, <2>1, <2>2, <2>b
  <2>4. QED
    BY <1>1, <2>2, <2>3
<1>6. Followed'
  BY <1>1, <1>2 DEF Followed
<1>7. QED
  BY <1>3, <1>4, <1>5, <1>6 DEF ResultsFollow, Answered

(* The removed image was no part of a call: all calls are answered then. *)
LEMMA RetryKeepsCalls ==
  ASSUME AgentInv, NEW removed \in BOOLEAN, RetryTextOnly(removed)
  PROVE  Followed' /\ ResultsFollow' /\ (Unsettled' <=> Unsettled) /\ Answered'
<1> DEFINE p == LastPrompt
<1>1. p \in 1 .. Len(thread) /\ thread[p].k = "image"
  BY LastPromptFacts DEF RetryTextOnly
<1>2. TypeOK /\ thread \in Seq(Messages) /\ Answered /\ ResultsFollow
  BY DEF AgentInv, TypeOK, ThreadInv, RetryTextOnly, RetriesTextOnly
<1>a. removed => thread' = [i \in 1 .. Len(thread) - 1 |-> thread[IF i < p THEN i ELSE i + 1]]
  BY DEF RetryTextOnly
<1>b. ~removed => thread' = [thread EXCEPT ![p].k = "refused"]
  BY DEF RetryTextOnly
<1>c. /\ DOMAIN thread = 1 .. Len(thread) /\ Len(thread) \in Nat
      /\ Unsettled <=> Len(thread) \in DOMAIN thread /\ thread[Len(thread)].k = "calls"
  BY <1>2, LastMessage
<1>d. \A i \in 1 .. Len(thread) : thread[i].k = "calls" /\ i < Len(thread) => thread[i + 1].k = "result"
  BY <1>2, <1>c DEF Answered, Open
<1>e. \A i \in 1 .. Len(thread) : thread[i].k = "result" => i > 1 /\ thread[i - 1].k = "calls"
  BY <1>2, <1>c DEF ResultsFollow, Positions
<1> HIDE DEF p
<1>3. CASE removed
  <2>1. /\ thread' \in Seq(Messages) /\ Len(thread) \in Nat \ {0}
        /\ DOMAIN thread' = 1 .. (Len(thread) - 1) /\ Len(thread') = Len(thread) - 1
        /\ \A i \in 1 .. (Len(thread) - 1) : thread'[i] = thread[IF i < p THEN i ELSE i + 1]
    BY <1>a, <1>1, <1>2, <1>3, RemoveFacts
  <2>2. ASSUME NEW i \in DOMAIN thread', thread'[i].k = "calls", i < Len(thread')
        PROVE  thread'[i + 1].k = "result"
    <3> DEFINE j == IF i < p THEN i ELSE i + 1
    <3>1. j \in 1 .. Len(thread) /\ j < Len(thread) /\ thread'[i] = thread[j]
      BY <1>1, <2>1, <2>2
    <3>2. thread[j + 1].k = "result"
      BY <1>d, <2>2, <3>1
    <3>3. j + 1 # p
      BY <1>1, <3>2
    <3>4. i + 1 \in 1 .. (Len(thread) - 1)
          /\ (IF i + 1 < p THEN i + 1 ELSE (i + 1) + 1) = j + 1
      BY <1>1, <2>1, <2>2, <3>3
    <3>5. thread'[i + 1] = thread[j + 1]
      BY <2>1, <3>4
    <3>6. QED
      BY <3>2, <3>5
  <2>3. ASSUME NEW i \in 1 .. (Len(thread) - 1), thread'[i].k = "result"
        PROVE  i > 1 /\ thread'[i - 1].k = "calls"
    <3> DEFINE j == IF i < p THEN i ELSE i + 1
    <3>1. j \in 1 .. Len(thread) /\ thread[j].k = "result"
      BY <1>1, <2>1, <2>3
    <3>2. j > 1 /\ thread[j - 1].k = "calls"
      BY <1>e, <3>1
    <3>3. j - 1 # p
      BY <1>1, <3>2
    <3>4. i > 1 /\ i - 1 \in 1 .. (Len(thread) - 1)
          /\ (IF i - 1 < p THEN i - 1 ELSE (i - 1) + 1) = j - 1
      BY <1>1, <2>1, <3>1, <3>2, <3>3
    <3>5. thread'[i - 1] = thread[j - 1]
      BY <2>1, <3>4
    <3>6. QED
      BY <3>2, <3>4, <3>5
  <2>4. Unsettled' <=> Unsettled
    <3>1. CASE p = Len(thread)
      <4>1. ~Unsettled
        BY <1>1, <1>c, <3>1
      <4>2. Len(thread) > 1 => thread[Len(thread) - 1].k # "calls"
        BY <1>1, <1>d, <2>1, <3>1
      <4>3. Len(thread) > 1 => thread'[Len(thread')] = thread[Len(thread) - 1]
        BY <2>1, <3>1
      <4>4. Len(thread) = 1 => thread' = <<>>
        BY <2>1, EmptySeq
      <4>5. QED
        BY <2>1, <4>1, <4>2, <4>3, <4>4 DEF Unsettled, Ends
    <3>2. CASE p < Len(thread)
      <4>1. thread'[Len(thread')] = thread[Len(thread)] /\ thread # <<>> /\ thread' # <<>>
        BY <1>1, <1>2, <2>1, <3>2
      <4>2. QED
        BY <4>1 DEF Unsettled, Ends
    <3>3. p = Len(thread) \/ p < Len(thread)
      BY <1>1, <2>1
    <3>4. QED
      BY <3>1, <3>2, <3>3
  <2>5. QED
    BY <2>1, <2>2, <2>3, <2>4 DEF Followed, Answered, Open, ResultsFollow, Positions
<1>4. CASE ~removed
  <2>a. thread' = [thread EXCEPT ![p].k = "refused"] /\ thread \in Seq(Messages)
    BY <1>b, <1>2, <1>4
  <2>1. /\ DOMAIN thread' = 1 .. Len(thread) /\ Len(thread') = Len(thread)
        /\ thread'[p].k = "refused"
        /\ \A i \in 1 .. Len(thread) : i # p => thread'[i] = thread[i]
    BY <1>1, <2>a, MarkFacts
  <2>2. ASSUME NEW i \in DOMAIN thread', thread'[i].k = "calls", i < Len(thread')
        PROVE  thread'[i + 1].k = "result"
    <3>1. i \in 1 .. Len(thread) /\ i < Len(thread) /\ thread[i].k = "calls"
      BY <2>1, <2>2
    <3>2. thread[i + 1].k = "result" /\ i + 1 \in 1 .. Len(thread)
      BY <1>c, <1>d, <3>1
    <3>3. QED
      BY <1>1, <2>1, <3>2
  <2>3. ASSUME NEW i \in 1 .. Len(thread), thread'[i].k = "result"
        PROVE  i > 1 /\ thread'[i - 1].k = "calls"
    <3>1. thread[i].k = "result"
      BY <2>1, <2>3
    <3>2. i > 1 /\ thread[i - 1].k = "calls" /\ i - 1 \in 1 .. Len(thread)
      BY <1>c, <1>e, <3>1
    <3>3. QED
      BY <1>1, <2>1, <3>2
  <2>4. Unsettled' <=> Unsettled
    <3>1. thread # <<>> /\ thread' # <<>>
      BY <1>1, <1>2, <2>1
    <3>2. thread'[Len(thread')].k = "calls" <=> thread[Len(thread)].k = "calls"
      BY <1>1, <1>c, <2>1
    <3>3. QED
      BY <3>1, <3>2 DEF Unsettled, Ends
  <2>5. QED
    BY <1>c, <2>1, <2>2, <2>3, <2>4 DEF Followed, Answered, Open, ResultsFollow, Positions
<1>5. QED
  BY <1>3, <1>4

LEMMA NextThread ==
  ASSUME AgentInv, [Next]_vars
  PROVE  ThreadInv'
<1>0. /\ TypeOK /\ Followed /\ ResultsFollow /\ (Unsettled <=> call # "none")
      /\ pc = "gate" => Pending
      /\ pc = "prompt" => ~Pending
      /\ pc \in {"stream", "gate", "verify", "after"} \/ call # "none" => Answered
      /\ pc = "policy" /\ att.error = "image" => Answered
      /\ pc = "inspect" => att.error = None
      /\ pc = "verify" => call = "none"
      /\ att \in Attempts
  BY DEF AgentInv, ThreadInv, CallsAnswered, Followed, TypeOK
<1>y. TypeOK'
  BY NextType
<1>n. None # "image"
  BY TurnAssumption DEF Errors
<1>t. UNCHANGED thread => /\ Followed' /\ ResultsFollow' /\ (Unsettled' <=> Unsettled)
                          /\ Answered => Answered'
  BY <1>0 DEF Followed, ResultsFollow, Unsettled, Ends, Answered, Open, Positions
<1>k. ASSUME NEW k \in Kinds, thread' = Append(thread, Tag(k)),
             k = "result" => Unsettled, Unsettled => k = "result"
      PROVE  /\ Followed' /\ ResultsFollow' /\ (Unsettled' <=> k = "calls")
             /\ Answered => Answered'
  BY <1>0, <1>k, Tags, AppendCalls
<1>b. ASSUME UNCHANGED <<thread, call>>, pc' = "attempt" PROVE ThreadInv'
  BY <1>0, <1>y, <1>t, <1>b, ThreadParts
<1>e. ASSUME UNCHANGED <<thread, call>>, pc' = "idle" PROVE ThreadInv'
  BY <1>0, <1>y, <1>t, <1>e, ThreadParts
<1>1. ASSUME NEW image \in BOOLEAN, SubmitLine(image) PROVE ThreadInv'
  BY <1>b, <1>1 DEF SubmitLine, Begin
<1>2. ASSUME RunLeftover \/ RunFollowup \/ ResumeParked PROVE ThreadInv'
  BY <1>b, <1>2 DEF RunLeftover, RunFollowup, ResumeParked, Begin
<1>3. ASSUME Attempt PROVE ThreadInv'
  <2>1. CASE ShouldStop(spent)
    BY <1>e, <1>3, <2>1 DEF Attempt, End
  <2>2. CASE ~ShouldStop(spent)
    <3> DEFINE sends == att.image /\ ~att.resume /\ ~imagesOff
    <3>1. /\ UNCHANGED <<thread, call>> /\ pc' = "inspect"
          /\ att' = [att EXCEPT !.produced = FALSE, !.error = None, !.sent = sends]
      BY <1>3, <2>2 DEF Attempt
    <3> HIDE DEF sends
    <3>2. att'.error = None
      BY <1>0, <3>1 DEF Attempts
    <3>3. QED
      BY <1>0, <1>y, <1>t, <3>1, <3>2, ThreadParts
  <2>3. QED
    BY <2>1, <2>2
<1>4. ASSUME Inspect PROVE ThreadInv'
  <2>1. /\ UNCHANGED <<thread, call>> /\ pc = "inspect"
        /\ \/ pc' = "policy" /\ att'.error \in {"fatal", None}
           \/ pc' = "gate" /\ Pending
           \/ pc' = "prompt" /\ ~Pending
    BY <1>0, <1>4 DEF Inspect, Fails, Attempts
  <2>2. (Pending' <=> Pending) /\ (Pending => call # "none")
    BY <2>1 DEF Pending
  <2>3. QED
    BY <1>0, <1>n, <1>y, <1>t, <2>1, <2>2, ThreadParts
<1>5. ASSUME Prompt PROVE ThreadInv'
  <2>1. pc = "prompt" /\ pc' = "patch"
    BY <1>5 DEF Prompt
  <2>2. CASE att.resume
    <3>1. UNCHANGED <<thread, call>>
      BY <1>5, <2>2 DEF Prompt
    <3>2. QED
      BY <1>0, <1>y, <1>t, <2>1, <3>1, ThreadParts
  <2>3. CASE ~att.resume
    <3> DEFINE m == Msg(IF att.sent THEN "image" ELSE "human", att.id)
    <3>1. m \in Messages /\ m.k \in {"human", "image"}
      BY <1>0 DEF Msg, Messages, Kinds, Attempts
    <3>2. thread' = Append(thread, m) /\ call' = "none"
      BY <1>5, <2>3 DEF Prompt
    <3> HIDE DEF m
    <3>3. Followed' /\ ResultsFollow' /\ ~Unsettled'
      BY <1>0, <3>1, <3>2, AppendCalls
    <3>4. QED
      BY <1>y, <2>1, <3>2, <3>3, ThreadParts
  <2>4. QED
    BY <2>2, <2>3
<1>p. ASSUME PatchCalls PROVE ThreadInv'
  <2>1. pc' = "stream" /\ call' = "none"
    BY <1>p DEF PatchCalls
  <2>2. QED
    BY <1>0, <1>p, <1>y, <2>1, PatchAnswers, ThreadParts
<1>q. ASSUME PatchSteered PROVE ThreadInv'
  <2>1. pc' = "patch" /\ call' = call /\ UNCHANGED <<call>>
    BY <1>q DEF PatchSteered
  <2>2. CASE Unsettled
    <3>1. UNCHANGED thread
      BY <1>q, <2>2 DEF PatchSteered
    <3>2. QED
      BY <1>0, <1>y, <1>t, <2>1, <3>1, ThreadParts
  <2>3. CASE ~Unsettled
    <3>1. thread' = Append(thread, Tag("steer"))
      BY <1>q, <2>3 DEF PatchSteered
    <3>2. QED
      BY <1>0, <1>y, <1>k, <2>1, <2>3, <3>1, ThreadParts DEF Kinds
  <2>4. QED
    BY <2>2, <2>3
<1>6. ASSUME NEW e \in {"retryable", "auth", "image", "fatal"}, NEW shown \in BOOLEAN,
             NEW took \in BOOLEAN, ModelFails(e, shown, took)
      PROVE  ThreadInv'
  <2>1. pc = "stream" /\ pc' \in {"after", "policy"} /\ UNCHANGED <<thread, call>>
    BY <1>6 DEF ModelFails, Over
  <2>2. QED
    BY <1>0, <1>y, <1>t, <2>1, ThreadParts
<1>7. ASSUME NEW u \in Usages, NEW k \in {"calls", "text"}, NEW kept \in {"none", "new", "asked"},
             ModelOverBudget(u, k, kept)
      PROVE  ThreadInv'
  <2>1. /\ pc = "stream" /\ pc' \in {"after", "policy"} /\ ~Unsettled
        /\ \/ kept = "none" /\ UNCHANGED thread
           \/ kept # "none" /\ thread' = Append(thread, Tag(k))
        /\ call' = IF k = "calls" THEN kept ELSE "none"
    BY <1>0, <1>7 DEF ModelOverBudget, Over
  <2>2. Followed' /\ ResultsFollow' /\ Answered' /\ (Unsettled' <=> call' # "none")
    BY <1>0, <1>t, <1>k, <2>1 DEF Kinds
  <2>3. QED
    BY <1>y, <2>1, <2>2, ThreadParts
<1>8. ASSUME NEW u \in Usages, NEW k \in {"calls", "text"}, ModelReplies(u, k)
      PROVE  ThreadInv'
  <2>1. /\ pc = "stream" /\ pc' = (IF k = "calls" THEN "stream" ELSE "verify") /\ ~Unsettled
        /\ thread' = Append(thread, Tag(k)) /\ call' = IF k = "calls" THEN "new" ELSE "none"
    BY <1>0, <1>8 DEF ModelReplies
  <2>2. Followed' /\ ResultsFollow' /\ Answered' /\ (Unsettled' <=> call' # "none")
    BY <1>0, <1>k, <2>1 DEF Kinds
  <2>3. QED
    BY <1>y, <2>1, <2>2, ThreadParts
<1>9. ASSUME NEW u \in Usages, NEW k \in {"calls", "text"}, NEW lagging \in BOOLEAN,
             ModelSteered(u, k, lagging)
      PROVE  ThreadInv'
  <2>1. pc = "stream" /\ pc' = "stream" /\ ~Unsettled
    BY <1>0, <1>9 DEF ModelSteered
  <2>2. CASE lagging
    <3>1. /\ Ends("result") /\ thread' = SubSeq(thread, 1, Len(thread) - 1)
          /\ call' = "approved"
      BY <1>9, <2>2 DEF ModelSteered, SteerSettled
    <3>2. QED
      BY <1>0, <1>y, <2>1, <3>1, DropCalls, ThreadParts
  <2>3. CASE ~lagging
    <3>1. thread' = Append(thread, Tag("steer")) /\ call' = "none"
      BY <1>9, <2>3 DEF ModelSteered, SteerSettled
    <3>2. QED
      BY <1>0, <1>y, <1>k, <2>1, <3>1, ThreadParts DEF Kinds
  <2>4. QED
    BY <2>2, <2>3
<1>10. ASSUME Steer \/ VerifyPasses PROVE ThreadInv'
  <2>1. UNCHANGED <<pc, att, thread, call>>
    BY <1>10 DEF Steer, VerifyPasses
  <2>2. Pending' <=> Pending
    BY <2>1 DEF Pending
  <2>3. QED
    BY <1>0, <1>y, <1>t, <2>1, <2>2, ThreadParts
<1>i. ASSUME NEW took \in BOOLEAN, Interrupted(took) PROVE ThreadInv'
  <2>1. pc = "stream" /\ call = "new" /\ pc' = "gate" /\ call' = "asked" /\ UNCHANGED thread
    BY <1>i DEF Interrupted
  <2>2. QED
    BY <1>0, <1>y, <1>t, <2>1, ThreadParts DEF Pending
<1>a. ASSUME NEW shown \in BOOLEAN, Approve(shown) PROVE ThreadInv'
  <2>1. pc = "gate" /\ pc' = "stream" /\ call' = "approved" /\ UNCHANGED thread
    BY <1>a DEF Approve
  <2>2. QED
    BY <1>0, <1>y, <1>t, <2>1, ThreadParts DEF Pending
<1>r. ASSUME NEW took \in BOOLEAN, Reject(took) PROVE ThreadInv'
  <2>1. pc = "gate" /\ pc' = "stream" /\ call' = "none" /\ thread' = Append(thread, Tag("result"))
    BY <1>r DEF Reject
  <2>2. Unsettled
    BY <1>0, <2>1 DEF Pending
  <2>3. QED
    BY <1>0, <1>y, <1>k, <2>1, <2>2, ThreadParts DEF Kinds
<1>11. ASSUME NEW edit \in BOOLEAN, NEW took \in BOOLEAN, RunTools(edit, took) PROVE ThreadInv'
  <2>1. /\ pc = "stream" /\ pc' = "stream" /\ call # "none" /\ call' = "none"
        /\ thread' = Append(thread, Tag("result"))
    BY <1>11 DEF RunTools
  <2>2. QED
    BY <1>0, <1>y, <1>k, <2>1, ThreadParts DEF Kinds
<1>12. ASSUME Park \/ Cancel \/ GiveUp \/ Succeed PROVE ThreadInv'
  BY <1>e, <1>12 DEF Park, Cancel, GiveUp, Succeed, End
<1>13. ASSUME NEW b \in BOOLEAN, VerifyFails(b) PROVE ThreadInv'
  <2>1. /\ pc = "verify" /\ call' = call
        /\ \/ pc' = "stream" /\ thread' = Append(thread, Tag("repair"))
           \/ pc' \in {"after", "policy"} /\ UNCHANGED thread
    BY <1>13 DEF VerifyFails, Over
  <2>2. Followed' /\ ResultsFollow' /\ Answered' /\ ~Unsettled' /\ call' = "none"
    BY <1>0, <1>t, <1>k, <2>1 DEF Kinds
  <2>3. QED
    BY <1>y, <2>1, <2>2, ThreadParts
<1>14. ASSUME NEW b \in BOOLEAN, Done(b) PROVE ThreadInv'
  <2>1. pc = "verify" /\ pc' \in {"after", "policy"} /\ UNCHANGED <<thread, call>>
    BY <1>14 DEF Done, Over
  <2>2. QED
    BY <1>0, <1>y, <1>t, <2>1, ThreadParts
<1>15. ASSUME NEW b \in BOOLEAN, RetryTextOnly(b) PROVE ThreadInv'
  <2>1. pc' = "attempt" /\ call' = call
    BY <1>15 DEF RetryTextOnly
  <2>2. QED
    BY <1>0, <1>15, <1>y, <2>1, RetryKeepsCalls, ThreadParts
<1>16. ASSUME NEW b \in BOOLEAN, RetryOnFallback(b) PROVE ThreadInv'
  <2>1. UNCHANGED <<thread, call>> /\ pc' \in {"idle", "attempt"}
    BY <1>16 DEF RetryOnFallback, End
  <2>2. QED
    BY <1>b, <1>e, <2>1
<1>17. ASSUME After PROVE ThreadInv'
  <2>1. /\ pc = "after" /\ UNCHANGED <<thread, call>>
        /\ \/ pc' = "policy"
           \/ pc' = "prompt" /\ ~Pending
    BY <1>17 DEF After
  <2>2. Pending' <=> Pending
    BY <2>1 DEF Pending
  <2>3. QED
    BY <1>0, <1>y, <1>t, <2>1, <2>2, ThreadParts
<1>18. CASE UNCHANGED vars
  <2>1. UNCHANGED <<pc, att, thread, call>>
    BY <1>18 DEF vars
  <2>2. Pending' <=> Pending
    BY <2>1 DEF Pending
  <2>3. QED
    BY <1>0, <1>y, <1>t, <2>1, <2>2, ThreadParts
<1>19. QED
  BY <1>1, <1>2, <1>3, <1>4, <1>5, <1>p, <1>q, <1>6, <1>7, <1>8, <1>9, <1>10, <1>i, <1>a, <1>r,
     <1>11, <1>12, <1>13, <1>14, <1>15, <1>16, <1>17, <1>18
  DEF Next, TurnStep, ModelStep

-----------------------------------------------------------------------------
(* Verification, the budget and the rounds of follow-ups. *)

Limits == EditInv /\ BudgetInv /\ RoundInv

LEMMA RoundsKept ==
  ASSUME AgentInv, UNCHANGED <<chain, followup, followups>>,
         pc' \notin {"idle", "attempt"} =>
           \/ drv'.round = drv.round /\ pc \notin {"idle", "attempt"}
           \/ drv'.round = chain
  PROVE  RoundInv'
<1>1. /\ followups \in Nat /\ chain \in Nat
      /\ followups + (IF followup THEN 1 ELSE 0) <= chain
      /\ pc \notin {"idle", "attempt"} => followups <= drv.round
      /\ DiagBounded
  BY DEF AgentInv, TypeOK, RoundInv
<1>2. followups <= chain
  BY <1>1
<1>3. DiagBounded'
  BY <1>1 DEF DiagBounded
<1>4. pc' \notin {"idle", "attempt"} => followups' <= drv'.round
  BY <1>1, <1>2
<1>5. QED
  BY <1>1, <1>3, <1>4 DEF RoundInv

LEMMA EndKeepsLimits ==
  ASSUME AgentInv, NEW how \in Outcomes, End(how), UNCHANGED <<chain, followup, followups>>,
         how = "done" => pc = "policy" /\ att.error = None
  PROVE  Limits'
<1>1. pc' = "idle"
  BY DEF End
<1>2. edited' # "now"
  <2>1. how = "done" => edited # "now"
    BY DEF AgentInv, EditInv, Streaming
  <2>2. edited' = IF how = "parked" /\ edited = "now" THEN "parked"
                  ELSE IF how \in {"done", "parked"} THEN edited ELSE "none"
    BY DEF End
  <2>3. QED
    BY <2>1, <2>2
<1>3. RoundInv'
  BY <1>1, RoundsKept
<1>4. QED
  BY <1>1, <1>2, <1>3 DEF Limits, EditInv, BudgetInv, Streaming

LEMMA BeginKeepsLimits ==
  ASSUME AgentInv, NEW a \in Attempts, Begin(a), RoundInv'
  PROVE  Limits'
<1>1. edited # "now" /\ edited' = edited /\ pc' = "attempt"
  BY DEF AgentInv, EditInv, Begin
<1>2. QED
  BY <1>1 DEF Limits, EditInv, BudgetInv, Streaming

LEMMA NextLimits ==
  ASSUME AgentInv, [Next]_vars
  PROVE  Limits'
<1>0. /\ TypeOK /\ att \in Attempts /\ drv \in Drivers /\ chain \in Nat /\ followups \in Nat
      /\ EditInv /\ BudgetInv /\ RoundInv /\ prompts \in Nat
  BY DEF AgentInv, TypeOK
<1>b. \A n \in 0 .. MaxPrompts, b \in BOOLEAN :
        /\ [NoAttempt EXCEPT !.image = b, !.id = n] \in Attempts
        /\ [NoAttempt EXCEPT !.id = n] \in Attempts
  BY Fresh DEF Attempts, NoAttempt
<1>n. None \notin Errors
  BY TurnAssumption
<1>1. ASSUME NEW image \in BOOLEAN, SubmitLine(image) PROVE Limits'
  <2>1. prompts + 1 \in 0 .. MaxPrompts
    BY <1>0, <1>1, TurnAssumption DEF SubmitLine
  <2>2. /\ Begin([NoAttempt EXCEPT !.image = image, !.id = prompts + 1])
        /\ pc' = "attempt" /\ chain' = 0 /\ followup' = FALSE /\ followups' = 0
    BY <1>1 DEF SubmitLine, Begin
  <2>3. RoundInv'
    BY <2>2, TurnAssumption DEF RoundInv, DiagBounded
  <2>4. QED
    BY <1>b, <2>1, <2>2, <2>3, BeginKeepsLimits
<1>2. ASSUME RunLeftover PROVE Limits'
  <2>1. prompts + 1 \in 0 .. MaxPrompts
    BY <1>0, <1>2, TurnAssumption DEF RunLeftover
  <2>2. /\ Begin([NoAttempt EXCEPT !.id = prompts + 1])
        /\ pc' = "attempt" /\ UNCHANGED <<chain, followup, followups>>
    BY <1>2 DEF RunLeftover, Begin
  <2>3. QED
    BY <1>b, <2>1, <2>2, RoundsKept, BeginKeepsLimits
<1>3. ASSUME RunFollowup PROVE Limits'
  <2>1. prompts + 1 \in 0 .. MaxPrompts
    BY <1>0, <1>3, TurnAssumption DEF RunFollowup
  <2>2. /\ Begin([NoAttempt EXCEPT !.id = prompts + 1])
        /\ pc' = "attempt" /\ chain' = chain /\ followup /\ ~followup'
        /\ followups' = followups + 1
    BY <1>3 DEF RunFollowup, Begin
  <2>3. RoundInv'
    BY <1>0, <2>2 DEF RoundInv, DiagBounded
  <2>4. QED
    BY <1>b, <2>1, <2>2, <2>3, BeginKeepsLimits
<1>4. ASSUME ResumeParked PROVE Limits'
  <2>1. [NoAttempt EXCEPT !.pendingOnly = TRUE] \in Attempts
    BY Fresh DEF Attempts, NoAttempt
  <2>2. /\ Begin([NoAttempt EXCEPT !.pendingOnly = TRUE])
        /\ pc' = "attempt" /\ UNCHANGED <<chain, followup, followups>>
    BY <1>4 DEF ResumeParked, Begin
  <2>3. QED
    BY <2>1, <2>2, RoundsKept, BeginKeepsLimits
<1>5. ASSUME Attempt PROVE Limits'
  <2>1. CASE ShouldStop(spent)
    BY <1>5, <2>1, EndKeepsLimits DEF Attempt, Outcomes, session, counters
  <2>2. CASE ~ShouldStop(spent)
    <3>1. /\ pc = "attempt" /\ pc' = "inspect" /\ drv' = NewDriver(chain) /\ edited' = edited
          /\ UNCHANGED <<chain, followup, followups, spent>>
      BY <1>5, <2>2 DEF Attempt, session, counters
    <3>2. drv'.round = chain /\ ~drv'.resumes
      BY <3>1 DEF NewDriver
    <3>3. EditInv'
      BY <1>0, <3>1 DEF EditInv
    <3>4. BudgetInv'
      BY <2>2, <3>1, <3>2 DEF BudgetInv, ShouldStop, Streaming
    <3>5. QED
      BY <3>1, <3>2, <3>3, <3>4, RoundsKept DEF Limits
  <2>3. QED
    BY <2>1, <2>2
<1>6. ASSUME Inspect PROVE Limits'
  <2>1. /\ pc = "inspect" /\ pc' \in {"policy", "gate", "prompt"}
        /\ att'.produced = att.produced /\ drv'.round = drv.round /\ drv'.dirty = drv.dirty
        /\ att'.error \in {"fatal", att.error} /\ UNCHANGED <<edited, chain, followup, followups, spent>>
        /\ pc' # "policy" => att' = att
    BY <1>0, <1>6 DEF Inspect, Fails, Attempts, Drivers, session, counters, history
  <2>2. EditInv'
    BY <1>0, <2>1 DEF EditInv
  <2>3. BudgetInv'
    <3>1. pc' = "gate" => ~ShouldStop(spent)
      BY <1>0, <1>6, <2>1 DEF BudgetInv
    <3>2. QED
      BY <1>0, <2>1, <3>1 DEF BudgetInv, ShouldStop, Streaming
  <2>4. QED
    BY <2>1, <2>2, <2>3, RoundsKept DEF Limits
<1>7. ASSUME Prompt PROVE Limits'
  <2>1. /\ pc = "prompt" /\ pc' = "patch"
        /\ UNCHANGED <<att, drv, edited, chain, followup, followups, spent>>
    BY <1>7 DEF Prompt, session, counters, history
  <2>2. EditInv'
    BY <1>0, <2>1 DEF EditInv, Streaming
  <2>3. BudgetInv'
    BY <1>0, <2>1 DEF BudgetInv, ShouldStop, Streaming, AgentInv, PromptInv
  <2>4. QED
    BY <2>1, <2>2, <2>3, RoundsKept DEF Limits
<1>8. ASSUME NEW e \in {"retryable", "auth", "image", "fatal"}, NEW shown \in BOOLEAN,
             NEW took \in BOOLEAN, ModelFails(e, shown, took)
      PROVE  Limits'
  <2>1. /\ pc = "stream" /\ pc' = Over /\ UNCHANGED <<edited, chain, followup, followups, spent>>
        /\ att'.error = e /\ (att.produced => att'.produced) /\ drv'.round = drv.round
        /\ drv'.resumes = drv.resumes
    BY <1>0, <1>8 DEF ModelFails, Attempts, Drivers, counters
  <2>2. EditInv'
    BY <1>0, <1>n, <2>1 DEF EditInv, Over, Errors
  <2>3. BudgetInv'
    BY <1>0, <2>1 DEF BudgetInv, ShouldStop, Streaming, Over
  <2>4. QED
    BY <2>1, <2>2, <2>3, RoundsKept DEF Limits
<1>9. ASSUME NEW u \in Usages, NEW k \in {"calls", "text"}, NEW kept \in {"none", "new", "asked"},
             ModelOverBudget(u, k, kept)
      PROVE  Limits'
  <2>1. /\ pc = "stream" /\ pc' = Over /\ UNCHANGED <<edited, chain, followup, followups>>
        /\ att'.error = "budget" /\ att'.produced /\ drv'.round = drv.round
        /\ drv'.resumes = drv.resumes
    BY <1>0, <1>9 DEF ModelOverBudget, Attempts, Drivers, session, counters
  <2>2. EditInv'
    BY <1>0, <1>n, <2>1 DEF EditInv, Over, Errors
  <2>3. BudgetInv'
    BY <1>0, <2>1 DEF BudgetInv, Streaming, Over
  <2>4. QED
    BY <2>1, <2>2, <2>3, RoundsKept DEF Limits
<1>10. ASSUME NEW u \in Usages, NEW k \in {"calls", "text"},
              ModelReplies(u, k) \/ \E lagging \in BOOLEAN : ModelSteered(u, k, lagging)
       PROVE  Limits'
  <2>1. /\ pc = "stream" /\ pc' \in {"verify", "stream"}
        /\ UNCHANGED <<edited, chain, followup, followups>>
        /\ att'.error = att.error /\ att'.produced /\ drv'.round = drv.round
        /\ drv'.dirty = drv.dirty /\ ~StopsNow(spent')
    <3>1. CASE ModelReplies(u, k)
      BY <1>0, <3>1 DEF ModelReplies, Charge, Attempts, Drivers, session
    <3>2. CASE \E lagging \in BOOLEAN : ModelSteered(u, k, lagging)
      BY <1>0, <3>2 DEF ModelSteered, Charge, Attempts, Drivers
    <3>3. QED
      BY <1>10, <3>1, <3>2
  <2>2. EditInv'
    BY <1>0, <2>1 DEF EditInv, Streaming
  <2>3. BudgetInv'
    BY <2>1 DEF BudgetInv, Streaming, StopsNow, ShouldStop
  <2>4. QED
    BY <2>1, <2>2, <2>3, RoundsKept DEF Limits
<1>11. ASSUME \/ \E b \in BOOLEAN : Interrupted(b) \/ Approve(b) \/ Reject(b)
              \/ PatchCalls \/ PatchSteered \/ Steer
       PROVE  Limits'
  <2>1. /\ UNCHANGED <<edited, chain, followup, followups, spent>>
        /\ att'.error = att.error /\ (att.produced => att'.produced)
        /\ drv'.round = drv.round /\ drv'.resumes = drv.resumes /\ drv'.dirty = drv.dirty
        /\ \/ pc \in {"patch", "stream", "gate"} /\ pc' \in {"patch", "stream", "gate"}
           \/ pc' = pc
    <3>1. CASE \E b \in BOOLEAN : Interrupted(b) \/ Approve(b) \/ Reject(b)
      BY <1>0, <3>1 DEF Interrupted, Approve, Reject, Attempts, Drivers, session, counters, history
    <3>2. CASE PatchCalls \/ Steer
      BY <3>2 DEF PatchCalls, Steer, session, counters, history
    <3>3. CASE PatchSteered
      BY <1>0, <3>3 DEF PatchSteered, Attempts, Drivers, session, counters, history
    <3>4. QED
      BY <1>11, <3>1, <3>2, <3>3
  <2>2. EditInv'
    BY <1>0, <2>1 DEF EditInv, Streaming
  <2>3. BudgetInv'
    BY <1>0, <2>1 DEF BudgetInv, ShouldStop, Streaming
  <2>4. QED
    BY <2>1, <2>2, <2>3, RoundsKept DEF Limits
<1>12. ASSUME NEW edit \in BOOLEAN, NEW took \in BOOLEAN, RunTools(edit, took) PROVE Limits'
  <2>1. /\ pc = "stream" /\ pc' = "stream" /\ UNCHANGED <<chain, followup, followups, spent>>
        /\ att'.error = att.error /\ att'.produced /\ drv'.round = drv.round
        /\ drv'.resumes = drv.resumes /\ (drv.dirty \/ edit => drv'.dirty)
        /\ edited' = IF edit THEN "now" ELSE edited
    BY <1>0, <1>12 DEF RunTools, Attempts, Drivers, counters
  <2>2. EditInv'
    BY <1>0, <2>1 DEF EditInv, Streaming
  <2>3. BudgetInv'
    BY <1>0, <2>1 DEF BudgetInv, ShouldStop, Streaming
  <2>4. QED
    BY <2>1, <2>2, <2>3, RoundsKept DEF Limits
<1>13. ASSUME Park \/ Cancel \/ GiveUp \/ Succeed PROVE Limits'
  <2>1. UNCHANGED <<chain, followup, followups>>
    BY <1>13 DEF Park, Cancel, GiveUp, Succeed, session, counters
  <2>2. \E how \in Outcomes : End(how) /\ (how = "done" => pc = "policy" /\ att.error = None)
    BY <1>13 DEF Park, Cancel, GiveUp, Succeed, Outcomes
  <2>3. QED
    BY <2>1, <2>2, EndKeepsLimits
<1>14. ASSUME VerifyPasses PROVE Limits'
  <2>1. /\ UNCHANGED <<pc, att, chain, followup, followups, spent>> /\ edited' = "none"
        /\ drv'.round = drv.round /\ drv'.resumes = drv.resumes /\ pc = "verify"
    BY <1>0, <1>14 DEF VerifyPasses, Drivers, session, counters
  <2>2. EditInv' /\ BudgetInv'
    BY <1>0, <2>1 DEF EditInv, BudgetInv, ShouldStop, Streaming
  <2>3. QED
    BY <2>1, <2>2, RoundsKept DEF Limits
<1>15. ASSUME NEW b \in BOOLEAN, VerifyFails(b) PROVE Limits'
  <2>1. /\ pc = "verify" /\ UNCHANGED <<edited, chain, followup, followups, spent>>
        /\ att'.produced = att.produced /\ drv'.round = drv.round /\ drv'.resumes = drv.resumes
        /\ \/ pc' = "stream" /\ drv'.dirty /\ att' = att
           \/ pc' = Over /\ att'.error = "fatal"
    BY <1>0, <1>15 DEF VerifyFails, Fails, DirtyAfterRepair, Attempts, Drivers, session, counters, history
  <2>2. EditInv'
    BY <1>0, <1>n, <2>1 DEF EditInv, Streaming, Over, Errors
  <2>3. BudgetInv'
    BY <1>0, <2>1 DEF BudgetInv, ShouldStop, Streaming, Over
  <2>4. QED
    BY <2>1, <2>2, <2>3, RoundsKept DEF Limits
<1>16. ASSUME NEW b \in BOOLEAN, Done(b) PROVE Limits'
  <2>1. /\ pc = "verify" /\ pc' = Over /\ ~drv.dirty
        /\ UNCHANGED <<att, drv, edited, followups, spent>>
    BY <1>16 DEF Done, history, counters
  <2>2. EditInv'
    BY <1>0, <2>1 DEF EditInv, Over
  <2>3. BudgetInv'
    BY <1>0, <2>1 DEF BudgetInv, ShouldStop, Streaming, Over
  <2>4. RoundInv'
    <3>1. CASE UNCHANGED <<chain, followup>>
      BY <2>1, <3>1, RoundsKept
    <3>2. CASE drv.round < MaxDiagRounds /\ chain' = chain + 1 /\ followup' = TRUE
      <4>1. followups <= drv.round /\ followups <= chain /\ drv.round \in Nat
        BY <1>0, <2>1 DEF RoundInv, Drivers
      <4>2. followups' + (IF followup' THEN 1 ELSE 0) = followups + 1
        BY <2>1, <3>2
      <4>3. followups + 1 <= MaxDiagRounds /\ followups + 1 <= chain'
        BY <1>0, <3>2, <4>1, TurnAssumption
      <4>4. QED
        BY <2>1, <4>1, <4>2, <4>3 DEF RoundInv, DiagBounded
    <3>3. QED
      BY <1>16, <3>1, <3>2 DEF Done, Bumped
  <2>5. QED
    BY <2>2, <2>3, <2>4 DEF Limits
<1>17. ASSUME NEW b \in BOOLEAN, RetryTextOnly(b) PROVE Limits'
  <2>1. /\ pc = "policy" /\ pc' = "attempt" /\ ~att.produced
        /\ UNCHANGED <<edited, chain, followup, followups>>
    BY <1>17 DEF RetryTextOnly, RetriesTextOnly, history, counters
  <2>2. EditInv' /\ BudgetInv'
    BY <1>0, <2>1 DEF EditInv, BudgetInv, Streaming
  <2>3. QED
    BY <2>1, <2>2, RoundsKept DEF Limits
<1>18. ASSUME NEW b \in BOOLEAN, RetryOnFallback(b) PROVE Limits'
  <2>1. CASE b
    <3>1. /\ pc = "policy" /\ pc' = "attempt" /\ ~att.produced
          /\ UNCHANGED <<edited, chain, followup, followups>>
      BY <1>18, <2>1 DEF RetryOnFallback, session, counters
    <3>2. EditInv' /\ BudgetInv'
      BY <1>0, <3>1 DEF EditInv, BudgetInv, Streaming
    <3>3. QED
      BY <3>1, <3>2, RoundsKept DEF Limits
  <2>2. CASE ~b
    BY <1>18, <2>2, EndKeepsLimits DEF RetryOnFallback, Outcomes, session, counters
  <2>3. QED
    BY <2>1, <2>2
<1>19. ASSUME After PROVE Limits'
  <2>1. /\ pc = "after" /\ pc' \in {"policy", "prompt"} /\ drv'.round = drv.round
        /\ att'.produced = att.produced /\ att'.error \in {"fatal", att.error}
        /\ pc' = "prompt" => att' = att
        /\ UNCHANGED <<edited, chain, followup, followups, spent>>
    BY <1>0, <1>19 DEF After, Fails, NewDriver, Attempts, Drivers, session, counters, history
  <2>2. EditInv'
    BY <1>0, <1>n, <2>1 DEF EditInv, Streaming, Errors
  <2>3. BudgetInv'
    BY <1>0, <2>1 DEF BudgetInv, ShouldStop, Streaming
  <2>4. QED
    BY <2>1, <2>2, <2>3, RoundsKept DEF Limits
<1>20. CASE UNCHANGED vars
  <2>1. UNCHANGED <<pc, att, drv, edited, chain, followup, followups, spent>>
    BY <1>20 DEF vars, session, counters, history
  <2>2. EditInv' /\ BudgetInv'
    BY <1>0, <2>1 DEF EditInv, BudgetInv, ShouldStop, Streaming
  <2>3. QED
    BY <2>1, <2>2, RoundsKept DEF Limits
<1>21. QED
  BY <1>1, <1>2, <1>3, <1>4, <1>5, <1>6, <1>7, <1>8, <1>9, <1>10, <1>11, <1>12, <1>13, <1>14,
     <1>15, <1>16, <1>17, <1>18, <1>19, <1>20
  DEF Next, TurnStep, ModelStep

-----------------------------------------------------------------------------
(* Steers. *)

SteersIn(s) == {i \in DOMAIN s : s[i].k = "steer"}

\* How many there are in the thread
Placed == Cardinality(Positions("steer"))

LEMMA SteersCounted ==
  ASSUME NEW s \in Seq(Messages)
  PROVE  /\ Cardinality(SteersIn(s)) \in Nat /\ IsFiniteSet(SteersIn(s))
         /\ SteersIn(s) \subseteq 1 .. Len(s)
<1>1. SteersIn(s) \subseteq 1 .. Len(s)
  BY DEF SteersIn
<1>2. IsFiniteSet(1 .. Len(s))
  BY FS_Interval
<1>3. QED
  BY <1>1, <1>2, FS_Subset, FS_CardinalityType

LEMMA AppendCounts ==
  ASSUME NEW s \in Seq(Messages), NEW m \in Messages
  PROVE  Cardinality(SteersIn(Append(s, m))) =
           Cardinality(SteersIn(s)) + (IF m.k = "steer" THEN 1 ELSE 0)
<1>1. /\ DOMAIN s = 1 .. Len(s) /\ Len(s) \in Nat /\ DOMAIN Append(s, m) = 1 .. (Len(s) + 1)
      /\ Append(s, m)[Len(s) + 1] = m
      /\ \A i \in 1 .. Len(s) : Append(s, m)[i] = s[i]
  BY AppendFacts
<1>2. CASE m.k = "steer"
  <2>1. /\ SteersIn(Append(s, m)) = SteersIn(s) \cup {Len(s) + 1}
        /\ Len(s) + 1 \notin SteersIn(s)
    BY <1>1, <1>2 DEF SteersIn
  <2>2. QED
    BY <1>2, <2>1, SteersCounted, FS_AddElement
<1>3. CASE m.k # "steer"
  <2>1. SteersIn(Append(s, m)) = SteersIn(s)
    BY <1>1, <1>3 DEF SteersIn
  <2>2. QED
    BY <1>3, <2>1, SteersCounted
<1>4. QED
  BY <1>2, <1>3

LEMMA DropCounts ==
  ASSUME NEW s \in Seq(Messages), s # <<>>, s[Len(s)].k = "result"
  PROVE  SteersIn(SubSeq(s, 1, Len(s) - 1)) = SteersIn(s)
<1> DEFINE d == SubSeq(s, 1, Len(s) - 1)
<1>1. /\ DOMAIN s = 1 .. Len(s) /\ Len(s) \in Nat \ {0} /\ DOMAIN d = 1 .. (Len(s) - 1)
      /\ \A i \in 1 .. (Len(s) - 1) : d[i] = s[i]
  BY DropFacts
<1> HIDE DEF d
<1>2. SteersIn(d) = SteersIn(s)
  BY <1>1 DEF SteersIn
<1>3. QED
  BY <1>2 DEF d

(* What a step does to the number of steers in the thread *)
LEMMA PlacedFacts ==
  ASSUME TypeOK
  PROVE  /\ Placed \in Nat
         /\ UNCHANGED thread => Placed' = Placed
         /\ \A m \in Messages : thread' = Append(thread, m) =>
              Placed' = Placed + (IF m.k = "steer" THEN 1 ELSE 0)
         /\ Ends("result") /\ thread' = SubSeq(thread, 1, Len(thread) - 1) => Placed' = Placed
         /\ PatchCalls => Placed' = Placed
<1>1. thread \in Seq(Messages)
  BY DEF TypeOK
<1>2. Placed = Cardinality(SteersIn(thread)) /\ Placed' = Cardinality(SteersIn(thread'))
  BY DEF Placed, Positions, SteersIn
<1>3. \A m \in Messages : thread' = Append(thread, m) =>
        Placed' = Placed + (IF m.k = "steer" THEN 1 ELSE 0)
  BY <1>1, <1>2, AppendCounts
<1>4. Ends("result") /\ thread' = SubSeq(thread, 1, Len(thread) - 1) => Placed' = Placed
  BY <1>1, <1>2, DropCounts DEF Ends
<1>5. ASSUME PatchCalls PROVE Placed' = Placed
  <2>1. /\ DOMAIN thread = 1 .. Len(thread) /\ DOMAIN thread' = 1 .. Len(thread)
        /\ \A i \in 1 .. Len(thread) : \/ Open(i) /\ thread[i].k = "calls" /\ thread'[i].k = "patched"
                                       \/ ~Open(i) /\ thread'[i] = thread[i]
    BY <1>5, PatchFacts DEF PatchCalls
  <2>2. SteersIn(thread') = SteersIn(thread)
    BY <2>1 DEF SteersIn
  <2>3. QED
    BY <1>2, <2>2
<1>6. QED
  BY <1>1, <1>2, <1>3, <1>4, <1>5, SteersCounted

(* A step inside a turn: what is taken is held, and what is no longer held is
   in the thread. *)
LEMMA InsideKeepsSteers ==
  ASSUME AgentInv, pc # "idle", pc' \notin {"idle", "attempt"}, att'.retried = att.retried,
         \/ taken' = taken /\ Placed' = Placed /\ drv'.held = drv.held
         \/ taken' = taken + 1 /\ Placed' = Placed /\ ~drv.held /\ drv'.held
         \/ taken' = taken + 1 /\ Placed' = Placed + 1 /\ ~drv.held /\ ~drv'.held
         \/ taken' = taken /\ Placed' = Placed + 1 /\ drv.held /\ ~drv'.held,
         pc' \in {"inspect", "verify"} => ~drv'.held,
         drv'.held => pc' \in {"patch", "stream", "gate"} \/ att'.error # None
  PROVE  SteerInv'
<1>1. /\ taken \in Nat /\ Placed \in Nat
      /\ ~att.retried => taken <= Placed + (IF drv.held THEN 1 ELSE 0)
  BY PlacedFacts DEF AgentInv, TypeOK, SteerInv, Placed
<1>2. PICK p \in Nat, t \in Nat : p = Placed /\ t = taken
  BY <1>1
<1>3. PICK q \in Nat, u \in Nat : q = Placed' /\ u = taken'
  BY <1>1, <1>2
<1>4. \/ u = t /\ q = p /\ drv'.held = drv.held
      \/ u = t + 1 /\ q = p /\ ~drv.held /\ drv'.held
      \/ u = t + 1 /\ q = p + 1 /\ ~drv.held /\ ~drv'.held
      \/ u = t /\ q = p + 1 /\ drv.held /\ ~drv'.held
  BY <1>2, <1>3
<1>5. ~att.retried => t <= p + (IF drv.held THEN 1 ELSE 0)
  BY <1>1, <1>2
<1>6. ~att.retried => u <= q + (IF drv'.held THEN 1 ELSE 0)
  BY <1>4, <1>5
<1>7. ~att'.retried => taken' <= Placed' + (IF drv'.held THEN 1 ELSE 0)
  BY <1>3, <1>6, Zenon
<1>8. QED
  BY <1>7 DEF SteerInv, SteerKept, Placed

LEMMA EndKeepsSteers ==
  ASSUME AgentInv, NEW how \in Outcomes, End(how), UNCHANGED <<thread, taken>>, pc # "idle",
         how = "done" => pc = "policy" /\ att.error = None
  PROVE  SteerInv'
<1>1. pc' = "idle" /\ outcome' = how /\ att'.retried = att.retried
  BY EndTyped DEF AgentInv
<1>2. ~drv'.held
  BY DEF End, NewDriver
<1>3. Placed' = Placed /\ Placed \in Nat /\ taken \in Nat
  BY PlacedFacts DEF AgentInv, TypeOK
<1>4. ASSUME how = "done", ~att.retried PROVE taken <= Placed
  <2>1. ~drv.held
    BY <1>4 DEF AgentInv, SteerInv
  <2>2. taken <= Placed + 0
    BY <1>4, <2>1 DEF AgentInv, SteerInv, Placed
  <2>3. QED
    BY <1>3, <2>2
<1>5. SteerKept'
  BY <1>1, <1>3, <1>4 DEF SteerKept, Placed
<1>6. QED
  BY <1>1, <1>2, <1>5 DEF SteerInv

LEMMA BeginKeepsSteers ==
  ASSUME AgentInv, NEW a, Begin(a)
  PROVE  SteerInv'
<1>1. pc' = "attempt" /\ taken' = 0 /\ UNCHANGED <<thread, drv>>
  BY DEF Begin
<1>2. Placed' \in Nat
  BY <1>1, PlacedFacts DEF AgentInv
<1>3. taken' <= Placed' + (IF drv'.held THEN 1 ELSE 0)
  <2>1. PICK q \in Nat : q = Placed'
    BY <1>2
  <2>2. taken' <= q + (IF drv'.held THEN 1 ELSE 0)
    BY <1>1
  <2>3. QED
    BY <2>1, <2>2, Zenon
<1>4. QED
  BY <1>1, <1>3 DEF SteerInv, SteerKept, Placed

LEMMA NextSteers ==
  ASSUME AgentInv, [Next]_vars
  PROVE  SteerInv'
<1>0. TypeOK /\ att \in Attempts /\ drv \in Drivers /\ drv.held \in BOOLEAN /\ SteerInv
      /\ None \notin Errors
  BY TurnAssumption DEF AgentInv, TypeOK, Drivers
<1>t. UNCHANGED thread => Placed' = Placed
  BY <1>0, PlacedFacts
<1>k. ASSUME NEW k \in Kinds, k # "steer", thread' = Append(thread, Tag(k)) PROVE Placed' = Placed
  <2>1. Tag(k) \in Messages /\ Tag(k).k # "steer"
    BY <1>k, Tags
  <2>2. Placed' = Placed + 0 /\ Placed \in Nat
    BY <1>0, <1>k, <2>1, PlacedFacts
  <2>3. QED
    BY <2>2
<1>s. thread' = Append(thread, Tag("steer")) => Placed' = Placed + 1
  BY <1>0, Tags, PlacedFacts DEF Kinds
<1>1. ASSUME NEW image \in BOOLEAN, SubmitLine(image) PROVE SteerInv'
  BY <1>1, BeginKeepsSteers DEF SubmitLine
<1>2. ASSUME RunLeftover \/ RunFollowup \/ ResumeParked PROVE SteerInv'
  BY <1>2, BeginKeepsSteers DEF RunLeftover, RunFollowup, ResumeParked
<1>3. ASSUME Attempt PROVE SteerInv'
  <2>1. CASE ShouldStop(spent)
    BY <1>3, <2>1, EndKeepsSteers DEF Attempt, Outcomes
  <2>2. CASE ~ShouldStop(spent)
    <3> DEFINE sends == att.image /\ ~att.resume /\ ~imagesOff
    <3>a. /\ pc = "attempt" /\ pc' = "inspect" /\ drv' = NewDriver(chain)
          /\ att' = [att EXCEPT !.produced = FALSE, !.error = None, !.sent = sends]
          /\ UNCHANGED <<taken, thread>>
      BY <1>3, <2>2 DEF Attempt
    <3> HIDE DEF sends
    <3>1. pc = "attempt" /\ pc' = "inspect" /\ ~drv'.held /\ att'.retried = att.retried
          /\ UNCHANGED <<taken, thread>>
      BY <1>0, <3>a DEF NewDriver, Attempts
    <3>2. ~att'.retried => taken' = 0
      BY <1>0, <3>1 DEF SteerInv
    <3>3. PICK p \in Nat : p = Placed'
      BY <1>0, <1>t, <3>1, PlacedFacts
    <3>4. ~att'.retried => taken' <= p + (IF drv'.held THEN 1 ELSE 0)
      BY <3>1, <3>2
    <3>5. ~att'.retried => taken' <= Placed' + (IF drv'.held THEN 1 ELSE 0)
      BY <3>3, <3>4, Zenon
    <3>6. QED
      BY <3>1, <3>5 DEF SteerInv, SteerKept, Placed
  <2>3. QED
    BY <2>1, <2>2
<1>4. ASSUME Inspect PROVE SteerInv'
  <2>1. /\ pc = "inspect" /\ pc' \in {"policy", "gate", "prompt"}
        /\ drv'.held = drv.held /\ att'.retried = att.retried /\ UNCHANGED <<taken, thread>>
    BY <1>0, <1>4 DEF Inspect, Fails, Attempts, Drivers, history
  <2>2. ~drv.held
    BY <1>0, <2>1 DEF SteerInv
  <2>3. QED
    BY <1>t, <2>1, <2>2, InsideKeepsSteers
<1>5. ASSUME Prompt PROVE SteerInv'
  <2>1. pc = "prompt" /\ pc' = "patch" /\ UNCHANGED <<att, drv, taken>>
    BY <1>5 DEF Prompt, history
  <2> DEFINE m == Msg(IF att.sent THEN "image" ELSE "human", att.id)
  <2>2. m \in Messages /\ m.k # "steer"
    BY <1>0 DEF Msg, Messages, Kinds, Attempts
  <2>3. UNCHANGED thread \/ thread' = Append(thread, m)
    BY <1>5 DEF Prompt
  <2> HIDE DEF m
  <2>4. Placed' = Placed
    <3>1. CASE thread' = Append(thread, m)
      <4>1. Placed' = Placed + 0 /\ Placed \in Nat
        BY <1>0, <2>2, <3>1, PlacedFacts
      <4>2. QED
        BY <4>1
    <3>2. QED
      BY <1>t, <2>3, <3>1
  <2>5. QED
    BY <2>1, <2>4, InsideKeepsSteers
<1>6. ASSUME NEW e \in {"retryable", "auth", "image", "fatal"}, NEW shown \in BOOLEAN,
             NEW took \in BOOLEAN, ModelFails(e, shown, took)
      PROVE  SteerInv'
  <2>1. /\ pc = "stream" /\ pc' \in {"after", "policy"} /\ att'.retried = att.retried
        /\ att'.error \in Errors /\ UNCHANGED thread
    BY <1>0, <1>6 DEF ModelFails, Over, Attempts, Errors
  <2>2. \/ taken' = taken /\ drv'.held = drv.held
        \/ taken' = taken + 1 /\ ~drv.held /\ drv'.held
    BY <1>0, <1>6 DEF ModelFails, TakesSteer, Drivers
  <2>3. QED
    BY <1>0, <1>t, <2>1, <2>2, InsideKeepsSteers
<1>7. ASSUME NEW u \in Usages, NEW k \in {"calls", "text"}, NEW kept \in {"none", "new", "asked"},
             ModelOverBudget(u, k, kept)
      PROVE  SteerInv'
  <2>1. /\ pc = "stream" /\ pc' \in {"after", "policy"} /\ att'.retried = att.retried
        /\ att'.error \in Errors /\ drv'.held = drv.held /\ UNCHANGED taken
        /\ UNCHANGED thread \/ thread' = Append(thread, Tag(k))
    BY <1>0, <1>7 DEF ModelOverBudget, Over, Attempts, Drivers, Errors
  <2>2. Placed' = Placed
    BY <1>t, <1>k, <2>1 DEF Kinds
  <2>3. QED
    BY <1>0, <2>1, <2>2, InsideKeepsSteers
<1>8. ASSUME NEW u \in Usages, NEW k \in {"calls", "text"}, ModelReplies(u, k)
      PROVE  SteerInv'
  <2>1. /\ pc = "stream" /\ pc' \in {"stream", "verify"} /\ att'.retried = att.retried
        /\ ~drv.held /\ drv'.held = drv.held /\ UNCHANGED taken
        /\ thread' = Append(thread, Tag(k))
    BY <1>0, <1>8 DEF ModelReplies, Attempts, Drivers
  <2>2. Placed' = Placed
    BY <1>k, <2>1 DEF Kinds
  <2>3. QED
    BY <2>1, <2>2, InsideKeepsSteers
<1>9. ASSUME NEW u \in Usages, NEW k \in {"calls", "text"}, NEW lagging \in BOOLEAN,
             ModelSteered(u, k, lagging)
      PROVE  SteerInv'
  <2>1. /\ pc = "stream" /\ pc' = "stream" /\ att'.retried = att.retried
        /\ taken' = IF slot /\ ~drv.held THEN taken + 1 ELSE taken
        /\ slot \/ drv.held
    BY <1>0, <1>9 DEF ModelSteered, TakesSteer, Attempts
  <2>2. drv'.held = lagging
    BY <1>0, <1>9 DEF ModelSteered, SteerSettled, HeldAfter, Drivers
  <2>3. CASE lagging
    <3>1. Ends("result") /\ thread' = SubSeq(thread, 1, Len(thread) - 1)
      BY <1>9, <2>3 DEF ModelSteered, SteerSettled
    <3>2. Placed' = Placed
      BY <1>0, <3>1, PlacedFacts
    <3>3. QED
      BY <1>0, <2>1, <2>2, <2>3, <3>2, InsideKeepsSteers
  <2>4. CASE ~lagging
    <3>1. thread' = Append(thread, Tag("steer"))
      BY <1>9, <2>4 DEF ModelSteered, SteerSettled
    <3>2. Placed' = Placed + 1
      BY <1>s, <3>1
    <3>3. QED
      BY <1>0, <2>1, <2>2, <2>4, <3>2, InsideKeepsSteers
  <2>5. QED
    BY <2>3, <2>4
<1>10. ASSUME NEW took \in BOOLEAN, Interrupted(took) PROVE SteerInv'
  <2>1. pc = "stream" /\ pc' = "gate" /\ UNCHANGED <<att, thread>>
    BY <1>10 DEF Interrupted
  <2>2. \/ taken' = taken /\ drv'.held = drv.held
        \/ taken' = taken + 1 /\ ~drv.held /\ drv'.held
    BY <1>0, <1>10 DEF Interrupted, TakesSteer, Drivers
  <2>3. QED
    BY <1>t, <2>1, <2>2, InsideKeepsSteers
<1>a. ASSUME NEW shown \in BOOLEAN, Approve(shown) PROVE SteerInv'
  <2>1. /\ pc = "gate" /\ pc' = "stream" /\ att'.retried = att.retried
        /\ UNCHANGED <<thread, drv, taken>>
    BY <1>0, <1>a DEF Approve, Attempts, history
  <2>2. QED
    BY <1>t, <2>1, InsideKeepsSteers
<1>p. ASSUME PatchCalls PROVE SteerInv'
  <2>1. pc = "patch" /\ pc' = "stream" /\ UNCHANGED <<att, drv, taken>>
    BY <1>p DEF PatchCalls, history
  <2>2. Placed' = Placed
    BY <1>0, <1>p, PlacedFacts
  <2>3. QED
    BY <2>1, <2>2, InsideKeepsSteers
<1>q. ASSUME PatchSteered PROVE SteerInv'
  <2>1. /\ pc = "patch" /\ pc' = "patch" /\ att'.retried = att.retried
        /\ taken' = IF slot /\ ~drv.held THEN taken + 1 ELSE taken
        /\ slot \/ drv.held
    BY <1>0, <1>q DEF PatchSteered, TakesSteer, Attempts
  <2>2. drv'.held = HeldAfter(~Unsettled)
    BY <1>0, <1>q DEF PatchSteered, Drivers
  <2>3. CASE Unsettled
    <3>1. UNCHANGED thread /\ drv'.held
      BY <1>q, <2>2, <2>3 DEF PatchSteered, HeldAfter
    <3>2. QED
      BY <1>0, <1>t, <2>1, <3>1, InsideKeepsSteers
  <2>4. CASE ~Unsettled
    <3>1. thread' = Append(thread, Tag("steer")) /\ ~drv'.held
      BY <1>q, <2>2, <2>4 DEF PatchSteered, HeldAfter
    <3>2. Placed' = Placed + 1
      BY <1>s, <3>1
    <3>3. QED
      BY <1>0, <2>1, <3>1, <3>2, InsideKeepsSteers
  <2>5. QED
    BY <2>3, <2>4
<1>11. ASSUME UNCHANGED <<pc, thread, att, drv, taken, outcome>> PROVE SteerInv'
  BY <1>0, <1>11 DEF SteerInv, SteerKept, Positions
<1>12. ASSUME Steer PROVE SteerInv'
  BY <1>11, <1>12 DEF Steer, history
<1>13. ASSUME VerifyPasses PROVE SteerInv'
  <2>1. /\ pc = "verify" /\ pc' = "verify" /\ drv'.held = drv.held /\ att' = att
        /\ UNCHANGED <<taken, thread>>
    BY <1>0, <1>13 DEF VerifyPasses, Drivers
  <2>2. ~drv.held
    BY <1>0, <2>1 DEF SteerInv
  <2>3. QED
    BY <1>t, <2>1, <2>2, InsideKeepsSteers
<1>r. ASSUME NEW took \in BOOLEAN, Reject(took) PROVE SteerInv'
  <2>1. /\ pc = "gate" /\ pc' = "stream" /\ att'.retried = att.retried
        /\ thread' = Append(thread, Tag("result"))
    BY <1>0, <1>r DEF Reject, Attempts
  <2>2. \/ taken' = taken /\ drv'.held = drv.held
        \/ taken' = taken + 1 /\ ~drv.held /\ drv'.held
    BY <1>0, <1>r DEF Reject, TakesSteer, Drivers
  <2>3. Placed' = Placed
    BY <1>k, <2>1 DEF Kinds
  <2>4. QED
    BY <2>1, <2>2, <2>3, InsideKeepsSteers
<1>14. ASSUME NEW edit \in BOOLEAN, NEW took \in BOOLEAN, RunTools(edit, took) PROVE SteerInv'
  <2>1. /\ pc = "stream" /\ pc' = "stream" /\ att'.retried = att.retried
        /\ thread' = Append(thread, Tag("result"))
    BY <1>0, <1>14 DEF RunTools, Attempts
  <2>2. \/ taken' = taken /\ drv'.held = drv.held
        \/ taken' = taken + 1 /\ ~drv.held /\ drv'.held
    BY <1>0, <1>14 DEF RunTools, TakesSteer, Drivers
  <2>3. Placed' = Placed
    BY <1>k, <2>1 DEF Kinds
  <2>4. QED
    BY <2>1, <2>2, <2>3, InsideKeepsSteers
<1>15. ASSUME Park \/ Cancel \/ GiveUp \/ Succeed PROVE SteerInv'
  BY <1>15, EndKeepsSteers DEF Park, Cancel, GiveUp, Succeed, Outcomes
<1>16. ASSUME NEW b \in BOOLEAN, VerifyFails(b) PROVE SteerInv'
  <2>1. /\ pc = "verify" /\ pc' \in {"stream", "after", "policy"} /\ att'.retried = att.retried
        /\ drv'.held = drv.held /\ UNCHANGED taken
        /\ UNCHANGED thread \/ thread' = Append(thread, Tag("repair"))
    BY <1>0, <1>16 DEF VerifyFails, Fails, Over, Attempts, Drivers, history
  <2>2. ~drv.held
    BY <1>0, <2>1 DEF SteerInv
  <2>3. Placed' = Placed
    BY <1>t, <1>k, <2>1 DEF Kinds
  <2>4. QED
    BY <2>1, <2>2, <2>3, InsideKeepsSteers
<1>17. ASSUME NEW b \in BOOLEAN, Done(b) PROVE SteerInv'
  <2>1. pc = "verify" /\ pc' \in {"after", "policy"} /\ UNCHANGED <<att, drv, taken, thread>>
    BY <1>17 DEF Done, Over, history
  <2>2. ~drv.held
    BY <1>0, <2>1 DEF SteerInv
  <2>3. QED
    BY <1>t, <2>1, <2>2, InsideKeepsSteers
<1>18. ASSUME NEW b \in BOOLEAN, RetryTextOnly(b) \/ (RetryOnFallback(b) /\ b) PROVE SteerInv'
  <2>1. pc' = "attempt" /\ att'.retried
    BY <1>0, <1>18 DEF RetryTextOnly, RetryOnFallback, Attempts
  <2>2. QED
    BY <2>1 DEF SteerInv, SteerKept
<1>19. ASSUME NEW b \in BOOLEAN, RetryOnFallback(b), ~b PROVE SteerInv'
  BY <1>19, EndKeepsSteers DEF RetryOnFallback, Outcomes
<1>20. ASSUME After PROVE SteerInv'
  <2>1. /\ pc = "after" /\ pc' \in {"policy", "prompt"} /\ drv'.held = drv.held
        /\ att'.retried = att.retried /\ att'.error \in {"fatal", att.error}
        /\ UNCHANGED <<taken, thread>>
    BY <1>0, <1>20 DEF After, Fails, NewDriver, Attempts, Drivers, history
  <2>2. drv'.held => att'.error # None
    BY <1>0, <2>1 DEF SteerInv, Errors
  <2>3. QED
    BY <1>t, <2>1, <2>2, InsideKeepsSteers
<1>21. CASE UNCHANGED vars
  BY <1>11, <1>21 DEF vars, history
<1>22. QED
  BY <1>1, <1>2, <1>3, <1>4, <1>5, <1>p, <1>q, <1>6, <1>7, <1>8, <1>9, <1>10, <1>a, <1>r, <1>12,
     <1>13, <1>14, <1>15,
     <1>16, <1>17, <1>18, <1>19, <1>20, <1>21
  DEF Next, TurnStep, ModelStep

-----------------------------------------------------------------------------
(* The theorems. *)

LEMMA InitAgent == Init => AgentInv
<1> SUFFICES ASSUME Init PROVE AgentInv
  OBVIOUS
<1>1. /\ pc = "idle" /\ thread = <<>> /\ call = "none" /\ candidate = 1 /\ att = NoAttempt /\ drv = NewDriver(0)
      /\ slot = FALSE /\ spent = 0 /\ uncounted = FALSE /\ chain = 0 /\ followup = FALSE
      /\ imagesOff = FALSE /\ outcome = None /\ edited = "none" /\ taken = 0 /\ prompts = 0
      /\ rounds = 0 /\ steers = 0 /\ cancels = 0 /\ followups = 0
  BY DEF Init
<1>2. None # "done" /\ ~drv.held
  BY <1>1, TurnAssumption DEF Outcomes, NewDriver
<1>3. TypeOK
  <2>1. att \in Attempts /\ drv \in Drivers /\ thread \in Seq(Messages)
    BY <1>1, Fresh
  <2>2. candidate \in 1 .. Candidates /\ prompts \in 0 .. MaxPrompts
    BY <1>1, TurnAssumption
  <2>3. QED
    BY <1>1, <2>1, <2>2 DEF TypeOK, CallStates
<1>4. DOMAIN thread = {}
  BY <1>1
<1>5. PromptInv
  BY <1>1, <1>2, <1>4 DEF PromptInv, PromptsOrdered, Prompted, Positions, Unsent, Delivered, Streaming
<1>6. ThreadInv
  BY <1>1, <1>4 DEF ThreadInv, CallsAnswered, ResultsFollow, Positions, Unsettled, Ends
<1>7. EditInv /\ SteerInv /\ BudgetInv
  BY <1>1, <1>2 DEF EditInv, SteerInv, SteerKept, BudgetInv, Streaming
<1>8. RoundInv
  BY <1>1, TurnAssumption DEF RoundInv, DiagBounded
<1>9. QED
  BY <1>3, <1>5, <1>6, <1>7, <1>8 DEF AgentInv

LEMMA NextAgent == AgentInv /\ [Next]_vars => AgentInv'
BY NextType, NextPrompt, NextThread, NextSteers, NextLimits DEF AgentInv, Limits

(* Every step of run_agent_turn, of the driver and of the user keeps AgentInv:
   what is known of a prompt, a call, an edit, a steer and the limits between
   any two steps of a turn, however it fails, is retried or is cancelled. *)
THEOREM TurnInvariant == Spec => []AgentInv
<1>1. Init => AgentInv
  BY InitAgent
<1>2. AgentInv /\ [Next]_vars => AgentInv'
  BY NextAgent
<1>3. QED
  BY <1>1, <1>2, PTL DEF Spec

LEMMA OneCopy ==
  ASSUME AgentInv
  PROVE  PromptOnce
<1>1. \A i, j \in Prompted : i < j => thread[i].n < thread[j].n
  BY DEF AgentInv, PromptInv, PromptsOrdered
<1>2. \A i \in Prompted : i \in Nat /\ thread[i].n \in Nat
  BY MessageFacts, TurnAssumption DEF AgentInv, TypeOK, Prompted, Positions, Messages
<1>3. ASSUME NEW n \in 1 .. prompts PROVE Cardinality(Copies(n)) <= 1
  <2>1. \A i, j \in Copies(n) : i = j
    BY <1>1, <1>2 DEF Copies, Prompted
  <2>2. CASE Copies(n) = {}
    BY <2>2, FS_EmptySet
  <2>3. ASSUME NEW i \in Copies(n) PROVE Cardinality(Copies(n)) <= 1
    <3>1. Copies(n) = {i}
      BY <2>1, <2>3
    <3>2. Cardinality({i}) = 1
      BY FS_Singleton
    <3>3. Cardinality(Copies(n)) = 1
      BY <3>1, <3>2, Zenon
    <3>4. QED
      BY <3>3
  <2>4. QED
    BY <2>2, <2>3
<1>4. (pc = "idle" /\ outcome = "done" /\ att.id # 0) => Copies(att.id) # {}
  BY DEF AgentInv, PromptInv, Copies, Prompted
<1>5. QED
  BY <1>3, <1>4 DEF PromptOnce

(* Whatever is retried, with its images, without them or on another model of
   the chain, the thread holds a prompt at most once, and holds it when
   run_agent_turn returns success: for any chain and any number of turns. *)
THEOREM PromptSentOnce == Spec => []PromptOnce
<1>1. AgentInv => PromptOnce
  BY OneCopy
<1>2. QED
  BY <1>1, TurnInvariant, PTL

(* No model call is given a thread with an unanswered tool call in it: nothing
   but its result, or the prompt of a later turn, comes behind a call; a prompt
   does so only when no approval of the call waits (_pending_interrupts), and
   the middleware of the graph then patches the call before the model runs.
   Steers and repair requests never do (_steer_boundary_settled), a cancel may
   fall anywhere, also while approved tools run, and the removal of a refused
   image parts no call from its result. *)
THEOREM CallsKeepResults == Spec => []CallsAnswered
<1>1. AgentInv => CallsAnswered
  BY DEF AgentInv, ThreadInv
<1>2. QED
  BY <1>1, TurnInvariant, PTL

(* With verify.gate auto, a turn that returns success passed a verification
   after its last edit, for any number of repair rounds. *)
THEOREM SuccessIsVerified == Spec => []DoneIsVerified
<1>1. AgentInv => DoneIsVerified
  BY DEF AgentInv, EditInv, DoneIsVerified
<1>2. QED
  BY <1>1, TurnInvariant, PTL

(* Every steer the driver took out of the slot is in the thread when the turn,
   not retried, returns success: held at an unsettled boundary, a steer is
   placed at the next one. *)
THEOREM SteersAreKept == Spec => []SteerKept
<1>1. AgentInv => SteerKept
  BY DEF AgentInv, SteerInv
<1>2. QED
  BY <1>1, TurnInvariant, PTL

(* The diagnostics follow-ups after a user's line stay within
   diagnostics_max_rounds, no model call starts at a reached hard budget, and
   the cursor of the fallback chain stays in it. *)
THEOREM TurnLimits == Spec => []TurnInv
<1>1. AgentInv => TurnInv
  BY DEF AgentInv, RoundInv, BudgetInv, Streaming, HardStop, TurnInv
<1>2. QED
  BY <1>1, TurnInvariant, PTL

=============================================================================
