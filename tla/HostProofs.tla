----------------------------- MODULE HostProofs -----------------------------
(***************************************************************************)
(* Proofs about what a host keeps for its user outside the gateway: the    *)
(* permissions of its sessions (Permissions), the installed program        *)
(* (Installation) and the processes a session started (BackgroundJobs).    *)
(* The three share no state; each has its own invariant and its own        *)
(* specification, Spec, InstallSpec and JobsSpec, and no step of one proof *)
(* uses a fact of another.                                                 *)
(***************************************************************************)
EXTENDS Permissions, Installation, BackgroundJobs, FiniteSetTheorems, TLAPS

(***************************************************************************)
(* Permissions, for any number of sessions, calls and rules.               *)
(* PermissionInv is inductive together with TypeOK; the properties follow. *)
(***************************************************************************)

\* The rule remembered for a call is a generated rule of the session's workspace.
LEMMA ScopedRuleForType ==
  ASSUME NEW s \in Sessions, NEW c \in Calls
  PROVE  ScopedRuleFor(s, c) \in ScopedRules
  BY PermissionAssumption DEF ScopedRuleFor, ScopedRules

---------------------------------------------------------------------------
(* Type correctness *)

\* A launch leaves the engine's fields of the session well typed.
LEMMA StartType ==
  ASSUME TypeOK, NEW s \in Sessions, NEW ok \in BOOLEAN, NEW content \in SUBSET Entries,
         Start(s, ok, content)
  PROVE  /\ phase' \in [Sessions -> {"off", "boot", "run", "trust"}]
         /\ trusted' \in [Sessions -> BOOLEAN]
         /\ mode' \in [Sessions -> Modes]
         /\ roots' \in [Sessions -> SUBSET Roots]
         /\ projectAllow' \in [Sessions -> SUBSET Entries]
         /\ sessionAllow' = sessionAllow /\ sessionDeny' = sessionDeny
<1>1. mode' \in [Sessions -> Modes]
  BY DEF TypeOK, Start, Clamp, Modes
<1>2. roots' \in [Sessions -> SUBSET Roots]
  BY PermissionAssumption DEF TypeOK, Start
<1> QED
  BY <1>1, <1>2 DEF TypeOK, Start, Load

\* Every action of Next keeps the type invariant.
LEMMA TypeStep ==
  ASSUME TypeOK, [Next]_vars
  PROVE  TypeOK'
<1> USE DEF TypeOK
<1>1. CASE UNCHANGED vars
  BY <1>1 DEF vars, engine, history
<1>2. ASSUME NEW w \in Workspaces, Untrust(w)
      PROVE  TypeOK'
  BY <1>2 DEF Untrust, engine, history
<1>3. CASE EditConfig
  BY <1>3, PermissionAssumption DEF EditConfig, engine, history, Entries, HandRules
<1>4. ASSUME NEW s \in Sessions, LaunchTrusted(s)
      PROVE  TypeOK'
  <2>1. Start(s, TRUE, disk) /\ UNCHANGED <<disk, trust, raw, asked, history>>
    BY <1>4 DEF LaunchTrusted
  <2> QED
    BY <2>1, StartType DEF history
<1>5. ASSUME NEW s \in Sessions, LaunchPrompt(s)
      PROVE  TypeOK'
  BY <1>5 DEF LaunchPrompt, engine, history
<1>6. ASSUME NEW s \in Sessions, LaunchGranted(s)
      PROVE  TypeOK'
  <2>1. Start(s, TRUE, raw[s])
    BY <1>6 DEF LaunchGranted
  <2>2. {raw[s]} \in SUBSET SUBSET Entries
    OBVIOUS
  <2>3. trust' \in [Workspaces -> SUBSET SUBSET Entries]
    BY <1>6, <2>2 DEF LaunchGranted
  <2> QED
    BY <1>6, <2>1, <2>3, StartType DEF LaunchGranted
<1>7. ASSUME NEW s \in Sessions, LaunchAborted(s)
      PROVE  TypeOK'
  BY <1>7 DEF LaunchAborted, engine, history
<1>8. ASSUME NEW s \in Sessions, LaunchDeclined(s)
      PROVE  TypeOK'
  <2>1. Start(s, FALSE, raw[s])
    BY <1>8 DEF LaunchDeclined
  <2> QED
    BY <1>8, <2>1, StartType DEF LaunchDeclined, history
<1>9. ASSUME NEW s \in Sessions, LaunchIgnoring(s)
      PROVE  TypeOK'
  <2>1. Start(s, TRUE, {})
    BY <1>9 DEF LaunchIgnoring
  <2> QED
    BY <1>9, <2>1, StartType DEF LaunchIgnoring, history
<1>10. ASSUME NEW s \in Sessions, Exit(s)
       PROVE  TypeOK'
  BY <1>10, PermissionAssumption DEF Exit, Modes
<1>11. ASSUME NEW s \in Sessions, Approve(s)
       PROVE  TypeOK'
  <2> DEFINE c == asked[s].call
             rule == ScopedRuleFor(s, c)
  <2>1. asked[s] \in Asks /\ c \in Calls
    BY <1>11 DEF Approve, Asks
  <2>2. rule \in ScopedRules
    BY <2>1, ScopedRuleForType
  <2>3. PICK offer \in Offered(asked[s]) :
          LET scope == ScopeOf(asked[s], offer) IN
          /\ Remember(s, c, scope)
          /\ grants' = grants \cup
               (IF scope = "once" THEN {}
                ELSE {[by |-> s, workspace |-> Workspace[s], call |-> c,
                       scope |-> scope, blocked |-> asked[s].blocked]})
    BY <1>11 DEF Approve
  <2> DEFINE scope == ScopeOf(asked[s], offer)
  <2>4. scope \in {"once", "session", "always"}
    BY <2>3 DEF Offered, ScopeOf
  <2>5. sessionAllow' \in [Sessions -> SUBSET ScopedRules] /\ disk' \subseteq Entries
    BY <2>2, <2>3, <2>4 DEF Remember, Entries
  <2>6. grants' \subseteq Grants
    BY <2>1, <2>3, <2>4, PermissionAssumption DEF Grants, Asks
  <2>7. replies' \in Nat /\ asked' \in [Sessions -> Asks \cup {NoAsk}]
    BY <1>11 DEF Approve
  <2> QED
    BY <1>11, <2>5, <2>6, <2>7 DEF Approve
<1>12. ASSUME NEW s \in Sessions, Reject(s)
       PROVE  TypeOK'
  <2> DEFINE c == asked[s].call
  <2>1. c \in Calls
    BY <1>12 DEF Reject, Asks
  <2>2. ScopedRuleFor(s, c) \in ScopedRules
    BY <2>1, ScopedRuleForType
  <2> QED
    BY <1>12, <2>1, <2>2 DEF Reject
<1>13. ASSUME NEW s \in Sessions, ApplyMode(s) \/ ApprovePlan(s) \/ Preset(s)
       PROVE  TypeOK'
  BY <1>13 DEF ApplyMode, ApprovePlan, Preset, Clamp, Modes, history
<1>14. ASSUME NEW s \in Sessions, ConfigSet(s)
       PROVE  TypeOK'
  BY <1>14 DEF ConfigSet, Load, Clamp, Modes, history
<1>15. ASSUME NEW s \in Sessions, AddRoot(s)
       PROVE  TypeOK'
  BY <1>15 DEF AddRoot, history
<1>16. ASSUME NEW s \in Sessions, TrustRead(s)
       PROVE  TypeOK'
  BY <1>16 DEF TrustRead, engine, history
<1>17. ASSUME NEW s \in Sessions, TrustCommit(s)
       PROVE  TypeOK'
  <2>1. {raw[s]} \in SUBSET SUBSET Entries
    OBVIOUS
  <2>2. trust' \in [Workspaces -> SUBSET SUBSET Entries]
    BY <1>17, <2>1 DEF TrustCommit
  <2> QED
    BY <1>17, <2>2 DEF TrustCommit, Load, Clamp, Modes
<1>18. ASSUME NEW s \in Sessions, TrustRefused(s)
       PROVE  TypeOK'
  BY <1>18 DEF TrustRefused, engine, history
<1>19. ASSUME NEW s \in Sessions, NEW c \in Calls, Gate(s, c) \/ VerifyGate(s, c)
       PROVE  TypeOK'
  <2> DEFINE b == GuardFor(s, c) = "dangerous"
  <2>1. b \in BOOLEAN
    OBVIOUS
  <2>2. /\ \E v \in {"tool", "verify"} :
             asked' = [asked EXCEPT ![s] = [call |-> c, via |-> v, blocked |-> b]]
        /\ UNCHANGED <<disk, trust, phase, raw, engine, history>>
    BY <1>19 DEF Gate, VerifyGate
  <2> HIDE DEF b
  <2> QED
    BY <2>1, <2>2 DEF Asks, engine, history
<1> QED
  BY <1>1, <1>2, <1>3, <1>4, <1>5, <1>6, <1>7, <1>8, <1>9, <1>10, <1>11, <1>12, <1>13,
     <1>14, <1>15, <1>16, <1>17, <1>18, <1>19 DEF Next

\* The initial state is well typed.
LEMMA TypeInit ==
  Init => TypeOK
  BY PermissionAssumption DEF Init, TypeOK, Entries, HandRules, Modes

\* The state of every session, of the project's file and of the trust record
\* keeps its shape for every value of the constants.
THEOREM TypeCorrect ==
  Spec => []TypeOK
  BY TypeInit, TypeStep, PTL DEF Spec

---------------------------------------------------------------------------
(* The inductive invariant *)

\* A launch gives the session the content it loads or nothing, and an
\* untrusted one plan mode.
LEMMA StartInv ==
  ASSUME TypeOK, PermissionInv, NEW s \in Sessions, NEW ok \in BOOLEAN,
         NEW content \in SUBSET Entries, AlwaysGranted(content),
         Start(s, ok, content), UNCHANGED <<disk, grants, rejected>>,
         raw' = raw \/ raw' = [raw EXCEPT ![s] = {}]
  PROVE  PermissionInv'
<1>1. UntrustedFloor'
  BY DEF TypeOK, PermissionInv, UntrustedFloor, Start, Load, Clamp, Running
<1>2. RejectsAreKept' /\ SessionRulesGranted' /\ PersistedIsSafe'
  BY DEF PermissionInv, RejectsAreKept, SessionRulesGranted, PersistedIsSafe, AlwaysGranted,
         Start, ScopedRuleFor
<1>3. \A x \in Sessions : projectAllow'[x] \in {projectAllow[x], content, {}}
  BY DEF TypeOK, Start, Load
<1>4. \A x \in Sessions : raw'[x] \in {raw[x], {}}
  BY DEF TypeOK
<1>5. (\A x \in Sessions : AlwaysGranted(raw[x]) /\ AlwaysGranted(projectAllow[x]))'
  BY <1>3, <1>4 DEF PermissionInv, AlwaysGranted
<1> QED
  BY <1>1, <1>2, <1>5 DEF PermissionInv

\* A step that touches none of the rule lists, the file or the bookkeeping.
LEMMA QuietInv ==
  ASSUME TypeOK, PermissionInv, UntrustedFloor',
         UNCHANGED <<disk, raw, projectAllow, sessionAllow, sessionDeny, grants, rejected>>
  PROVE  PermissionInv'
  BY DEF PermissionInv, RejectsAreKept, SessionRulesGranted, PersistedIsSafe, AlwaysGranted,
         ScopedRuleFor

\* Reading the file, or dropping what was read.
LEMMA ReadInv ==
  ASSUME TypeOK, PermissionInv, UntrustedFloor', NEW s \in Sessions,
         raw' = [raw EXCEPT ![s] = disk] \/ raw' = [raw EXCEPT ![s] = {}],
         UNCHANGED <<disk, projectAllow, sessionAllow, sessionDeny, grants, rejected>>
  PROVE  PermissionInv'
<1>1. \A x \in Sessions : raw'[x] \in {raw[x], disk, {}}
  BY DEF TypeOK
<1> QED
  BY <1>1 DEF PermissionInv, RejectsAreKept, SessionRulesGranted, PersistedIsSafe,
              AlwaysGranted, ScopedRuleFor

\* Every action of Next keeps the invariant.
LEMMA InvStep ==
  ASSUME TypeOK, PermissionInv, [Next]_vars
  PROVE  PermissionInv'
<1>1. CASE UNCHANGED vars
  BY <1>1, QuietInv DEF vars, engine, history, PermissionInv, UntrustedFloor, Running
<1>2. ASSUME NEW w \in Workspaces, Untrust(w)
      PROVE  PermissionInv'
  BY <1>2, QuietInv DEF Untrust, engine, history, PermissionInv, UntrustedFloor, Running
<1>3. CASE EditConfig
  <2>1. ByHand(RepoAllow) \in HandRules
    BY PermissionAssumption DEF HandRules
  <2> QED
    BY <1>3, <2>1
       DEF EditConfig, engine, history, PermissionInv, UntrustedFloor, Running,
           RejectsAreKept, SessionRulesGranted, PersistedIsSafe, AlwaysGranted, ScopedRuleFor
<1>4. ASSUME NEW s \in Sessions, LaunchTrusted(s)
      PROVE  PermissionInv'
  <2>1. Start(s, TRUE, disk) /\ UNCHANGED <<disk, raw, grants, rejected>>
    BY <1>4 DEF LaunchTrusted, history
  <2>2. AlwaysGranted(disk) /\ disk \in SUBSET Entries
    BY DEF PermissionInv, PersistedIsSafe, TypeOK
  <2> QED
    BY <2>1, <2>2, StartInv
<1>5. ASSUME NEW s \in Sessions, LaunchPrompt(s)
      PROVE  PermissionInv'
  <2>1. UntrustedFloor'
    BY <1>5 DEF LaunchPrompt, engine, TypeOK, PermissionInv, UntrustedFloor, Running
  <2> QED
    BY <1>5, <2>1, ReadInv DEF LaunchPrompt, engine, history
<1>6. ASSUME NEW s \in Sessions, LaunchGranted(s)
      PROVE  PermissionInv'
  <2>1. /\ Start(s, TRUE, raw[s]) /\ raw' = [raw EXCEPT ![s] = {}]
        /\ UNCHANGED <<disk, grants, rejected>>
    BY <1>6 DEF LaunchGranted
  <2>2. AlwaysGranted(raw[s]) /\ raw[s] \in SUBSET Entries
    BY DEF PermissionInv, TypeOK
  <2> QED
    BY <2>1, <2>2, StartInv
<1>7. ASSUME NEW s \in Sessions, LaunchAborted(s)
      PROVE  PermissionInv'
  <2>1. UntrustedFloor'
    BY <1>7 DEF LaunchAborted, engine, TypeOK, PermissionInv, UntrustedFloor, Running
  <2> QED
    BY <1>7, <2>1, ReadInv DEF LaunchAborted, engine, history
<1>8. ASSUME NEW s \in Sessions, LaunchDeclined(s)
      PROVE  PermissionInv'
  <2>1. /\ Start(s, FALSE, raw[s]) /\ raw' = [raw EXCEPT ![s] = {}]
        /\ UNCHANGED <<disk, grants, rejected>>
    BY <1>8 DEF LaunchDeclined, history
  <2>2. AlwaysGranted(raw[s]) /\ raw[s] \in SUBSET Entries
    BY DEF PermissionInv, TypeOK
  <2> QED
    BY <2>1, <2>2, StartInv
<1>9. ASSUME NEW s \in Sessions, LaunchIgnoring(s)
      PROVE  PermissionInv'
  <2>1. Start(s, TRUE, {}) /\ UNCHANGED <<disk, raw, grants, rejected>>
    BY <1>9 DEF LaunchIgnoring, history
  <2>2. AlwaysGranted({})
    BY DEF AlwaysGranted
  <2> QED
    BY <2>1, <2>2, StartInv
<1>10. ASSUME NEW s \in Sessions, Exit(s)
       PROVE  PermissionInv'
  <2>1. UntrustedFloor'
    BY <1>10 DEF Exit, TypeOK, PermissionInv, UntrustedFloor, Running
  <2>2. RejectsAreKept'
    BY <1>10 DEF Exit, TypeOK, PermissionInv, RejectsAreKept, ScopedRuleFor
  <2>3. \A g \in grants : (g.by # s \/ g.scope = "always") => g \in grants'
    BY <1>10 DEF Exit
  <2>4. SessionRulesGranted'
    BY <1>10, <2>3 DEF Exit, TypeOK, PermissionInv, SessionRulesGranted
  <2>5. \A x \in Sessions : projectAllow'[x] \in {projectAllow[x], {}}
    BY <1>10 DEF Exit, TypeOK
  <2>6. PersistedIsSafe'
    BY <1>10, <2>3 DEF Exit, PermissionInv, PersistedIsSafe, AlwaysGranted
  <2>7. (\A x \in Sessions : AlwaysGranted(raw[x]) /\ AlwaysGranted(projectAllow[x]))'
    BY <1>10, <2>3, <2>5 DEF Exit, PermissionInv, AlwaysGranted
  <2> QED
    BY <2>1, <2>2, <2>4, <2>6, <2>7 DEF PermissionInv
<1>11. ASSUME NEW s \in Sessions, Approve(s)
       PROVE  PermissionInv'
  <2> DEFINE c == asked[s].call
             rule == ScopedRuleFor(s, c)
  <2>1. asked[s] \in Asks /\ c \in Calls
    BY <1>11 DEF Approve, TypeOK, Asks
  <2>2. PICK offer \in Offered(asked[s]) :
          LET scope == ScopeOf(asked[s], offer) IN
          /\ Remember(s, c, scope)
          /\ grants' = grants \cup
               (IF scope = "once" THEN {}
                ELSE {[by |-> s, workspace |-> Workspace[s], call |-> c,
                       scope |-> scope, blocked |-> asked[s].blocked]})
    BY <1>11 DEF Approve
  <2> DEFINE scope == ScopeOf(asked[s], offer)
             grant == [by |-> s, workspace |-> Workspace[s], call |-> c,
                       scope |-> scope, blocked |-> asked[s].blocked]
  <2>3. grants \subseteq grants' /\ (scope # "once" => grant \in grants')
    BY <2>2
  <2>4. scope = "always" => ~asked[s].blocked
    BY <2>1, <2>2 DEF Offered, ScopeOf, Asks
  <2>5. /\ rule.kind = grant.call.kind /\ rule.tool = grant.call.tool
        /\ rule.rule = grant.call.rule /\ rule.workspace = grant.workspace
    BY DEF ScopedRuleFor
  <2>6. UntrustedFloor' /\ RejectsAreKept'
    BY <1>11 DEF Approve, PermissionInv, UntrustedFloor, RejectsAreKept, Running,
                 ScopedRuleFor
  <2>7. \A x \in Sessions : \A e \in sessionAllow'[x] :
          e \in sessionAllow[x] \/ (x = s /\ e = rule /\ scope # "once")
    BY <2>2 DEF Remember, TypeOK
  <2>8. SessionRulesGranted'
    <3> SUFFICES ASSUME NEW x \in Sessions, NEW e \in sessionAllow'[x]
                 PROVE  \E g \in grants' :
                          /\ g.by = x
                          /\ e.kind = g.call.kind /\ e.tool = g.call.tool
                          /\ e.rule = g.call.rule /\ e.workspace = g.workspace
      BY DEF SessionRulesGranted
    <3>1. CASE e \in sessionAllow[x]
      BY <3>1, <2>3 DEF PermissionInv, SessionRulesGranted
    <3>2. CASE x = s /\ e = rule /\ scope # "once"
      <4>1. grant \in grants' /\ grant.by = x
        BY <3>2, <2>3
      <4> QED
        BY <3>2, <4>1, <2>5
    <3> QED
      BY <2>7, <3>1, <3>2
  <2>9. \A e \in disk' : e \in disk \/ (e = rule /\ scope = "always")
    BY <2>2 DEF Remember
  <2>10. PersistedIsSafe'
    <3> SUFFICES ASSUME NEW e \in disk' \ HandRules
                 PROVE  \E g \in grants' :
                          /\ g.scope = "always" /\ ~g.blocked
                          /\ e.kind = g.call.kind /\ e.tool = g.call.tool
                          /\ e.rule = g.call.rule /\ e.workspace = g.workspace
      BY DEF PersistedIsSafe, AlwaysGranted
    <3>1. CASE e \in disk
      BY <3>1, <2>3 DEF PermissionInv, PersistedIsSafe, AlwaysGranted
    <3>2. CASE e = rule /\ scope = "always"
      <4>1. grant \in grants' /\ grant.scope = "always" /\ ~grant.blocked
        BY <3>2, <2>3, <2>4
      <4> QED
        BY <3>2, <4>1, <2>5
    <3> QED
      BY <2>9, <3>1, <3>2
  <2>11. (\A x \in Sessions : AlwaysGranted(raw[x]) /\ AlwaysGranted(projectAllow[x]))'
    BY <1>11, <2>3 DEF Approve, PermissionInv, AlwaysGranted
  <2> QED
    BY <2>6, <2>8, <2>10, <2>11 DEF PermissionInv
<1>12. ASSUME NEW s \in Sessions, Reject(s)
       PROVE  PermissionInv'
  <2> DEFINE c == asked[s].call
  <2>1. RejectsAreKept'
    <3>1. \A x \in Sessions : sessionDeny[x] \subseteq sessionDeny'[x]
      BY <1>12 DEF Reject, TypeOK
    <3>2. \A x \in Sessions : \A d \in rejected'[x] :
            d \in rejected[x] \/ (x = s /\ d = c /\ ScopedRuleFor(s, c) \in sessionDeny'[s])
      BY <1>12 DEF Reject, TypeOK
    <3> QED
      BY <3>1, <3>2 DEF PermissionInv, RejectsAreKept, ScopedRuleFor
  <2>2. UntrustedFloor' /\ SessionRulesGranted' /\ PersistedIsSafe'
    BY <1>12 DEF Reject, PermissionInv, UntrustedFloor, SessionRulesGranted, PersistedIsSafe,
                 AlwaysGranted, Running
  <2>3. (\A x \in Sessions : AlwaysGranted(raw[x]) /\ AlwaysGranted(projectAllow[x]))'
    BY <1>12 DEF Reject, PermissionInv, AlwaysGranted
  <2> QED
    BY <2>1, <2>2, <2>3 DEF PermissionInv
<1>13. ASSUME NEW s \in Sessions, ApplyMode(s) \/ ApprovePlan(s) \/ Preset(s)
       PROVE  PermissionInv'
  <2>1. UntrustedFloor'
    BY <1>13 DEF ApplyMode, ApprovePlan, Preset, Clamp, TypeOK, PermissionInv,
                 UntrustedFloor, Running
  <2> QED
    BY <1>13, <2>1, QuietInv DEF ApplyMode, ApprovePlan, Preset, history
<1>14. ASSUME NEW s \in Sessions, ConfigSet(s)
       PROVE  PermissionInv'
  <2>1. UntrustedFloor'
    BY <1>14 DEF ConfigSet, Load, Clamp, TypeOK, PermissionInv, UntrustedFloor, Running
  <2>2. \A x \in Sessions : projectAllow'[x] \in {projectAllow[x], disk, {}}
    BY <1>14 DEF ConfigSet, Load, TypeOK
  <2> QED
    BY <1>14, <2>1, <2>2
       DEF ConfigSet, history, PermissionInv, RejectsAreKept, SessionRulesGranted,
           PersistedIsSafe, AlwaysGranted, ScopedRuleFor
<1>15. ASSUME NEW s \in Sessions, AddRoot(s)
       PROVE  PermissionInv'
  BY <1>15, QuietInv DEF AddRoot, history, PermissionInv, UntrustedFloor, Running
<1>16. ASSUME NEW s \in Sessions, TrustRead(s)
       PROVE  PermissionInv'
  <2>1. UntrustedFloor'
    BY <1>16 DEF TrustRead, Idle, engine, TypeOK, PermissionInv, UntrustedFloor, Running
  <2> QED
    BY <1>16, <2>1, ReadInv DEF TrustRead, engine, history
<1>17. ASSUME NEW s \in Sessions, TrustCommit(s)
       PROVE  PermissionInv'
  <2>1. UntrustedFloor'
    BY <1>17 DEF TrustCommit, Load, Clamp, TypeOK, PermissionInv, UntrustedFloor, Running
  <2>2. \A x \in Sessions : /\ projectAllow'[x] \in {projectAllow[x], raw[s], {}}
                           /\ raw'[x] \in {raw[x], {}}
    BY <1>17 DEF TrustCommit, Load, TypeOK
  <2> QED
    BY <1>17, <2>1, <2>2
       DEF TrustCommit, PermissionInv, RejectsAreKept, SessionRulesGranted,
           PersistedIsSafe, AlwaysGranted, ScopedRuleFor
<1>18. ASSUME NEW s \in Sessions, TrustRefused(s)
       PROVE  PermissionInv'
  <2>1. UntrustedFloor'
    BY <1>18 DEF TrustRefused, engine, TypeOK, PermissionInv, UntrustedFloor, Running
  <2> QED
    BY <1>18, <2>1, ReadInv DEF TrustRefused, engine, history
<1>19. ASSUME NEW s \in Sessions, NEW c \in Calls, Gate(s, c) \/ VerifyGate(s, c)
       PROVE  PermissionInv'
  BY <1>19, QuietInv DEF Gate, VerifyGate, engine, history, PermissionInv, UntrustedFloor,
                         Running
<1> QED
  BY <1>1, <1>2, <1>3, <1>4, <1>5, <1>6, <1>7, <1>8, <1>9, <1>10, <1>11, <1>12, <1>13,
     <1>14, <1>15, <1>16, <1>17, <1>18, <1>19 DEF Next

\* The initial state: no session runs, and the file holds no generated rule.
LEMMA InvInit ==
  Init => PermissionInv
  BY PermissionAssumption
     DEF Init, PermissionInv, UntrustedFloor, RejectsAreKept, SessionRulesGranted,
         PersistedIsSafe, AlwaysGranted, HandRules, Running

\* Every rule held in a process, in the project's file or in a copy of it goes
\* back to an approval that is in force, every rejection is still in the deny
\* list, and an untrusted session stays on the floor.
THEOREM InductiveInvariant ==
  Spec => [](TypeOK /\ PermissionInv)
<1>1. Init => TypeOK /\ PermissionInv
  BY TypeInit, InvInit
<1>2. TypeOK /\ PermissionInv /\ [Next]_vars => (TypeOK /\ PermissionInv)'
  BY TypeStep, InvStep
<1> QED
  BY <1>1, <1>2, PTL DEF Spec

---------------------------------------------------------------------------
(* The properties *)

\* No sequence of launches, mode changes, presets, plan approvals and reloads
\* takes an untrusted session off plan mode or gives it the project's rules.
THEOREM FloorHolds ==
  Spec => []UntrustedFloor
  BY InductiveInvariant, PTL DEF PermissionInv

\* Only an approval that could be remembered "always" is ever in the file.
THEOREM PersistedRulesAreSafe ==
  Spec => []PersistedIsSafe
  BY InductiveInvariant, PTL DEF PermissionInv

\* The rule of a rejected call matches the call itself, and deny rules are
\* looked up before everything that could allow it.
LEMMA RejectedInState ==
  ASSUME TypeOK, RejectsAreKept
  PROVE  RejectedStaysDenied
<1> SUFFICES ASSUME NEW s \in Sessions, NEW c \in rejected[s], c.rule # NoRule
             PROVE  Evaluate(s, c) = "deny"
  BY DEF RejectedStaysDenied
<1> DEFINE e == ScopedRuleFor(s, c)
<1>1. c \in Calls /\ c.rule \in Texts /\ c.rule \in c.targets
  BY PermissionAssumption DEF TypeOK
<1>2. e \in AllDeny(s)
  BY DEF RejectsAreKept, AllDeny
<1>3. Applies(e, c.kind, c.tool, Workspace[s]) /\ e.rule = c.rule
  BY DEF Applies, ScopedRuleFor
<1>4. Covers[e.rule] \cap c.targets # {}
  BY <1>1, <1>3, PermissionAssumption
<1>5. Denied(s, c)
  BY <1>1, <1>2, <1>3, <1>4 DEF Denied, Matches
<1> QED
  BY <1>5 DEF Evaluate

\* Whatever is approved, loaded or switched after a rejection, the rejected
\* call stays denied until the process ends.
THEOREM RejectionHolds ==
  Spec => []RejectedStaysDenied
<1>1. TypeOK /\ PermissionInv => RejectedStaysDenied
  BY RejectedInState DEF PermissionInv
<1> QED
  BY <1>1, InductiveInvariant, PTL

\* A list entry that allows a text was written by hand or approved.
LEMMA AllowedIsConsented ==
  ASSUME TypeOK, PermissionInv, NEW s \in Sessions, NEW c \in Calls,
         NEW texts \in SUBSET Texts, Allowed(s, c, texts)
  PROVE  Consented(s, c, texts)
<1>1. PICK e \in AllAllow(s) : /\ Applies(e, c.kind, c.tool, Workspace[s])
                              /\ e.rule \in Texts /\ Covers[e.rule] \cap texts # {}
  BY DEF Allowed, Matches
<1>2. CASE e \in HandRules
  <2>1. PICK t \in Texts : e = ByHand(t)
    BY <1>2 DEF HandRules
  <2>2. e.rule = t
    BY <2>1 DEF ByHand
  <2> QED
    BY <1>1, <2>1, <2>2 DEF Consented, HandRuleCovers
<1>3. CASE e \notin HandRules
  <2>1. e.kind = c.kind /\ e.tool = c.tool /\ e.workspace = Workspace[s] /\ e.rule # NoRule
    BY <1>1, <1>3 DEF Applies
  <2>2. e \in sessionAllow[s] \/ e \in projectAllow[s]
    BY <1>3, PermissionAssumption DEF AllAllow, HandRules
  <2>3. \E g \in grants : /\ g.by = s \/ g.scope = "always"
                         /\ e.kind = g.call.kind /\ e.tool = g.call.tool
                         /\ e.rule = g.call.rule /\ e.workspace = g.workspace
    BY <1>3, <2>2 DEF PermissionInv, SessionRulesGranted, AlwaysGranted
  <2> QED
    BY <1>1, <2>1, <2>3 DEF Consented, GrantCovers
<1> QED
  BY <1>2, <1>3

\* In every state of the invariant, what runs without a question was consented to.
LEMMA ConsentInState ==
  ASSUME TypeOK, PermissionInv
  PROVE  AllowIsConsented
<1> SUFFICES ASSUME NEW s \in Sessions, NEW c \in Calls, Evaluate(s, c) = "allow"
             PROVE  IF c.kind = "read" THEN \A t \in c.sensitive : Consented(s, c, {t})
                    ELSE ModeDecision(s, c) = "allow" \/ Consented(s, c, c.targets)
  BY DEF AllowIsConsented
<1>1. CASE c.kind = "read"
  <2>1. \A t \in c.sensitive : Allowed(s, c, {t})
    BY <1>1 DEF Evaluate, ReadDecision
  <2>2. \A t \in c.sensitive : {t} \in SUBSET Texts
    BY PermissionAssumption
  <2> QED
    BY <1>1, <2>1, <2>2, AllowedIsConsented
<1>2. CASE c.kind # "read"
  <2>1. Allowed(s, c, c.targets) \/ ModeDecision(s, c) = "allow"
    BY <1>2 DEF Evaluate
  <2>2. c.targets \in SUBSET Texts
    BY PermissionAssumption
  <2> QED
    BY <1>2, <2>1, <2>2, AllowedIsConsented
<1> QED
  BY <1>1, <1>2

\* No call runs without a question unless the mode, a hand-written rule or an
\* approval in force for the same kind, tool and workspace allows it.
THEOREM ConsentHolds ==
  Spec => []AllowIsConsented
<1>1. TypeOK /\ PermissionInv => AllowIsConsented
  BY ConsentInState
<1> QED
  BY <1>1, InductiveInvariant, PTL

(***************************************************************************)
(* Installation, for any number of installer runs, rollback commands,      *)
(* versions, kills and faults.  InstallInv is inductive; the properties    *)
(* follow from it.                                                         *)
(***************************************************************************)

\* What the install directory holds at each of its paths.
Dirs == [Paths -> 0 .. MaxVersion]

-----------------------------------------------------------------------------
(* Paths and the renames *)

(* The names of the install directory are all different. *)
LEMMA PathFacts ==
  /\ Bin \in Paths /\ Rollbacks \subseteq Paths /\ Stages \subseteq Paths
  /\ Bin \notin Rollbacks /\ Bin \notin Stages /\ NoPath \notin Paths
  /\ Rollbacks \cap Stages = {} /\ NoPath # Bin
  /\ \A c \in Cmds : /\ ExchangeOf(c) \in Paths /\ ExchangeOf(c) # Bin
                     /\ ExchangeOf(c) \notin Rollbacks /\ ExchangeOf(c) \notin Stages
  /\ \A p \in Runs : /\ RollbackOf(p) \in Rollbacks /\ StageOf(p) \in Stages
                     /\ RollbackOf(p) # RollbackOf(NoOne)
  /\ RollbackOf(NoOne) \in Rollbacks
  /\ \A p, q \in Runs : RollbackOf(p) = RollbackOf(q) => p = q
  /\ \A p, q \in Runs : StageOf(p) = StageOf(q) => p = q
<1> USE InstallationAssumption
<1>1. /\ Bin \in Paths /\ Rollbacks \subseteq Paths /\ Stages \subseteq Paths
      /\ \A c \in Cmds : ExchangeOf(c) \in Paths
      /\ \A p \in Runs : RollbackOf(p) \in Rollbacks /\ StageOf(p) \in Stages
      /\ RollbackOf(NoOne) \in Rollbacks
  BY DEF Paths, Rollbacks, Stages
<1>2. Bin \notin Rollbacks /\ Bin \notin Stages /\ NoPath # Bin
  BY DEF Bin, Rollbacks, Stages, RollbackOf, StageOf, NoPath
<1>3. Rollbacks \cap Stages = {}
  BY DEF Rollbacks, Stages, RollbackOf, StageOf
<1>4. \A c \in Cmds : ExchangeOf(c) # Bin /\ ExchangeOf(c) \notin Rollbacks /\ ExchangeOf(c) \notin Stages
  BY DEF Bin, Rollbacks, Stages, RollbackOf, StageOf, ExchangeOf
<1>5. NoPath \notin Paths
  BY DEF Bin, NoPath, Paths, Rollbacks, Stages, RollbackOf, StageOf, ExchangeOf
<1>6. /\ \A p, q \in Runs : RollbackOf(p) = RollbackOf(q) => p = q
      /\ \A p, q \in Runs : StageOf(p) = StageOf(q) => p = q
      /\ \A p \in Runs : RollbackOf(p) # RollbackOf(NoOne)
  BY DEF RollbackOf, StageOf
<1> QED
  BY <1>1, <1>2, <1>3, <1>4, <1>5, <1>6

(* A rename empties one path, fills another and touches no third. *)
LEMMA MovedIs ==
  ASSUME NEW d \in Dirs, NEW a \in Paths, NEW b \in Paths, a # b
  PROVE  /\ Moved(d, a, b) \in Dirs /\ Moved(d, a, b)[b] = d[a] /\ Moved(d, a, b)[a] = 0
         /\ \A x \in Paths : x # a /\ x # b => Moved(d, a, b)[x] = d[x]
<1>1. 0 \in 0 .. MaxVersion
  BY InstallationAssumption
<1> QED
  BY <1>1 DEF Moved, Dirs

LEMMA AsideIs ==
  ASSUME NEW d \in Dirs, NEW a \in Paths
  PROVE  /\ Aside(d, a) \in Dirs /\ Aside(d, a)[a] = 0
         /\ \A x \in Paths : x # a => Aside(d, a)[x] = d[x]
<1>1. 0 \in 0 .. MaxVersion
  BY InstallationAssumption
<1> QED
  BY <1>1 DEF Aside, Dirs

LEMMA StagesAsideIs ==
  ASSUME NEW d \in Dirs
  PROVE  /\ StagesAside(d) \in Dirs
         /\ \A x \in Paths : x \notin Stages => StagesAside(d)[x] = d[x]
         /\ StagesAside(d)[Bin] = d[Bin]
         /\ \A x \in Rollbacks : StagesAside(d)[x] = d[x]
<1>1. 0 \in 0 .. MaxVersion
  BY InstallationAssumption
<1> QED
  BY <1>1, PathFacts DEF StagesAside, Dirs

(* The command is put aside, a rollback is put back, the command becomes a rollback *)
LEMMA AsideShelf ==
  ASSUME NEW d \in Dirs
  PROVE  Aside(d, Bin) \in Dirs /\ Aside(d, Bin)[Bin] = 0 /\ \A x \in Rollbacks : Aside(d, Bin)[x] = d[x]
<1>1. Bin \in Paths /\ Bin \notin Rollbacks /\ Rollbacks \subseteq Paths
  BY PathFacts
<1> QED
  BY <1>1, AsideIs

LEMMA MovedIn ==
  ASSUME NEW d \in Dirs, NEW x \in Rollbacks
  PROVE  LET e == Moved(d, x, Bin) IN
         /\ e \in Dirs /\ e[Bin] = d[x] /\ e[x] = 0 /\ \A y \in Rollbacks : y # x => e[y] = d[y]
         /\ \A y \in Stages : e[y] = d[y]
<1>1. Bin \in Paths /\ Bin \notin Rollbacks /\ Rollbacks \subseteq Paths /\ Stages \subseteq Paths
      /\ Bin \notin Stages /\ Rollbacks \cap Stages = {} /\ x # Bin /\ x \in Paths
  BY PathFacts
<1> QED
  BY <1>1, MovedIs

LEMMA MovedOut ==
  ASSUME NEW d \in Dirs, NEW x \in Rollbacks
  PROVE  LET e == Moved(d, Bin, x) IN
         /\ e \in Dirs /\ e[Bin] = 0 /\ e[x] = d[Bin] /\ \A y \in Rollbacks : y # x => e[y] = d[y]
         /\ \A y \in Stages : e[y] = d[y]
<1>1. Bin \in Paths /\ Bin \notin Rollbacks /\ Rollbacks \subseteq Paths /\ Stages \subseteq Paths
      /\ Bin \notin Stages /\ Rollbacks \cap Stages = {} /\ x # Bin /\ x \in Paths
  BY PathFacts
<1> QED
  BY <1>1, MovedIs

(* What only depends on the command and the rollbacks *)
LEMMA SameShelf ==
  ASSUME NEW d, NEW e, \A x \in Rollbacks : e[x] = d[x]
  PROVE  OldRollbacks(e) = OldRollbacks(d)
BY DEF OldRollbacks, Present

(* The sole rollback that a fresh start would put back *)
LEMMA SoleIs ==
  ASSUME NEW d, OldRollbacks(d) # {}
  PROVE  SoleRollback(d) \in Rollbacks
BY DEF SoleRollback, OldRollbacks

LEMMA RestoreOrphanIs ==
  ASSUME NEW d \in Dirs
  PROVE  RestoreOrphan(d) \in Dirs
BY SoleIs, MovedIs, PathFacts DEF RestoreOrphan

LEMMA TrapRestoresIs ==
  ASSUME NEW d \in Dirs, NEW r \in RunRecords, r.had => r.prev # NoPath
  PROVE  TrapRestores(r, d) \in Dirs
<1>1. r.prev \in Rollbacks \/ r.prev = NoPath
  BY DEF RunRecords
<1>2. r.prev \in Rollbacks => Moved(d, r.prev, Bin) \in Dirs
  BY MovedIs, PathFacts
<1>3. Aside(d, Bin) \in Dirs
  BY AsideIs, PathFacts
<1> QED
  BY <1>1, <1>2, <1>3 DEF TrapRestores

-----------------------------------------------------------------------------
(* Types *)

LEMMA BoundFacts ==
  /\ MaxVersion \in Nat /\ 0 \in 0 .. MaxVersion /\ Versions \subseteq 0 .. MaxVersion
  /\ 0 \notin Versions
BY InstallationAssumption DEF Versions

LEMMA ConstantRecords ==
  /\ NoManifest \in Receipts /\ NoJournal \in Journals
  /\ NoManifest.there = FALSE /\ NoManifest.prev = NoPath
  /\ NoJournal.had = FALSE /\ NoJournal.prev = NoPath /\ NoJournal.pid = NoOne
  /\ NoJournal.phase = "none"
BY BoundFacts DEF NoManifest, NoJournal, Receipts, Journals

(* A process that ends or starts has nothing of an earlier run. *)
LEMMA IdleIs ==
  /\ \A pc \in RunPcs : [RunIdle EXCEPT !.pc = pc] \in RunRecords
  /\ \A pc : [RunIdle EXCEPT !.pc = pc].pc = pc
  /\ \A pc \in RunPcs : pc \notin BeforeLock => Blank([RunIdle EXCEPT !.pc = pc])
  /\ \A pc : [RunIdle EXCEPT !.pc = pc].prev = NoPath
  /\ \A pc : [RunIdle EXCEPT !.pc = pc].saved.manifest = NoManifest
  /\ \A pc : [RunIdle EXCEPT !.pc = pc].had = FALSE
  /\ RunIdle.pc = "idle" /\ RunIdle \in RunRecords
<1>1. RunIdle \in RunRecords
  BY BoundFacts, ConstantRecords DEF RunIdle, RunRecords, RunPcs
<1> QED
  BY <1>1 DEF RunIdle, RunRecords, Blank

LEMMA CmdIdleIs ==
  /\ CmdIdle \in CmdRecords /\ CmdIdle.pc = "idle" /\ CmdIdle.rec = NoManifest
BY BoundFacts, ConstantRecords DEF CmdIdle, CmdRecords

(* One run changes, the others keep their variables. *)
LEMMA RunUpdate ==
  ASSUME NEW f \in [Runs -> RunRecords], NEW p \in Runs, NEW r \in RunRecords
  PROVE  /\ [f EXCEPT ![p] = r] \in [Runs -> RunRecords] /\ [f EXCEPT ![p] = r][p] = r
         /\ \A q \in Runs : q # p => [f EXCEPT ![p] = r][q] = f[q]
OBVIOUS

LEMMA CmdUpdate ==
  ASSUME NEW f \in [Cmds -> CmdRecords], NEW c \in Cmds, NEW k \in CmdRecords
  PROVE  /\ [f EXCEPT ![c] = k] \in [Cmds -> CmdRecords] /\ [f EXCEPT ![c] = k][c] = k
         /\ \A q \in Cmds : q # c => [f EXCEPT ![c] = k][q] = f[q]
OBVIOUS

(* The installer p moved to r, and no other run moved. *)
Becomes(p, r) ==
  /\ run' \in [Runs -> RunRecords] /\ r \in RunRecords /\ run'[p] = r
  /\ \A q \in Runs : q # p => run'[q] = run[q]

LEMMA GotoIs ==
  ASSUME run \in [Runs -> RunRecords], NEW p \in Runs, NEW pc \in RunPcs, RunGoto(p, pc)
  PROVE  Becomes(p, [run[p] EXCEPT !.pc = pc])
<1> DEFINE r == [run[p] EXCEPT !.pc = pc]
<1>1. r \in RunRecords
  BY DEF RunRecords
<1>2. run' = [run EXCEPT ![p] = r]
  BY DEF RunGoto
<1> HIDE DEF r
<1>3. Becomes(p, r)
  BY <1>1, <1>2, RunUpdate DEF Becomes
<1> QED
  BY <1>3 DEF r

LEMMA EndIs ==
  ASSUME run \in [Runs -> RunRecords], NEW p \in Runs, NEW pc \in RunPcs, End(p, pc)
  PROVE  Becomes(p, [RunIdle EXCEPT !.pc = pc])
<1> DEFINE r == [RunIdle EXCEPT !.pc = pc]
<1>1. r \in RunRecords
  BY IdleIs
<1>2. run' = [run EXCEPT ![p] = r]
  BY DEF End
<1> HIDE DEF r
<1>3. Becomes(p, r)
  BY <1>1, <1>2, RunUpdate DEF Becomes
<1> QED
  BY <1>3 DEF r

-----------------------------------------------------------------------------
(* What a step of one installer leaves alone *)

LEMMA NamesAre ==
  ASSUME InstallTypeOK
  PROVE  /\ {manifest.prev, journal.prev} \subseteq Named \cup {NoPath}
         /\ \A q \in Runs : {run[q].prev, run[q].saved.manifest.prev} \subseteq Named \cup {NoPath}
         /\ \A c \in Cmds : cmd[c].rec.prev \in Named \cup {NoPath}
         /\ \A x \in Rollbacks : Present(dir, x) => x \in Named
         /\ Named \subseteq Rollbacks
<1>1. manifest.prev \in Rollbacks \cup {NoPath} /\ journal.prev \in Rollbacks \cup {NoPath}
  BY DEF InstallTypeOK, Receipts, Journals
<1>2. \A q \in Runs : run[q].prev \in Rollbacks \cup {NoPath} /\ run[q].saved.manifest.prev \in Rollbacks \cup {NoPath}
  BY DEF InstallTypeOK, RunRecords, Receipts
<1>3. \A c \in Cmds : cmd[c].rec.prev \in Rollbacks \cup {NoPath}
  BY DEF InstallTypeOK, CmdRecords, Receipts
<1> QED
  BY <1>1, <1>2, <1>3 DEF Named

LEMMA FreshKept ==
  ASSUME InstallTypeOK, FreshOK, NEW p \in Runs, NEW r, Becomes(p, r), cmd' = cmd,
         r.pc \in Early => run[p].pc \in Early,
         NEW S, Named \subseteq S, S \subseteq Named \cup {RollbackOf(p)}, r.pc \in Early => S = Named,
         \A x \in Rollbacks : Present(dir', x) => x \in S,
         {manifest'.prev, journal'.prev, r.prev, r.saved.manifest.prev} \subseteq S \cup {NoPath}
  PROVE  FreshOK'
<1>1. \A q \in Runs : {run'[q].prev, run'[q].saved.manifest.prev} \subseteq S \cup {NoPath}
  BY NamesAre DEF Becomes
<1>2. \A c \in Cmds : cmd'[c].rec.prev \in S \cup {NoPath}
  BY NamesAre
<1>3. NoPath \notin Rollbacks
  BY PathFacts
<1>4. Named' \subseteq S
  BY <1>1, <1>2, <1>3 DEF Named
<1>5. SUFFICES ASSUME NEW q \in Runs, run'[q].pc \in Early PROVE RollbackOf(q) \notin S
  BY <1>4 DEF FreshOK
<1>6. CASE q = p
  BY <1>5, <1>6 DEF FreshOK, Becomes
<1>7. CASE q # p
  <2>1. run'[q] = run[q] /\ RollbackOf(q) # RollbackOf(p)
    BY <1>7, PathFacts DEF Becomes
  <2> QED
    BY <1>5, <2>1 DEF FreshOK
<1> QED
  BY <1>6, <1>7

LEMMA LockKept ==
  ASSUME LockOK, NEW p \in Runs, NEW r, Becomes(p, r), mishaps \subseteq mishaps', lock' = lock,
         r.pc \in Holding => run[p].pc \in Holding, r.pc = "publish" => run[p].pc = "publish"
  PROVE  LockOK'
BY DEF LockOK, Becomes

LEMMA LockReleased ==
  ASSUME LockOK, NEW p \in Runs, NEW r, Becomes(p, r), mishaps \subseteq mishaps', lock' = Released(p),
         r.pc \notin Holding, r.pc # "publish"
  PROVE  LockOK'
<1>1. SUFFICES ASSUME "lock stolen" \notin mishaps'
               PROVE  /\ \A q \in Runs : run'[q].pc = "publish" => lock' = "bare"
                      /\ \A q \in Runs : run'[q].pc \in Holding => lock' = q
                      /\ \A q, s \in Runs : run'[q].pc = "publish" /\ run'[s].pc = "publish" => q = s
  BY DEF LockOK
<1>2. \A q \in Runs : run'[q].pc = "publish" \/ run'[q].pc \in Holding => q # p /\ run'[q] = run[q]
  BY DEF Becomes
<1>3. "bare" # p
  BY InstallationAssumption
<1> QED
  BY <1>1, <1>2, <1>3 DEF LockOK, Released

LEMMA BlankKept ==
  ASSUME BlankOK, NEW p \in Runs, NEW r, Becomes(p, r), r.pc \in Holding \/ Blank(r)
  PROVE  BlankOK'
BY DEF BlankOK, Becomes

LEMMA Alone ==
  ASSUME LockOK, "lock stolen" \notin mishaps, NEW p \in Runs, run[p].pc \in Holding
  PROVE  \A q \in Runs : q # p => run[q].pc \notin Holding
BY DEF LockOK

(* Undisturbed after a step, hence before it *)
LEMMA CalmBefore ==
  ASSUME mishaps \subseteq mishaps', Undisturbed'
  PROVE  Undisturbed /\ "lock stolen" \notin mishaps /\ (mishaps' = {} => mishaps = {})
BY DEF Undisturbed

LEMMA Bystander ==
  ASSUME HolderInv, RestInv, NEW p \in Runs, NEW r, Becomes(p, r),
         run[p].pc \notin Holding, r.pc \notin Holding,
         UNCHANGED <<dir, manifest, journal, cmd, flock, mishaps>>
  PROVE  HolderInv' /\ RestInv'
<1>1. \A q \in Runs : run'[q].pc \in Holding => q # p /\ run'[q] = run[q]
  BY DEF Becomes
<1>2. \A q \in Runs : run[q].pc \in Holding => run'[q] = run[q]
  BY DEF Becomes
<1>3. HolderInv'
  <2>1. SUFFICES ASSUME NEW q \in Runs, run'[q].pc \in Holding
                 PROVE  /\ HolderOK(q, run'[q], dir', manifest', journal', mishaps' = {})
                        /\ \A c \in Cmds : cmd'[c].pc = "idle"
    BY DEF HolderInv
  <2> QED
    BY <1>1, <2>1 DEF HolderInv
<1>4. RestInv'
  <2>1. NoHolder' => NoHolder
    BY <1>2 DEF NoHolder
  <2>2. SUFFICES ASSUME NoHolder'
                 PROVE  /\ (\A c \in Cmds : cmd'[c].pc \notin MidSwap) => RestOK(dir', manifest', journal', mishaps' = {})
                        /\ journal' # NoJournal => \A c \in Cmds : cmd'[c].pc = "idle"
                        /\ \A c \in Cmds : CmdOK(c, cmd'[c], dir', manifest', flock', mishaps' = {})
    BY DEF RestInv
  <2> QED
    BY <2>1, <2>2 DEF RestInv
<1> QED
  BY <1>3, <1>4

(* The installer that holds the lock goes on. *)
LEMMA HolderGoes ==
  ASSUME LockOK, "lock stolen" \notin mishaps, HolderInv, NEW p \in Runs, NEW r, Becomes(p, r),
         run[p].pc \in Holding, r.pc \in Holding, cmd' = cmd,
         HolderOK(p, r, dir', manifest', journal', mishaps' = {})
  PROVE  HolderInv' /\ RestInv'
<1>1. \A q \in Runs : q # p => run'[q].pc \notin Holding
  BY Alone DEF Becomes
<1>2. run'[p] = r
  BY DEF Becomes
<1>3. \A c \in Cmds : cmd'[c].pc = "idle"
  BY DEF HolderInv
<1>4. ~NoHolder'
  BY <1>2 DEF NoHolder
<1> QED
  BY <1>1, <1>2, <1>3, <1>4 DEF HolderInv, RestInv

(* The installer that holds the lock stops. *)
LEMMA HolderEnds ==
  ASSUME LockOK, "lock stolen" \notin mishaps, HolderInv, NEW p \in Runs, NEW r, Becomes(p, r),
         run[p].pc \in Holding, r.pc \notin Holding, cmd' = cmd,
         RestOK(dir', manifest', journal', mishaps' = {})
  PROVE  HolderInv' /\ RestInv'
<1>1. \A q \in Runs : run'[q].pc \notin Holding
  BY Alone DEF Becomes
<1>3. \A c \in Cmds : cmd'[c].pc = "idle"
  BY DEF HolderInv
<1>4. \A c \in Cmds : CmdOK(c, cmd'[c], dir', manifest', flock', mishaps' = {})
  BY <1>3 DEF CmdOK
<1> QED
  BY <1>1, <1>3, <1>4 DEF HolderInv, RestInv

(* A step that the installer p takes inside the lock. *)
LEMMA HolderStep ==
  ASSUME InstallInv, NEW p \in Runs, NEW r, Becomes(p, r), run[p].pc \in Holding, r.pc \in Holding,
         UNCHANGED StepVars,
         dir' \in Dirs, manifest' \in Receipts, journal' \in Journals, profile' \in BOOLEAN,
         r.had => r.prev # NoPath, journal'.had => journal'.prev # NoPath,
         r.pc \in Early => run[p].pc \in Early,
         NEW S, Named \subseteq S, S \subseteq Named \cup {RollbackOf(p)}, r.pc \in Early => S = Named,
         \A x \in Rollbacks : Present(dir', x) => x \in S,
         {manifest'.prev, journal'.prev, r.prev, r.saved.manifest.prev} \subseteq S \cup {NoPath},
         Undisturbed /\ HolderOK(p, run[p], dir, manifest, journal, mishaps = {}) =>
           HolderOK(p, r, dir', manifest', journal', mishaps = {})
  PROVE  InstallInv'
<1>1. InstallTypeOK /\ HadOK /\ LockOK /\ BlankOK /\ FreshOK
  BY DEF InstallInv
<1>2. InstallTypeOK'
  BY <1>1 DEF InstallTypeOK, StepVars, Becomes, Dirs
<1>3. HadOK'
  BY <1>1 DEF HadOK, Becomes, StepVars
<1>4. LockOK'
  <2>1. lock' = lock /\ mishaps' = mishaps /\ r.pc # "publish"
    BY DEF StepVars, Holding
  <2> QED
    BY <1>1, <2>1, LockKept
<1>5. BlankOK'
  BY <1>1, BlankKept
<1>6. FreshOK'
  <2>1. cmd' = cmd
    BY DEF StepVars
  <2> QED
    BY <1>1, <2>1, FreshKept
<1>7. ASSUME Undisturbed' PROVE HolderInv' /\ RestInv'
  <2>1. cmd' = cmd /\ mishaps' = mishaps
    BY DEF StepVars
  <2>2. Undisturbed /\ "lock stolen" \notin mishaps
    BY <1>7, <2>1, CalmBefore
  <2>3. HolderInv
    BY <2>2 DEF InstallInv
  <2>4. HolderOK(p, r, dir', manifest', journal', mishaps' = {})
    BY <2>1, <2>2, <2>3 DEF HolderInv
  <2> QED
    BY <1>1, <2>1, <2>2, <2>3, <2>4, HolderGoes
<1> QED
  BY <1>2, <1>3, <1>4, <1>5, <1>6, <1>7 DEF InstallInv

(* The end of an installer inside the lock *)
LEMMA HolderStop ==
  ASSUME InstallInv, NEW p \in Runs, NEW pc \in {"done", "failed", "killed"}, End(p, pc),
         run[p].pc \in Holding, lock' \in {lock, Released(p)},
         UNCHANGED <<cmd, flock>>, cmds' = cmds, kills' \in 0 .. MaxKills, faults' \in 0 .. MaxFaults,
         mishaps' \in {mishaps, Stopped(p)},
         dir' \in Dirs, manifest' \in Receipts, journal' \in Journals, profile' \in BOOLEAN,
         journal'.had => journal'.prev # NoPath,
         \A x \in Rollbacks : Present(dir', x) => x \in Named,
         {manifest'.prev, journal'.prev} \subseteq Named \cup {NoPath},
         Undisturbed' /\ HolderOK(p, run[p], dir, manifest, journal, mishaps = {}) =>
           RestOK(dir', manifest', journal', mishaps' = {})
  PROVE  InstallInv'
<1> DEFINE r == [RunIdle EXCEPT !.pc = pc]
<1>1. InstallTypeOK /\ HadOK /\ LockOK /\ BlankOK /\ FreshOK
  BY DEF InstallInv
<1>a. pc \in RunPcs /\ pc \notin Holding /\ pc # "publish" /\ pc \notin Early /\ pc \notin BeforeLock
  BY DEF RunPcs, Holding, Early, BeforeLock
<1>b. Becomes(p, r)
  BY <1>1, <1>a, EndIs DEF InstallTypeOK
<1>c. r.pc = pc /\ Blank(r) /\ r.prev = NoPath /\ r.saved.manifest.prev = NoPath /\ ~r.had
  BY <1>a, IdleIs, ConstantRecords
<1> HIDE DEF r
<1>d. mishaps \subseteq mishaps'
  BY DEF Stopped
<1>2. InstallTypeOK'
  <2>1. lock' \in {"free", "bare"} \cup Runs
    BY <1>1 DEF InstallTypeOK, Released
  <2>2. mishaps' \subseteq {"lock stolen", "overlap", "uninstalled", "rollback killed",
                 "recovery interrupted", "recovery unrecorded"}
    BY <1>1 DEF InstallTypeOK, Stopped
  <2> QED
    BY <1>1, <1>b, <2>1, <2>2 DEF InstallTypeOK, Becomes, Dirs
<1>3. HadOK'
  BY <1>1, <1>b, <1>c DEF HadOK, Becomes
<1>4. LockOK'
  BY <1>1, <1>a, <1>b, <1>c, <1>d, LockKept, LockReleased
<1>5. BlankOK'
  BY <1>1, <1>b, <1>c, BlankKept
<1>6. FreshOK'
  <2>1. {manifest'.prev, journal'.prev, r.prev, r.saved.manifest.prev} \subseteq Named \cup {NoPath}
    BY <1>c
  <2>2. cmd' = cmd /\ (r.pc \in Early => run[p].pc \in Early)
    BY <1>a, <1>c
  <2> QED
    BY <1>1, <1>b, <2>1, <2>2, FreshKept
<1>7. ASSUME Undisturbed' PROVE HolderInv' /\ RestInv'
  <2>2. Undisturbed /\ "lock stolen" \notin mishaps
    BY <1>7, <1>d, CalmBefore
  <2>3. HolderInv
    BY <2>2 DEF InstallInv
  <2>4. RestOK(dir', manifest', journal', mishaps' = {})
    BY <1>7, <2>2, <2>3 DEF HolderInv
  <2>5. r.pc \notin Holding /\ cmd' = cmd
    BY <1>a, <1>c
  <2> QED
    BY <1>1, <1>b, <2>5, <2>2, <2>3, <2>4, HolderEnds
<1> QED
  BY <1>2, <1>3, <1>4, <1>5, <1>6, <1>7 DEF InstallInv

(* A step that the installer p takes outside the lock: it touches the lock directory at most. *)
LEMMA OutsideStep ==
  ASSUME InstallInv, NEW p \in Runs, NEW r, Becomes(p, r), run[p].pc \notin Holding, r.pc \notin Holding,
         Blank(r), r.pc \in Early => run[p].pc \in Early, r.saved.manifest.prev \in Named \cup {NoPath},
         UNCHANGED <<dir, manifest, journal, profile, cmd, flock>>, UNCHANGED <<faults, cmds>>,
         kills' \in 0 .. MaxKills,
         lock' \in {"free", "bare"} \cup Runs, mishaps' \in {mishaps, mishaps \cup {"lock stolen"}}, LockOK'
  PROVE  InstallInv'
<1>1. InstallTypeOK /\ HadOK /\ LockOK /\ BlankOK /\ FreshOK
  BY DEF InstallInv
<1>2. InstallTypeOK'
  BY <1>1 DEF InstallTypeOK, Becomes
<1>3. HadOK'
  BY <1>1 DEF HadOK, Becomes, Blank
<1>5. BlankOK'
  BY <1>1, BlankKept
<1>6. FreshOK'
  <2>1. {manifest'.prev, journal'.prev, r.prev, r.saved.manifest.prev} \subseteq Named \cup {NoPath}
    BY <1>1, NamesAre DEF Blank
  <2>2. \A x \in Rollbacks : Present(dir', x) => x \in Named
    BY <1>1, NamesAre
  <2> QED
    BY <1>1, <2>1, <2>2, FreshKept
<1>7. ASSUME Undisturbed' PROVE HolderInv' /\ RestInv'
  <2>1. mishaps' = mishaps
    BY <1>7 DEF Undisturbed
  <2>2. HolderInv /\ RestInv
    BY <1>7, <2>1, CalmBefore DEF InstallInv
  <2> QED
    BY <2>1, <2>2, Bystander
<1> QED
  BY <1>2, <1>3, <1>5, <1>6, <1>7 DEF InstallInv

-----------------------------------------------------------------------------
(* The steps outside the lock *)

LEMMA OutsideFacts ==
  ASSUME InstallInv, NEW p \in Runs
  PROVE  /\ run \in [Runs -> RunRecords] /\ run[p] \in RunRecords
         /\ run[p].saved.manifest.prev \in Named \cup {NoPath}
         /\ run[p].pc \notin Holding => Blank(run[p])
         /\ LockOK /\ lock \in {"free", "bare"} \cup Runs /\ kills \in 0 .. MaxKills
         /\ BeforeLock \subseteq RunPcs /\ BeforeLock \subseteq Early /\ BeforeLock \cap Holding = {}
         /\ "idle" \notin Holding /\ "idle" \in Early
         /\ "failed" \in RunPcs /\ "failed" \notin Holding \cup Early \cup BeforeLock
         /\ "killed" \in RunPcs /\ "killed" \notin Holding \cup Early \cup BeforeLock
         /\ "lock" \in BeforeLock /\ "wait" \in BeforeLock /\ "stale" \in BeforeLock /\ "publish" \in BeforeLock
<1>1. InstallTypeOK /\ BlankOK /\ LockOK
  BY DEF InstallInv
<1>2. run[p].saved.manifest.prev \in Named \cup {NoPath}
  BY <1>1, NamesAre
<1> QED
  BY <1>1, <1>2 DEF InstallTypeOK, BlankOK, BeforeLock, Holding, RunPcs, Early

(* The run gives up, or is killed, before it holds the lock. *)
LEMMA OutsideEnds ==
  ASSUME InstallInv, NEW p \in Runs, run[p].pc \notin Holding, NEW pc \in {"failed", "killed"},
         End(p, pc), UNCHANGED <<dir, manifest, journal, profile, cmd, flock>>,
         UNCHANGED <<faults, cmds>>, kills' \in 0 .. MaxKills, UNCHANGED <<lock, mishaps>>
  PROVE  InstallInv'
<1> DEFINE r == [RunIdle EXCEPT !.pc = pc]
<1>1. pc \in RunPcs /\ pc \notin Holding /\ pc \notin Early /\ pc \notin BeforeLock /\ pc # "publish"
  BY OutsideFacts
<1>2. Becomes(p, r)
  BY <1>1, EndIs, OutsideFacts
<1>3. r.pc = pc /\ Blank(r) /\ r.saved.manifest.prev = NoPath
  BY <1>1, IdleIs, ConstantRecords
<1> HIDE DEF r
<1>4. LockOK'
  BY <1>1, <1>2, <1>3, OutsideFacts, LockKept
<1> QED
  BY <1>1, <1>2, <1>3, <1>4, OutsideFacts, OutsideStep

(* The run moves on before it holds the lock, and leaves the lock alone. *)
LEMMA OutsideMoves ==
  ASSUME InstallInv, NEW p \in Runs, run[p].pc \in BeforeLock, NEW pc \in BeforeLock,
         RunGoto(p, pc), UNCHANGED LockVars,
         lock' \in {"free", "bare"} \cup Runs, mishaps' \in {mishaps, mishaps \cup {"lock stolen"}}, LockOK'
  PROVE  InstallInv'
<1> DEFINE r == [run[p] EXCEPT !.pc = pc]
<1>1. Becomes(p, r)
  BY GotoIs, OutsideFacts
<1>a. run[p] \in RunRecords /\ Blank(run[p])
  BY OutsideFacts
<1>2. r.pc = pc /\ Blank(r) /\ r.saved = run[p].saved
  BY <1>a DEF Blank, RunRecords
<1> HIDE DEF r
<1>3. /\ UNCHANGED <<dir, manifest, journal, profile, cmd, flock>> /\ UNCHANGED <<faults, cmds>>
      /\ kills' \in 0 .. MaxKills
  BY OutsideFacts DEF LockVars
<1>4. run[p].pc \notin Holding /\ pc \notin Holding /\ pc \in Early /\ run[p].pc \in Early
  BY OutsideFacts
<1>5. r.saved.manifest.prev \in Named \cup {NoPath}
  BY <1>2, OutsideFacts
<1> QED
  BY <1>1, <1>2, <1>3, <1>4, <1>5, OutsideStep

LEMMA StartInstallerStep ==
  ASSUME InstallInv, NEW p \in Runs, NEW v \in Versions, NEW how \in {"curl", "update"}, StartInstaller(p, v, how)
  PROVE  InstallInv'
<1> DEFINE r == [RunIdle EXCEPT !.pc = "lock", !.ver = v, !.how = how]
<1>1. r \in RunRecords /\ r.pc = "lock" /\ Blank(r) /\ r.saved.manifest.prev = NoPath
  <2>1. RunIdle \in RunRecords
    BY IdleIs
  <2> QED
    BY <2>1, OutsideFacts, BoundFacts, ConstantRecords DEF RunIdle, RunRecords, Blank
<1>2. run' = [run EXCEPT ![p] = r] /\ run[p].pc = "idle"
  BY DEF StartInstaller
<1> HIDE DEF r
<1>3. Becomes(p, r)
  BY <1>1, <1>2, RunUpdate, OutsideFacts DEF Becomes
<1>4. /\ UNCHANGED <<dir, manifest, journal, profile, cmd, flock>> /\ UNCHANGED <<faults, cmds>>
      /\ kills' \in 0 .. MaxKills /\ lock' = lock /\ mishaps' = mishaps
  BY OutsideFacts DEF LockVars, StartInstaller
<1>5. r.pc \notin Holding /\ r.pc # "publish"
  BY <1>1, OutsideFacts
<1>6. LockOK'
  BY <1>3, <1>4, <1>5, LockKept, OutsideFacts
<1> QED
  BY <1>1, <1>2, <1>3, <1>4, <1>5, <1>6, OutsideFacts, OutsideStep

LEMMA MakeLockStep ==
  ASSUME InstallInv, NEW p \in Runs, MakeLock(p)
  PROVE  InstallInv'
<1>1. /\ run[p].pc = "lock" /\ lock = "free" /\ lock' = "bare" /\ mishaps' = mishaps
      /\ RunGoto(p, "publish") /\ UNCHANGED LockVars
  BY DEF MakeLock
<1>2. Becomes(p, [run[p] EXCEPT !.pc = "publish"])
  BY <1>1, GotoIs, OutsideFacts
<1>3. "free" \notin Runs /\ "bare" \notin Runs
  BY InstallationAssumption
<1>4. "lock stolen" \notin mishaps => \A q \in Runs : run[q].pc \notin Holding /\ run[q].pc # "publish"
  BY <1>1, <1>3, OutsideFacts DEF LockOK
<1>5. run'[p].pc = "publish" /\ \A q \in Runs : q # p => run'[q] = run[q]
  BY <1>2, OutsideFacts DEF Becomes, RunRecords
<1>6. LockOK'
  <2>1. "publish" \notin Holding
    BY OutsideFacts
  <2>2. SUFFICES ASSUME "lock stolen" \notin mishaps'
                 PROVE  /\ \A q \in Runs : run'[q].pc = "publish" => lock' = "bare"
                        /\ \A q \in Runs : run'[q].pc \in Holding => lock' = q
                        /\ \A q, s \in Runs : run'[q].pc = "publish" /\ run'[s].pc = "publish" => q = s
    BY DEF LockOK
  <2>3. \A q \in Runs : q # p => run'[q].pc \notin Holding /\ run'[q].pc # "publish"
    BY <1>1, <1>4, <1>5, <2>2
  <2> QED
    BY <1>1, <1>5, <2>1, <2>3
<1> QED
  BY <1>1, <1>6, OutsideFacts, OutsideMoves

LEMMA InspectLockStep ==
  ASSUME InstallInv, NEW p \in Runs, InspectLock(p)
  PROVE  InstallInv'
<1>1. /\ run[p].pc = "lock" /\ lock' = lock /\ mishaps' = mishaps /\ UNCHANGED LockVars
      /\ UNCHANGED <<dir, manifest, journal, profile, cmd, flock>> /\ UNCHANGED <<faults, cmds>>
      /\ kills' \in 0 .. MaxKills /\ run[p].pc \notin Holding
  BY OutsideFacts DEF InspectLock, LockVars
<1>2. CASE run[p].tries = 3 \/ LockVerdict = "failed"
  <2>1. End(p, "failed")
    BY <1>2 DEF InspectLock
  <2> QED
    BY <1>1, <2>1, OutsideEnds
<1>3. CASE ~(run[p].tries = 3 \/ LockVerdict = "failed")
  <2> DEFINE r == [run[p] EXCEPT !.tries = @ + 1, !.pc = LockVerdict]
  <2>1. run' = [run EXCEPT ![p] = r]
    BY <1>3 DEF InspectLock
  <2>2. LockVerdict \in {"lock", "wait", "stale"}
    BY <1>3 DEF LockVerdict
  <2>3. run[p].tries + 1 \in 0 .. 3
    BY <1>3, OutsideFacts DEF RunRecords
  <2>4. LockVerdict \in RunPcs /\ LockVerdict \in BeforeLock /\ LockVerdict # "publish"
    BY <2>2, OutsideFacts
  <2>5. r \in RunRecords /\ r.pc = LockVerdict /\ Blank(r) /\ r.saved = run[p].saved
    BY <1>1, <2>3, <2>4, OutsideFacts DEF RunRecords, Blank
  <2> HIDE DEF r
  <2>6. Becomes(p, r)
    BY <2>1, <2>5, RunUpdate, OutsideFacts DEF Becomes
  <2>7. LockOK'
    BY <1>1, <2>4, <2>5, <2>6, LockKept, OutsideFacts
  <2>8. r.pc \notin Holding /\ r.pc \in Early /\ run[p].pc \in Early
    BY <1>1, <2>4, <2>5, OutsideFacts
  <2>9. r.saved.manifest.prev \in Named \cup {NoPath} /\ lock' \in {"free", "bare"} \cup Runs
    BY <1>1, <2>5, OutsideFacts
  <2> QED
    BY <1>1, <2>5, <2>6, <2>7, <2>8, <2>9, OutsideStep
<1> QED
  BY <1>2, <1>3

LEMMA WaitForPidStep ==
  ASSUME InstallInv, NEW p \in Runs, WaitForPid(p)
  PROVE  InstallInv'
<1>1. /\ run[p].pc = "wait" /\ lock' = lock /\ mishaps' = mishaps /\ UNCHANGED LockVars
      /\ UNCHANGED <<dir, manifest, journal, profile, cmd, flock>> /\ UNCHANGED <<faults, cmds>>
      /\ kills' \in 0 .. MaxKills /\ run[p].pc \notin Holding /\ run[p].pc \in BeforeLock
  BY OutsideFacts DEF WaitForPid, LockVars
<1> DEFINE pc == IF lock = "bare" THEN "stale" ELSE LockVerdict
<1>2. CASE lock # "bare" /\ LockVerdict = "failed"
  <2>1. End(p, "failed")
    BY <1>2 DEF WaitForPid
  <2> QED
    BY <1>1, <2>1, OutsideEnds
<1>3. CASE ~(lock # "bare" /\ LockVerdict = "failed")
  <2>1. RunGoto(p, pc)
    BY <1>3 DEF WaitForPid
  <2>2. pc \in {"lock", "wait", "stale"}
    BY <1>3 DEF LockVerdict
  <2> HIDE DEF pc
  <2>3. pc \in BeforeLock /\ pc \in RunPcs /\ pc # "publish" /\ pc \notin Holding
    BY <2>2, OutsideFacts
  <2>4. Becomes(p, [run[p] EXCEPT !.pc = pc])
    BY <2>1, <2>3, GotoIs, OutsideFacts
  <2>5. [run[p] EXCEPT !.pc = pc].pc = pc
    BY OutsideFacts DEF RunRecords
  <2>6. LockOK'
    BY <1>1, <2>3, <2>4, <2>5, LockKept, OutsideFacts
  <2>7. lock' \in {"free", "bare"} \cup Runs
    BY <1>1, OutsideFacts
  <2> QED
    BY <1>1, <2>1, <2>3, <2>6, <2>7, OutsideMoves
<1> QED
  BY <1>2, <1>3

LEMMA QuarantineLockStep ==
  ASSUME InstallInv, NEW p \in Runs, QuarantineLock(p)
  PROVE  InstallInv'
<1>1. /\ run[p].pc = "stale" /\ UNCHANGED LockVars
      /\ UNCHANGED <<dir, manifest, journal, profile, cmd, flock>> /\ UNCHANGED <<faults, cmds>>
      /\ kills' \in 0 .. MaxKills /\ run[p].pc \notin Holding /\ run[p].pc \in BeforeLock
  BY OutsideFacts DEF QuarantineLock, LockVars
<1>2. CASE lock = "free"
  <2>1. End(p, "failed") /\ UNCHANGED <<lock, mishaps>>
    BY <1>2 DEF QuarantineLock
  <2> QED
    BY <1>1, <2>1, OutsideEnds
<1>3. CASE lock # "free"
  <2>1. /\ RunGoto(p, "lock") /\ lock' = "free"
        /\ mishaps' = IF LockInUse THEN mishaps \cup {"lock stolen"} ELSE mishaps
    BY <1>3 DEF QuarantineLock
  <2>2. Becomes(p, [run[p] EXCEPT !.pc = "lock"])
    BY <2>1, GotoIs, OutsideFacts
  <2>3. run'[p].pc = "lock" /\ \A q \in Runs : q # p => run'[q] = run[q]
    BY <2>2, OutsideFacts DEF Becomes, RunRecords
  <2>4. ASSUME "lock stolen" \notin mishaps'
        PROVE  \A q \in Runs : run[q].pc \notin Holding /\ run[q].pc # "publish"
    <3>1. "lock stolen" \notin mishaps /\ ~LockInUse
      BY <2>1, <2>4
    <3>2. SUFFICES ASSUME NEW q \in Runs, run[q].pc \in Holding \/ run[q].pc = "publish" PROVE LockInUse
      BY <3>1
    <3>3. CASE run[q].pc \in Holding
      BY <3>1, <3>3, OutsideFacts DEF LockOK, LockInUse, Live
    <3>4. CASE run[q].pc = "publish"
      BY <3>1, <3>4, OutsideFacts DEF LockOK, LockInUse
    <3> QED
      BY <3>2, <3>3, <3>4
  <2>5. LockOK'
    <3>1. "lock" \notin Holding
      BY OutsideFacts
    <3> QED
      BY <2>3, <2>4, <3>1 DEF LockOK
  <2>6. lock' \in {"free", "bare"} \cup Runs /\ mishaps' \in {mishaps, mishaps \cup {"lock stolen"}}
    BY <2>1
  <2>7. "lock" \in BeforeLock
    BY OutsideFacts
  <2> QED
    BY <1>1, <2>1, <2>5, <2>6, <2>7, OutsideMoves
<1> QED
  BY <1>2, <1>3

LEMMA OwnJournalIs ==
  ASSUME NEW p \in Runs, NEW r \in RunRecords, NEW ph \in {"prepared", "activating", "activated"}
  PROVE  LET j == OwnJournal(p, r, ph) IN
         /\ j # NoJournal /\ j \in Journals /\ j.phase = ph /\ j.pid = p /\ j.ver = r.ver
         /\ j.had = r.had /\ j.prev = r.prev
<1> DEFINE j == OwnJournal(p, r, ph)
<1>1. j \in Journals /\ j.phase = ph /\ j.pid = p /\ j.ver = r.ver /\ j.had = r.had /\ j.prev = r.prev
  BY DEF OwnJournal, RunRecords, Journals
<1>2. j # NoJournal
  BY <1>1, ConstantRecords
<1> QED
  BY <1>1, <1>2

LEMMA VersionPresent ==
  ASSUME NEW d, NEW v \in Versions, d[Bin] = v
  PROVE  Present(d, Bin)
BY BoundFacts DEF Present

(* The files that an installer leaves when it is killed between its renames *)
LEMMA HolderRest ==
  ASSUME NEW p \in Runs, NEW r \in RunRecords, NEW d, NEW m, NEW j, NEW told \in BOOLEAN, NEW still \in BOOLEAN,
         HolderOK(p, r, d, m, j, told), r.pc \in Holding,
         ~(r.pc = "clear" /\ j.phase # "prepared" /\ j.had /\ ~Present(d, j.prev)),
         still => told /\ ~r.recovering
  PROVE  RestOK(d, m, j, still)
<1>1. AtStep(p, r, d, m, j, told) /\ r.ver \in Versions
  BY DEF HolderOK
<1>2. CASE r.pc = "reconcile"
  BY <1>1, <1>2 DEF AtStep, RestOK
<1>3. CASE r.pc \in {"choose", "begin", "keep", "stage", "prepare"}
  <2>1. Settled(r, d, m, j, told)
    BY <1>1, <1>3 DEF AtStep
  <2> QED
    BY <2>1 DEF Settled, RestOK
<1>4. CASE r.pc \in {"retain", "note", "swap", "smoke"}
  <2>1. JournalOK(j, d, m)
    BY <1>1, <1>4 DEF AtStep
  <2> QED
    BY <2>1, ConstantRecords DEF JournalOK, RestOK
<1>5. CASE r.pc \in {"resolve", "record", "validate", "commit"}
  <2>1. IF r.changed THEN JournalOK(j, d, m) ELSE Settled(r, d, m, j, told)
    BY <1>1, <1>5 DEF AtStep
  <2>2. CASE r.changed
    BY <2>1, <2>2, ConstantRecords DEF JournalOK, RestOK
  <2>3. CASE ~r.changed
    BY <2>1, <2>3 DEF Settled, RestOK
  <2> QED
    BY <2>2, <2>3
<1>6. CASE r.pc = "setup"
  <2>1. j = NoJournal /\ d[Bin] = r.ver /\ Truthful(m, d[Bin], d)
    BY <1>1, <1>6 DEF AtStep
  <2>2. Present(d, Bin)
    BY <1>1, <2>1, VersionPresent
  <2> QED
    BY <2>1, <2>2 DEF RestOK, AllOrNothing
<1>7. CASE r.pc \in {"restore", "clear"}
  <2>1. j # NoJournal /\ JournalOK(j, d, m)
    BY <1>1, <1>7 DEF AtStep
  <2> QED
    BY <2>1 DEF RestOK
<1> QED
  BY <1>2, <1>3, <1>4, <1>5, <1>6, <1>7 DEF Holding

(* The installer finds the files at rest when it gets the lock. *)
LEMMA PublishLockStep ==
  ASSUME InstallInv, NEW p \in Runs, PublishLock(p)
  PROVE  InstallInv'
<1>1. /\ run[p].pc = "publish" /\ UNCHANGED LockVars
      /\ UNCHANGED <<dir, manifest, journal, profile, cmd, flock>> /\ UNCHANGED <<faults, cmds>>
      /\ kills' = kills /\ kills' \in 0 .. MaxKills /\ run[p].pc \notin Holding /\ run[p].pc \in BeforeLock
  BY OutsideFacts DEF PublishLock, LockVars
<1>2. CASE lock = "free"
  <2>1. End(p, "failed") /\ UNCHANGED <<lock, mishaps>>
    BY <1>2 DEF PublishLock
  <2> QED
    BY <1>1, <2>1, OutsideEnds
<1>3. CASE lock # "free"
  <2> DEFINE r == [run[p] EXCEPT !.pc = "reconcile"]
  <2>1. /\ RunGoto(p, "reconcile") /\ lock' = p
        /\ mishaps' = mishaps \cup {m \in {"overlap"} : \E c \in Cmds : cmd[c].pc # "idle"}
    BY <1>3 DEF PublishLock
  <2>2. InstallTypeOK /\ HadOK /\ LockOK /\ BlankOK /\ FreshOK
    BY DEF InstallInv
  <2>a. "reconcile" \in RunPcs /\ "reconcile" \in Holding /\ "reconcile" \in Early
    BY DEF RunPcs, Holding, Early
  <2>3. Becomes(p, r)
    BY <2>1, <2>a, GotoIs, OutsideFacts
  <2>b. run[p] \in RunRecords /\ Blank(run[p]) /\ run[p].ver \in Versions
    BY <1>1, OutsideFacts DEF Blank
  <2>4. /\ r.pc = "reconcile" /\ r.ver \in Versions /\ r.saved = run[p].saved
        /\ r.prev = NoPath /\ ~r.had /\ ~r.changed /\ ~r.activating /\ ~r.txn /\ ~r.recovering
        /\ r.activating \in BOOLEAN /\ r.txn \in BOOLEAN
    BY <2>b DEF Blank, RunRecords
  <2> HIDE DEF r
  <2>5. InstallTypeOK'
    BY <1>1, <2>1, <2>2, <2>3 DEF InstallTypeOK, Becomes
  <2>6. HadOK'
    BY <1>1, <2>2, <2>3, <2>4 DEF HadOK, Becomes
  <2>7. ASSUME "lock stolen" \notin mishaps
        PROVE  /\ \A q \in Runs : q # p => run[q].pc \notin Holding /\ run[q].pc # "publish"
    <3>1. lock = "bare" /\ "bare" \notin Runs
      BY <1>1, <2>2, <2>7, InstallationAssumption DEF LockOK
    <3> QED
      BY <1>1, <2>2, <2>7, <3>1 DEF LockOK
  <2>8. LockOK'
    <3>1. SUFFICES ASSUME "lock stolen" \notin mishaps'
                   PROVE  /\ \A q \in Runs : run'[q].pc = "publish" => lock' = "bare"
                          /\ \A q \in Runs : run'[q].pc \in Holding => lock' = q
                          /\ \A q, s \in Runs : run'[q].pc = "publish" /\ run'[s].pc = "publish" => q = s
      BY DEF LockOK
    <3>2. \A q \in Runs : q # p => run'[q].pc \notin Holding /\ run'[q].pc # "publish"
      BY <2>1, <2>3, <2>7, <3>1 DEF Becomes
    <3>3. run'[p].pc # "publish"
      BY <2>3, <2>4 DEF Becomes
    <3> QED
      BY <2>1, <3>2, <3>3
  <2>9. BlankOK'
    BY <2>2, <2>3, <2>4, <2>a, BlankKept
  <2>10. FreshOK'
    <3>1. {manifest'.prev, journal'.prev, r.prev, r.saved.manifest.prev} \subseteq Named \cup {NoPath}
      BY <1>1, <2>2, <2>4, NamesAre
    <3>2. \A x \in Rollbacks : Present(dir', x) => x \in Named
      BY <1>1, <2>2, NamesAre
    <3>3. run[p].pc \in Early
      BY <1>1, OutsideFacts
    <3> QED
      BY <1>1, <2>2, <2>3, <3>1, <3>2, <3>3, FreshKept
  <2>11. ASSUME Undisturbed' PROVE HolderInv' /\ RestInv'
    <3>1. mishaps' = mishaps /\ \A c \in Cmds : cmd[c].pc = "idle"
      <4>1. "overlap" \notin mishaps'
        BY <2>11 DEF Undisturbed
      <4>2. ~(\E c \in Cmds : cmd[c].pc # "idle")
        BY <2>1, <4>1
      <4> QED
        BY <2>1, <4>2
    <3>2. Undisturbed /\ "lock stolen" \notin mishaps
      BY <2>11, <3>1, CalmBefore
    <3>3. NoHolder
      BY <1>1, <2>7, <3>2 DEF NoHolder
    <3>4. RestOK(dir, manifest, journal, mishaps = {})
      <4>1. RestInv
        BY <3>2 DEF InstallInv
      <4>2. "idle" \notin MidSwap
        BY DEF MidSwap
      <4> QED
        BY <3>1, <3>3, <4>1, <4>2 DEF RestInv
    <3>5. HolderOK(p, r, dir, manifest, journal, mishaps = {})
      <4>1. AtStep(p, r, dir, manifest, journal, mishaps = {})
        BY <2>4, <3>4 DEF AtStep
      <4> QED
        BY <2>4, <4>1 DEF HolderOK, InTransaction, Activating
    <3>6. \A q \in Runs : q # p => run'[q].pc \notin Holding
      BY <2>3, <2>7, <3>2 DEF Becomes
    <3>7. run'[p] = r
      BY <2>3 DEF Becomes
    <3>8. HolderInv'
      <4>1. SUFFICES ASSUME NEW q \in Runs, run'[q].pc \in Holding
                     PROVE  /\ HolderOK(q, run'[q], dir', manifest', journal', mishaps' = {})
                            /\ \A c \in Cmds : cmd'[c].pc = "idle"
        BY DEF HolderInv
      <4>2. q = p
        BY <3>6, <4>1
      <4> QED
        BY <1>1, <3>1, <3>5, <3>7, <4>2
    <3>9. RestInv'
      BY <2>4, <2>a, <3>7 DEF RestInv, NoHolder
    <3> QED
      BY <3>8, <3>9
  <2> QED
    BY <2>5, <2>6, <2>8, <2>9, <2>10, <2>11 DEF InstallInv
<1> QED
  BY <1>2, <1>3

LEMMA StoppedIs ==
  ASSUME NEW p \in Runs, Undisturbed', mishaps' = Stopped(p), run[p].recovering \in BOOLEAN
  PROVE  ~Unrepeatable(p) /\ (mishaps' = {} => mishaps = {} /\ ~run[p].recovering)
<1>1. "recovery interrupted" \notin mishaps'
  BY DEF Undisturbed
<1>2. ~Unrepeatable(p)
  BY <1>1 DEF Stopped
<1>3. mishaps' = {} => "recovery unrecorded" \notin mishaps'
  OBVIOUS
<1>4. mishaps' = {} => mishaps = {} /\ ~run[p].recovering
  BY <1>3 DEF Stopped
<1> QED
  BY <1>2, <1>4

LEMMA CountUp ==
  ASSUME NEW n, NEW k \in Nat, n \in 0 .. k, n < k
  PROVE  n + 1 \in 0 .. k
OBVIOUS

LEMMA KilledStep ==
  ASSUME InstallInv, NEW p \in Runs, Killed(p)
  PROVE  InstallInv'
<1>1. /\ End(p, "killed") /\ mishaps' = Stopped(p) /\ kills < MaxKills /\ kills' = kills + 1
      /\ UNCHANGED <<dir, manifest, journal, profile, lock, cmd, flock, faults, cmds>>
  BY DEF Killed
<1>2. InstallTypeOK /\ HadOK
  BY DEF InstallInv
<1>3. kills' \in 0 .. MaxKills
  <2>1. kills \in 0 .. MaxKills /\ MaxKills \in Nat
    BY <1>2, InstallationAssumption DEF InstallTypeOK
  <2> QED
    BY <1>1, <2>1, CountUp
<1>4. CASE run[p].pc \in Holding
  <2>1. ASSUME Undisturbed', HolderOK(p, run[p], dir, manifest, journal, mishaps = {})
        PROVE  RestOK(dir', manifest', journal', mishaps' = {})
    <3>1. run[p] \in RunRecords /\ run[p].recovering \in BOOLEAN
      BY <1>2 DEF InstallTypeOK, RunRecords
    <3>2. ~Unrepeatable(p) /\ (mishaps' = {} => mishaps = {} /\ ~run[p].recovering)
      BY <1>1, <2>1, <3>1, StoppedIs
    <3>3. RestOK(dir, manifest, journal, mishaps' = {})
      BY <1>4, <2>1, <3>1, <3>2, HolderRest DEF Unrepeatable
    <3> QED
      BY <1>1, <3>3
  <2>2. \A x \in Rollbacks : Present(dir', x) => x \in Named
    BY <1>1, <1>2, NamesAre
  <2>3. {manifest'.prev, journal'.prev} \subseteq Named \cup {NoPath}
    BY <1>1, <1>2, NamesAre
  <2>4. /\ dir' \in Dirs /\ manifest' \in Receipts /\ journal' \in Journals /\ profile' \in BOOLEAN
        /\ (journal'.had => journal'.prev # NoPath) /\ faults' \in 0 .. MaxFaults
    BY <1>1, <1>2 DEF InstallTypeOK, HadOK, Dirs
  <2> QED
    <3>1. /\ UNCHANGED <<cmd, flock>> /\ cmds' = cmds /\ lock' \in {lock, Released(p)}
          /\ mishaps' \in {mishaps, Stopped(p)}
      BY <1>1
    <3> QED
      BY <1>1, <1>3, <1>4, <2>1, <2>2, <2>3, <2>4, <3>1, HolderStop
<1>5. CASE run[p].pc \notin Holding
  <2>1. ~run[p].recovering /\ ~Unrepeatable(p)
    BY <1>5, OutsideFacts DEF Blank, Holding, Unrepeatable
  <2>2. mishaps' = mishaps
    BY <1>1, <2>1 DEF Stopped
  <2> QED
    BY <1>1, <1>3, <1>5, <2>2, OutsideEnds
<1> QED
  BY <1>4, <1>5

-----------------------------------------------------------------------------
(* The steps inside the lock: the reconciliation *)

LEMMA InsideFacts ==
  ASSUME InstallInv, NEW p \in Runs
  PROVE  /\ InstallTypeOK /\ run \in [Runs -> RunRecords] /\ run[p] \in RunRecords
         /\ dir \in Dirs /\ manifest \in Receipts /\ journal \in Journals /\ profile \in BOOLEAN
         /\ kills \in 0 .. MaxKills /\ faults \in 0 .. MaxFaults
         /\ run[p].had => run[p].prev # NoPath
         /\ journal.had => journal.prev # NoPath
         /\ run[p].prev \in Named \cup {NoPath} /\ run[p].saved.manifest.prev \in Named \cup {NoPath}
         /\ manifest.prev \in Named \cup {NoPath} /\ journal.prev \in Named \cup {NoPath}
         /\ \A x \in Rollbacks : Present(dir, x) => x \in Named
         /\ Named \subseteq Rollbacks /\ (mishaps = {}) \in BOOLEAN
<1>1. InstallTypeOK /\ HadOK
  BY DEF InstallInv
<1>2. /\ run[p].prev \in Named \cup {NoPath} /\ run[p].saved.manifest.prev \in Named \cup {NoPath}
      /\ manifest.prev \in Named \cup {NoPath} /\ journal.prev \in Named \cup {NoPath}
      /\ \A x \in Rollbacks : Present(dir, x) => x \in Named
      /\ Named \subseteq Rollbacks
  BY <1>1, NamesAre
<1> QED
  BY <1>1, <1>2 DEF InstallTypeOK, HadOK, Dirs

(* Nothing that is said of the files depends on the staged candidates. *)
LEMMA ShelfKept ==
  ASSUME NEW d, NEW e, e[Bin] = d[Bin], \A x \in Rollbacks : e[x] = d[x]
  PROVE  /\ Present(e, Bin) = Present(d, Bin) /\ OldRollbacks(e) = OldRollbacks(d)
         /\ \A m : AllOrNothing(e, m) = AllOrNothing(d, m)
         /\ \A m \in Receipts : \A v : Truthful(m, v, e) = Truthful(m, v, d)
         /\ \A r \in RunRecords : PrevThere(r, e) = PrevThere(r, d)
         /\ \A j \in Journals : \A m : JournalOK(j, e, m) = JournalOK(j, d, m)
         /\ \A j \in Journals : \A m \in Receipts : \A told : RestOK(e, m, j, told) = RestOK(d, m, j, told)
<1>1. OldRollbacks(e) = OldRollbacks(d)
  BY SameShelf
<1>2. Present(e, Bin) = Present(d, Bin) /\ \A x \in Rollbacks : Present(e, x) = Present(d, x)
  BY DEF Present
<1>3. \A m : AllOrNothing(e, m) = AllOrNothing(d, m)
  BY <1>1, <1>2 DEF AllOrNothing
<1>4. \A m \in Receipts : \A v : Truthful(m, v, e) = Truthful(m, v, d)
  <2>1. \A m \in Receipts : m.prev \in Rollbacks \/ m.prev = NoPath
    BY DEF Receipts
  <2> QED
    BY <1>2, <2>1 DEF Truthful
<1>5. \A r \in RunRecords : PrevThere(r, e) = PrevThere(r, d)
  <2>1. \A r \in RunRecords : r.prev \in Rollbacks \/ r.prev = NoPath
    BY DEF RunRecords
  <2> QED
    BY <1>2, <2>1 DEF PrevThere
<1>6. ASSUME NEW j \in Journals, NEW m PROVE JournalOK(j, e, m) = JournalOK(j, d, m)
  <2>1. j.pid \in Runs => RollbackOf(j.pid) \in Rollbacks
    BY PathFacts
  <2>2. j.prev = RollbackOf(j.pid) /\ j.pid \in Runs =>
          Present(e, j.prev) = Present(d, j.prev) /\ e[j.prev] = d[j.prev]
    BY <1>2, <2>1
  <2>3. AllOrNothing(e, m) = AllOrNothing(d, m)
    BY <1>3
  <2> QED
    BY <1>2, <2>2, <2>3 DEF JournalOK
<1>7. \A j \in Journals : \A m \in Receipts : \A told : RestOK(e, m, j, told) = RestOK(d, m, j, told)
  BY <1>3, <1>4, <1>6 DEF RestOK
<1> QED
  BY <1>1, <1>2, <1>3, <1>4, <1>5, <1>6, <1>7

LEMMA ReconcileOrphansStep ==
  ASSUME InstallInv, NEW p \in Runs, ReconcileOrphans(p)
  PROVE  InstallInv'
<1> DEFINE d == StagesAside(dir)
           r == [run[p] EXCEPT !.pc = "choose"]
<1>1. /\ run[p].pc = "reconcile" /\ journal = NoJournal
      /\ IF OrphansFatal(d) THEN dir' = d /\ Die(p)
                            ELSE dir' = RestoreOrphan(d) /\ RunGoto(p, "choose") /\ UNCHANGED lock
      /\ UNCHANGED <<manifest, journal, profile, cmd, flock, kills, faults, cmds, mishaps>>
  BY DEF ReconcileOrphans
<1>2. d \in Dirs /\ d[Bin] = dir[Bin] /\ \A x \in Rollbacks : d[x] = dir[x]
  BY StagesAsideIs, InsideFacts
<1> HIDE DEF d
<1>3. ASSUME HolderOK(p, run[p], dir, manifest, journal, mishaps = {})
      PROVE  RestOK(d, manifest, journal, mishaps = {}) /\ AllOrNothing(d, manifest)
  <2>1. RestOK(dir, manifest, journal, mishaps = {})
    BY <1>1, <1>3 DEF HolderOK, AtStep
  <2>2. RestOK(d, manifest, journal, mishaps = {})
    BY <1>2, <2>1, ShelfKept, InsideFacts
  <2> QED
    BY <1>1, <2>2 DEF RestOK
<1>4. "reconcile" \in Holding /\ "choose" \in Holding /\ "choose" \in RunPcs /\ "reconcile" \in Early
  BY DEF Holding, RunPcs, Early
<1>5. CASE OrphansFatal(d)
  <2>1. dir' = d /\ lock' = Released(p) /\ End(p, "failed")
    BY <1>1, <1>5 DEF Die
  <2>2. \A x \in Rollbacks : Present(dir', x) => x \in Named
    BY <1>2, <2>1, InsideFacts DEF Present
  <2>3. {manifest'.prev, journal'.prev} \subseteq Named \cup {NoPath}
    BY <1>1, InsideFacts
  <2>4. /\ dir' \in Dirs /\ manifest' \in Receipts /\ journal' \in Journals /\ profile' \in BOOLEAN
        /\ (journal'.had => journal'.prev # NoPath) /\ faults' \in 0 .. MaxFaults /\ kills' \in 0 .. MaxKills
        /\ UNCHANGED <<cmd, flock>> /\ cmds' = cmds /\ mishaps' \in {mishaps, Stopped(p)}
        /\ lock' \in {lock, Released(p)}
    BY <1>1, <1>2, <2>1, InsideFacts
  <2>5. HolderOK(p, run[p], dir, manifest, journal, mishaps = {}) => RestOK(dir', manifest', journal', mishaps' = {})
    BY <1>1, <1>3, <2>1
  <2> QED
    BY <1>1, <1>4, <2>1, <2>2, <2>3, <2>4, <2>5, HolderStop
<1>6. CASE ~OrphansFatal(d)
  <2>1. dir' = RestoreOrphan(d) /\ RunGoto(p, "choose") /\ lock' = lock
    BY <1>1, <1>6
  <2>2. Becomes(p, r)
    BY <1>4, <2>1, GotoIs, InsideFacts
  <2>3. /\ r.pc = "choose" /\ r.prev = run[p].prev /\ r.had = run[p].had /\ r.saved = run[p].saved
        /\ r.ver = run[p].ver /\ r.txn = run[p].txn /\ r.activating = run[p].activating
        /\ r.changed = run[p].changed /\ r.recovering = run[p].recovering
    BY InsideFacts DEF RunRecords
  <2> HIDE DEF r
  <2>4. dir' \in Dirs
    BY <1>2, <2>1, RestoreOrphanIs
  <2>5. \A x \in Rollbacks : Present(dir', x) => x \in Named
    <3>1. \A x \in Rollbacks : Present(d, x) => x \in Named
      BY <1>2, InsideFacts DEF Present
    <3>2. CASE Present(d, Bin) \/ OldRollbacks(d) = {}
      BY <2>1, <3>1, <3>2 DEF RestoreOrphan
    <3>3. CASE ~(Present(d, Bin) \/ OldRollbacks(d) = {})
      <4>1. dir' = Moved(d, SoleRollback(d), Bin) /\ SoleRollback(d) \in Rollbacks
        BY <2>1, <3>3, SoleIs DEF RestoreOrphan
      <4>2. SoleRollback(d) \in Paths /\ Bin \in Paths /\ SoleRollback(d) # Bin /\ Rollbacks \subseteq Paths /\ Bin \notin Rollbacks
        BY <4>1, PathFacts
      <4>3. \A x \in Rollbacks : dir'[x] = d[x] \/ dir'[x] = 0
        BY <1>2, <4>1, <4>2, MovedIs
      <4> QED
        BY <3>1, <4>3 DEF Present
    <3> QED
      BY <3>2, <3>3
  <2>6. {manifest'.prev, journal'.prev, r.prev, r.saved.manifest.prev} \subseteq Named \cup {NoPath}
    BY <1>1, <2>3, InsideFacts
  <2>7. ASSUME HolderOK(p, run[p], dir, manifest, journal, mishaps = {})
        PROVE  HolderOK(p, r, dir', manifest', journal', mishaps = {})
    <3>1. dir' = d
      BY <1>3, <2>1, <2>7 DEF RestoreOrphan, AllOrNothing
    <3>2. /\ run[p].ver \in Versions /\ ~run[p].txn /\ ~run[p].activating
          /\ ~run[p].changed /\ ~run[p].recovering /\ run[p].prev = NoPath
      BY <1>1, <2>7 DEF HolderOK, AtStep, InTransaction, Activating
    <3>3. Settled(r, d, manifest, journal, mishaps = {})
      BY <1>1, <1>3, <2>7 DEF RestOK, Settled
    <3>4. PrevThere(r, d)
      BY <2>3, <3>2 DEF PrevThere
    <3>5. AtStep(p, r, d, manifest, journal, mishaps = {})
      BY <2>3, <3>3, <3>4 DEF AtStep
    <3> QED
      BY <1>1, <2>3, <3>1, <3>2, <3>5 DEF HolderOK, InTransaction, Activating
  <2>8. UNCHANGED StepVars /\ manifest' \in Receipts /\ journal' \in Journals /\ profile' \in BOOLEAN
        /\ (r.had => r.prev # NoPath) /\ (journal'.had => journal'.prev # NoPath)
    BY <1>1, <2>1, <2>3, InsideFacts DEF StepVars
  <2> QED
    BY <1>1, <1>4, <2>2, <2>3, <2>4, <2>5, <2>6, <2>7, <2>8, HolderStep
<1> QED
  BY <1>5, <1>6

(* A journal that the reconciliation does not refuse leaves the prior command, the candidate or a
   prior executable to put back. *)
LEMMA JournalCases ==
  ASSUME NEW d \in Dirs, NEW j \in Journals, NEW m, JournalOK(j, d, m), ~JournalFatal(d, j)
  PROVE  /\ BeforeRetain(d, j) => AllOrNothing(d, m)
         /\ ActiveOk(d, j) => AllOrNothing(d, m)
         /\ ~BeforeRetain(d, j) /\ ~ActiveOk(d, j) =>
              IF j.had THEN Present(d, j.prev) ELSE OldRollbacks(d) = {} /\ ~m.there
<1>1. j.had \in BOOLEAN /\ j.phase \in {"none", "prepared", "activating", "activated"}
  BY DEF Journals
<1>2. ActiveOk(d, j) => Present(d, Bin)
  BY BoundFacts DEF JournalOK, ActiveOk, Present
<1>3. BeforeRetain(d, j) => AllOrNothing(d, m)
  BY <1>1 DEF BeforeRetain, JournalOK, AllOrNothing
<1>4. ASSUME ~BeforeRetain(d, j), ~ActiveOk(d, j)
      PROVE  IF j.had THEN Present(d, j.prev) ELSE OldRollbacks(d) = {} /\ ~m.there
  BY <1>1, <1>4 DEF BeforeRetain, ActiveOk, JournalOK, AllOrNothing
<1> QED
  BY <1>2, <1>3, <1>4 DEF AllOrNothing

LEMMA ReconcileJournalStep ==
  ASSUME InstallInv, NEW p \in Runs, ReconcileJournal(p)
  PROVE  InstallInv'
<1> DEFINE fatal == \/ Live(journal.pid)
                    \/ JournalFatal(dir, journal)
                    \/ ~BeforeRetain(dir, journal) /\ AdoptFatal(p, dir, journal)
<1>1. /\ run[p].pc = "reconcile" /\ journal # NoJournal
      /\ UNCHANGED <<manifest, journal, profile, cmd, flock, kills, faults, cmds, mishaps>>
  BY DEF ReconcileJournal
<1>2. /\ "reconcile" \in Holding /\ "reconcile" \in Early /\ {"clear", "restore"} \subseteq Holding
      /\ {"clear", "restore"} \subseteq RunPcs /\ run[p] \in RunRecords /\ run \in [Runs -> RunRecords]
  BY InsideFacts DEF Holding, RunPcs, Early
<1>3. ASSUME HolderOK(p, run[p], dir, manifest, journal, mishaps = {})
      PROVE  /\ JournalOK(journal, dir, manifest) /\ run[p].prev = NoPath
             /\ run[p].ver \in Versions /\ ~run[p].txn /\ ~run[p].activating /\ ~run[p].changed
             /\ ~run[p].recovering
  BY <1>1, <1>3 DEF HolderOK, AtStep, RestOK, InTransaction, Activating
<1>4. /\ manifest' \in Receipts /\ journal' \in Journals /\ profile' \in BOOLEAN
      /\ (journal'.had => journal'.prev # NoPath) /\ faults' \in 0 .. MaxFaults /\ kills' \in 0 .. MaxKills
      /\ {manifest'.prev, journal'.prev} \subseteq Named \cup {NoPath}
  BY <1>1, InsideFacts
<1>5. CASE fatal
  <2>1. dir' = dir /\ lock' = Released(p) /\ End(p, "failed")
    BY <1>5 DEF ReconcileJournal, Die
  <2>2. \A x \in Rollbacks : Present(dir', x) => x \in Named
    BY <2>1, InsideFacts
  <2>3. /\ dir' \in Dirs /\ UNCHANGED <<cmd, flock>> /\ cmds' = cmds
        /\ mishaps' \in {mishaps, Stopped(p)} /\ lock' \in {lock, Released(p)}
    BY <1>1, <2>1, InsideFacts
  <2>4. HolderOK(p, run[p], dir, manifest, journal, mishaps = {}) => RestOK(dir', manifest', journal', mishaps' = {})
    BY <1>1, <1>3, <2>1 DEF RestOK
  <2> QED
    BY <1>1, <1>2, <1>4, <2>1, <2>2, <2>3, <2>4, HolderStop
<1>6. CASE ~fatal /\ BeforeRetain(dir, journal)
  <2> DEFINE r == [run[p] EXCEPT !.pc = "clear", !.recovering = TRUE]
  <2>1. run' = [run EXCEPT ![p] = r] /\ dir' = dir /\ lock' = lock
    BY <1>6 DEF ReconcileJournal, Recovering
  <2>2. /\ r \in RunRecords
        /\ r.pc = "clear" /\ r.ver = run[p].ver /\ r.had = run[p].had /\ r.prev = run[p].prev
        /\ r.changed = run[p].changed /\ r.activating = run[p].activating /\ r.txn = run[p].txn
        /\ r.recovering = TRUE /\ r.saved = run[p].saved
    BY <1>2 DEF RunRecords
  <2> HIDE DEF r
  <2>3. Becomes(p, r)
    BY <1>2, <2>1, <2>2, RunUpdate DEF Becomes
  <2>4. /\ dir' \in Dirs /\ (r.had => r.prev # NoPath)
        /\ \A x \in Rollbacks : Present(dir', x) => x \in Named
        /\ {manifest'.prev, journal'.prev, r.prev, r.saved.manifest.prev} \subseteq Named \cup {NoPath}
    BY <1>4, <2>1, <2>2, InsideFacts
  <2>5. ASSUME HolderOK(p, run[p], dir, manifest, journal, mishaps = {})
        PROVE  HolderOK(p, r, dir', manifest', journal', mishaps = {})
    <3>1. AllOrNothing(dir, manifest)
      BY <1>3, <1>6, <2>5, JournalCases, InsideFacts
    <3>2. PrevThere(r, dir)
      BY <1>3, <2>2, <2>5 DEF PrevThere
    <3>3. AtStep(p, r, dir, manifest, journal, mishaps = {})
      BY <1>1, <1>3, <2>2, <2>5, <3>1, <3>2 DEF AtStep
    <3> QED
      BY <1>1, <1>3, <2>1, <2>2, <2>5, <3>3 DEF HolderOK, InTransaction, Activating
  <2>6. UNCHANGED StepVars
    BY <1>1, <2>1 DEF StepVars
  <2> QED
    BY <1>1, <1>2, <1>4, <2>2, <2>3, <2>4, <2>5, <2>6, HolderStep
<1>7. CASE ~fatal /\ ~BeforeRetain(dir, journal) /\ ActiveOk(dir, journal)
  <2> DEFINE adopt == journal.ver = run[p].ver /\ journal.had
             had == run[p].had \/ adopt
             prev == IF adopt THEN journal.prev ELSE run[p].prev
             r == [run[p] EXCEPT !.pc = "clear", !.recovering = TRUE, !.had = had, !.prev = prev]
  <2>1. run' = [run EXCEPT ![p] = r] /\ dir' = dir /\ lock' = lock
    BY <1>7 DEF ReconcileJournal
  <2>a. journal.had \in BOOLEAN /\ run[p].had \in BOOLEAN
    BY InsideFacts DEF RunRecords, Journals
  <2>b. had \in BOOLEAN /\ prev \in Rollbacks \cup {NoPath} /\ prev \in Named \cup {NoPath} /\ (had => prev # NoPath)
    BY <2>a, InsideFacts
  <2>c. prev # NoPath /\ ~(run[p].prev # NoPath) => journal.had /\ adopt /\ prev = journal.prev
    OBVIOUS
  <2> HIDE DEF had, prev
  <2>2. /\ r \in RunRecords
        /\ r.pc = "clear" /\ r.ver = run[p].ver /\ r.had = had /\ r.prev = prev
        /\ r.changed = run[p].changed /\ r.activating = run[p].activating /\ r.txn = run[p].txn
        /\ r.recovering = TRUE /\ r.saved = run[p].saved
    BY <1>2, <2>b DEF RunRecords
  <2> HIDE DEF r
  <2>3. Becomes(p, r)
    BY <1>2, <2>1, <2>2, RunUpdate DEF Becomes
  <2>4. /\ dir' \in Dirs /\ (r.had => r.prev # NoPath)
        /\ \A x \in Rollbacks : Present(dir', x) => x \in Named
        /\ {manifest'.prev, journal'.prev, r.prev, r.saved.manifest.prev} \subseteq Named \cup {NoPath}
    BY <1>4, <2>1, <2>2, <2>b, InsideFacts
  <2>5. ASSUME HolderOK(p, run[p], dir, manifest, journal, mishaps = {})
        PROVE  HolderOK(p, r, dir', manifest', journal', mishaps = {})
    <3>1. AllOrNothing(dir, manifest)
      BY <1>3, <1>7, <2>5, JournalCases, InsideFacts
    <3>2. PrevThere(r, dir)
      <4>1. SUFFICES ASSUME prev # NoPath PROVE Present(dir, prev)
        BY <2>2 DEF PrevThere
      <4>2. journal.had /\ adopt /\ prev = journal.prev
        BY <1>3, <2>5, <2>c, <4>1
      <4>3. ~AdoptFatal(p, dir, journal)
        BY <1>7
      <4> QED
        BY <1>7, <4>2, <4>3 DEF AdoptFatal
    <3>3. AtStep(p, r, dir, manifest, journal, mishaps = {})
      BY <1>1, <1>3, <2>2, <2>5, <3>1, <3>2 DEF AtStep
    <3> QED
      BY <1>1, <1>3, <2>1, <2>2, <2>5, <3>3 DEF HolderOK, InTransaction, Activating
  <2>6. UNCHANGED StepVars
    BY <1>1, <2>1 DEF StepVars
  <2> QED
    BY <1>1, <1>2, <1>4, <2>2, <2>3, <2>4, <2>5, <2>6, HolderStep
<1>8. CASE ~fatal /\ ~BeforeRetain(dir, journal) /\ ~ActiveOk(dir, journal)
  <2> DEFINE r == [run[p] EXCEPT !.pc = "restore", !.recovering = TRUE]
  <2>1. run' = [run EXCEPT ![p] = r] /\ dir' = Aside(dir, Bin) /\ lock' = lock
    BY <1>8 DEF ReconcileJournal, Recovering
  <2>2. /\ r \in RunRecords
        /\ r.pc = "restore" /\ r.ver = run[p].ver /\ r.had = run[p].had /\ r.prev = run[p].prev
        /\ r.changed = run[p].changed /\ r.activating = run[p].activating /\ r.txn = run[p].txn
        /\ r.recovering = TRUE /\ r.saved = run[p].saved
    BY <1>2 DEF RunRecords
  <2> HIDE DEF r
  <2>3. Becomes(p, r)
    BY <1>2, <2>1, <2>2, RunUpdate DEF Becomes
  <2>a. dir' \in Dirs /\ dir'[Bin] = 0 /\ \A x \in Rollbacks : dir'[x] = dir[x]
    BY <2>1, AsideShelf, InsideFacts
  <2>4. /\ dir' \in Dirs /\ (r.had => r.prev # NoPath)
        /\ \A x \in Rollbacks : Present(dir', x) => x \in Named
        /\ {manifest'.prev, journal'.prev, r.prev, r.saved.manifest.prev} \subseteq Named \cup {NoPath}
    BY <1>4, <2>a, <2>2, InsideFacts DEF Present
  <2>5. ASSUME HolderOK(p, run[p], dir, manifest, journal, mishaps = {})
        PROVE  HolderOK(p, r, dir', manifest', journal', mishaps = {})
    <3>1. IF journal.had THEN Present(dir, journal.prev) ELSE OldRollbacks(dir) = {} /\ ~manifest.there
      BY <1>3, <1>8, <2>5, JournalCases, InsideFacts
    <3>d. ~Present(dir', Bin)
      BY <2>a DEF Present
    <3>e. JournalOK(journal, dir', manifest)
      <4>1. dir'[Bin] = dir[Bin]
        BY <1>3, <1>8, <2>5, <2>a, <3>1 DEF JournalOK, BeforeRetain, ActiveOk, Present
      <4> QED
        BY <1>3, <2>5, <2>a, <4>1, ShelfKept, InsideFacts
    <3>3. AtStep(p, r, dir', manifest, journal, mishaps = {})
      BY <1>1, <1>3, <2>2, <2>5, <3>d, <3>e DEF AtStep
    <3> QED
      BY <1>1, <1>3, <2>1, <2>2, <2>5, <3>3 DEF HolderOK, InTransaction, Activating
  <2>6. UNCHANGED StepVars
    BY <1>1, <2>1 DEF StepVars
  <2> QED
    BY <1>1, <1>2, <1>4, <2>2, <2>3, <2>4, <2>5, <2>6, HolderStep
<1> QED
  BY <1>5, <1>6, <1>7, <1>8

LEMMA RestorePriorStep ==
  ASSUME InstallInv, NEW p \in Runs, RestorePrior(p)
  PROVE  InstallInv'
<1> DEFINE r == [run[p] EXCEPT !.pc = "clear"]
<1>1. /\ run[p].pc = "restore"
      /\ UNCHANGED <<manifest, journal, profile, cmd, flock, kills, faults, cmds, mishaps>>
  BY DEF RestorePrior
<1>2. /\ "restore" \in Holding /\ "clear" \in Holding /\ "clear" \in RunPcs /\ "restore" \in Early
      /\ run[p] \in RunRecords /\ run \in [Runs -> RunRecords]
  BY InsideFacts DEF Holding, RunPcs, Early
<1>3. ASSUME HolderOK(p, run[p], dir, manifest, journal, mishaps = {})
      PROVE  /\ ~Present(dir, Bin) /\ run[p].prev = NoPath
             /\ journal # NoJournal /\ JournalOK(journal, dir, manifest)
             /\ journal.had => Present(dir, journal.prev)
             /\ ~journal.had => AllOrNothing(dir, manifest)
             /\ run[p].ver \in Versions /\ ~run[p].txn /\ ~run[p].activating /\ ~run[p].changed
             /\ run[p].recovering
  <2>1. /\ ~Present(dir, Bin) /\ run[p].prev = NoPath
        /\ journal # NoJournal /\ JournalOK(journal, dir, manifest)
        /\ run[p].ver \in Versions /\ ~run[p].txn /\ ~run[p].activating /\ ~run[p].changed
        /\ run[p].recovering
    BY <1>1, <1>3 DEF HolderOK, AtStep, InTransaction, Activating
  <2>2. /\ journal.had => Present(dir, journal.prev)
        /\ ~journal.had => AllOrNothing(dir, manifest)
    BY <2>1 DEF JournalOK
  <2> QED
    BY <2>1, <2>2
<1>4. /\ manifest' \in Receipts /\ journal' \in Journals /\ profile' \in BOOLEAN
      /\ (journal'.had => journal'.prev # NoPath) /\ faults' \in 0 .. MaxFaults /\ kills' \in 0 .. MaxKills
      /\ {manifest'.prev, journal'.prev} \subseteq Named \cup {NoPath}
      /\ journal.had => journal.prev \in Rollbacks
  BY <1>1, InsideFacts DEF Journals
<1>5. CASE journal.had /\ ~Present(dir, journal.prev)
  <2>1. dir' = dir /\ lock' = Released(p) /\ End(p, "failed")
    BY <1>5 DEF RestorePrior, Die
  <2>2. \A x \in Rollbacks : Present(dir', x) => x \in Named
    BY <2>1, InsideFacts
  <2>3. /\ dir' \in Dirs /\ UNCHANGED <<cmd, flock>> /\ cmds' = cmds
        /\ mishaps' \in {mishaps, Stopped(p)} /\ lock' \in {lock, Released(p)}
    BY <1>1, <2>1, InsideFacts
  <2>4. HolderOK(p, run[p], dir, manifest, journal, mishaps = {}) => RestOK(dir', manifest', journal', mishaps' = {})
    BY <1>3, <1>5
  <2> QED
    BY <1>1, <1>2, <1>4, <2>1, <2>2, <2>3, <2>4, HolderStop
<1>6. CASE ~(journal.had /\ ~Present(dir, journal.prev))
  <2>1. /\ RunGoto(p, "clear") /\ lock' = lock
        /\ dir' = IF journal.had THEN Moved(dir, journal.prev, Bin) ELSE dir
    BY <1>6 DEF RestorePrior
  <2>2. /\ r.pc = "clear" /\ r.ver = run[p].ver /\ r.had = run[p].had /\ r.prev = run[p].prev
        /\ r.changed = run[p].changed /\ r.activating = run[p].activating /\ r.txn = run[p].txn
        /\ r.recovering = run[p].recovering /\ r.saved = run[p].saved
    BY <1>2 DEF RunRecords
  <2>3. Becomes(p, r)
    BY <1>2, <2>1, GotoIs
  <2> HIDE DEF r
  <2>a. /\ dir' \in Dirs /\ \A x \in Rollbacks : dir'[x] = dir[x] \/ dir'[x] = 0
        /\ journal.had => dir'[Bin] = dir[journal.prev] /\ dir'[journal.prev] = 0
    <3>1. CASE journal.had
      BY <1>4, <2>1, <3>1, MovedIn, InsideFacts
    <3>2. CASE ~journal.had
      BY <2>1, <3>2, InsideFacts
    <3> QED
      BY <3>1, <3>2
  <2>4. /\ dir' \in Dirs /\ (r.had => r.prev # NoPath)
        /\ \A x \in Rollbacks : Present(dir', x) => x \in Named
        /\ {manifest'.prev, journal'.prev, r.prev, r.saved.manifest.prev} \subseteq Named \cup {NoPath}
    BY <1>4, <2>a, <2>2, InsideFacts DEF Present
  <2>5. ASSUME HolderOK(p, run[p], dir, manifest, journal, mishaps = {})
        PROVE  HolderOK(p, r, dir', manifest', journal', mishaps = {})
    <3>1. AllOrNothing(dir', manifest)
      BY <1>3, <2>1, <2>5, <2>a DEF AllOrNothing, Present
    <3>2. PrevThere(r, dir')
      BY <1>3, <2>2, <2>5 DEF PrevThere
    <3>a. JournalOK(journal, dir', manifest) \/ (journal.phase # "prepared" /\ journal.had /\ ~Present(dir', journal.prev))
      <4>1. CASE ~journal.had
        <5>1. dir' = dir
          BY <2>1, <4>1
        <5> QED
          BY <1>3, <2>5, <5>1
      <4>2. CASE journal.had /\ journal.phase # "prepared"
        BY <2>a, <4>2 DEF Present
      <4>3. CASE journal.had /\ journal.phase = "prepared"
        <5>1. dir[journal.prev] # journal.ver /\ Present(dir, journal.prev)
          BY <1>3, <2>5, <4>3 DEF JournalOK
        <5>2. Present(dir', Bin) /\ dir'[Bin] # journal.ver /\ ~Present(dir', journal.prev)
          BY <2>a, <4>3, <5>1 DEF Present
        <5> QED
          BY <1>3, <2>5, <4>3, <5>2 DEF JournalOK
      <4> QED
        BY <4>1, <4>2, <4>3
    <3>3. AtStep(p, r, dir', manifest, journal, mishaps = {})
      BY <1>3, <2>2, <2>5, <3>1, <3>2, <3>a DEF AtStep
    <3> QED
      BY <1>1, <1>3, <2>2, <2>5, <3>3 DEF HolderOK, InTransaction, Activating
  <2>6. UNCHANGED StepVars
    BY <1>1, <2>1 DEF StepVars
  <2> QED
    BY <1>1, <1>2, <1>4, <2>2, <2>3, <2>4, <2>5, <2>6, HolderStep
<1> QED
  BY <1>5, <1>6

LEMMA ClearJournalStep ==
  ASSUME InstallInv, NEW p \in Runs, ClearJournal(p)
  PROVE  InstallInv'
<1> DEFINE r == [run[p] EXCEPT !.pc = "choose"]
<1>1. /\ run[p].pc = "clear" /\ dir' = StagesAside(dir) /\ journal' = NoJournal /\ RunGoto(p, "choose")
      /\ manifest' = manifest /\ profile' = profile /\ UNCHANGED StepVars
  BY DEF ClearJournal
<1>2. /\ "clear" \in Holding /\ "choose" \in Holding /\ "choose" \in RunPcs /\ "clear" \in Early
      /\ run[p] \in RunRecords /\ run \in [Runs -> RunRecords]
  BY InsideFacts DEF Holding, RunPcs, Early
<1>3. /\ r.pc = "choose" /\ r.ver = run[p].ver /\ r.had = run[p].had /\ r.prev = run[p].prev
      /\ r.changed = run[p].changed /\ r.activating = run[p].activating /\ r.txn = run[p].txn
      /\ r.recovering = run[p].recovering /\ r.saved = run[p].saved
  BY <1>2 DEF RunRecords
<1>4. Becomes(p, r)
  BY <1>1, <1>2, GotoIs
<1> HIDE DEF r
<1>5. dir' \in Dirs /\ dir'[Bin] = dir[Bin] /\ \A x \in Rollbacks : dir'[x] = dir[x]
  BY <1>1, StagesAsideIs, InsideFacts
<1>6. /\ manifest' \in Receipts /\ journal' \in Journals /\ profile' \in BOOLEAN
      /\ (journal'.had => journal'.prev # NoPath) /\ (r.had => r.prev # NoPath)
      /\ \A x \in Rollbacks : Present(dir', x) => x \in Named
      /\ {manifest'.prev, journal'.prev, r.prev, r.saved.manifest.prev} \subseteq Named \cup {NoPath}
  BY <1>1, <1>3, <1>5, ConstantRecords, InsideFacts DEF Present
<1>7. ASSUME HolderOK(p, run[p], dir, manifest, journal, mishaps = {})
      PROVE  HolderOK(p, r, dir', manifest', journal', mishaps = {})
  <2>1. /\ AllOrNothing(dir, manifest) /\ PrevThere(run[p], dir)
        /\ run[p].ver \in Versions /\ ~run[p].txn /\ ~run[p].activating /\ ~run[p].changed
        /\ run[p].recovering
    BY <1>1, <1>7 DEF HolderOK, AtStep, InTransaction, Activating
  <2>2. AllOrNothing(dir', manifest) /\ PrevThere(run[p], dir')
    BY <1>2, <1>5, <2>1, ShelfKept
  <2>3. PrevThere(r, dir') /\ Settled(r, dir', manifest', journal', mishaps = {})
    BY <1>1, <1>3, <2>1, <2>2 DEF PrevThere, Settled
  <2>4. AtStep(p, r, dir', manifest', journal', mishaps = {})
    BY <1>3, <2>3 DEF AtStep
  <2> QED
    BY <1>3, <2>1, <2>4 DEF HolderOK, InTransaction, Activating
<1> QED
  BY <1>1, <1>2, <1>3, <1>4, <1>5, <1>6, <1>7, HolderStep

(* An adopted rollback is one that the receipt names and that exists, or the run's own choice. *)
LEMMA AdoptedIs ==
  ASSUME InstallInv, NEW p \in Runs
  PROVE  /\ AdoptedPrevious(p) \in Named \cup {NoPath}
         /\ AdoptedPrevious(p) \in Rollbacks \cup {NoPath}
         /\ PrevThere(run[p], dir) /\ AdoptedPrevious(p) # NoPath => Present(dir, AdoptedPrevious(p))
BY InsideFacts DEF AdoptedPrevious, PrevThere

LEMMA ChooseTargetStep ==
  ASSUME InstallInv, NEW p \in Runs, ChooseTarget(p)
  PROVE  InstallInv'
<1>1. /\ run[p].pc = "choose"
      /\ dir' = dir /\ manifest' = manifest /\ journal' = journal /\ profile' = profile /\ UNCHANGED StepVars
  BY DEF ChooseTarget
<1>2. /\ "choose" \in Holding /\ {"keep", "begin"} \subseteq Holding /\ {"keep", "begin"} \subseteq RunPcs
      /\ "choose" \in Early /\ run[p] \in RunRecords /\ run \in [Runs -> RunRecords]
  BY InsideFacts DEF Holding, RunPcs, Early
<1>3. /\ dir' \in Dirs /\ manifest' \in Receipts /\ journal' \in Journals /\ profile' \in BOOLEAN
      /\ (journal'.had => journal'.prev # NoPath)
      /\ \A x \in Rollbacks : Present(dir', x) => x \in Named
      /\ {manifest'.prev, journal'.prev} \subseteq Named \cup {NoPath}
  BY <1>1, InsideFacts
<1>4. ASSUME HolderOK(p, run[p], dir, manifest, journal, mishaps = {})
      PROVE  /\ Settled(run[p], dir, manifest, journal, mishaps = {}) /\ PrevThere(run[p], dir)
             /\ run[p].ver \in Versions /\ ~run[p].txn /\ ~run[p].activating /\ ~run[p].changed
  BY <1>1, <1>4 DEF HolderOK, AtStep, InTransaction, Activating
<1>5. CASE dir[Bin] = run[p].ver
  <2> DEFINE prev == AdoptedPrevious(p)
             had == prev # NoPath
             r == [run[p] EXCEPT !.pc = "keep", !.prev = prev, !.had = had]
  <2>1. run' = [run EXCEPT ![p] = r]
    BY <1>5 DEF ChooseTarget
  <2>2. /\ prev \in Named \cup {NoPath} /\ prev \in Rollbacks \cup {NoPath} /\ (had => prev # NoPath)
        /\ PrevThere(run[p], dir) /\ prev # NoPath => Present(dir, prev)
        /\ had \in BOOLEAN
    BY AdoptedIs
  <2> HIDE DEF prev, had
  <2>3. /\ r \in RunRecords
        /\ r.pc = "keep" /\ r.ver = run[p].ver /\ r.had = had /\ r.prev = prev
        /\ r.changed = run[p].changed /\ r.activating = run[p].activating /\ r.txn = run[p].txn
        /\ r.recovering = run[p].recovering /\ r.saved = run[p].saved
    BY <1>2, <2>2 DEF RunRecords
  <2> HIDE DEF r
  <2>4. Becomes(p, r)
    BY <1>2, <2>1, <2>3, RunUpdate DEF Becomes
  <2>5. (r.had => r.prev # NoPath)
        /\ {manifest'.prev, journal'.prev, r.prev, r.saved.manifest.prev} \subseteq Named \cup {NoPath}
    BY <1>3, <2>2, <2>3, InsideFacts
  <2>6. ASSUME HolderOK(p, run[p], dir, manifest, journal, mishaps = {})
        PROVE  HolderOK(p, r, dir', manifest', journal', mishaps = {})
    <3>1. PrevThere(r, dir) /\ Settled(r, dir, manifest, journal, mishaps = {})
      BY <1>4, <2>2, <2>3, <2>6 DEF PrevThere, Settled
    <3>2. AtStep(p, r, dir, manifest, journal, mishaps = {})
      BY <1>5, <2>3, <3>1 DEF AtStep
    <3> QED
      BY <1>1, <1>4, <2>3, <2>6, <3>2 DEF HolderOK, InTransaction, Activating
  <2> QED
    BY <1>1, <1>2, <1>3, <2>3, <2>4, <2>5, <2>6, HolderStep
<1>6. CASE dir[Bin] # run[p].ver
  <2> DEFINE r == [run[p] EXCEPT !.pc = "begin"]
  <2>1. RunGoto(p, "begin")
    BY <1>6 DEF ChooseTarget
  <2>3. /\ r \in RunRecords
        /\ r.pc = "begin" /\ r.ver = run[p].ver /\ r.had = run[p].had /\ r.prev = run[p].prev
        /\ r.changed = run[p].changed /\ r.activating = run[p].activating /\ r.txn = run[p].txn
        /\ r.recovering = run[p].recovering /\ r.saved = run[p].saved
    BY <1>2 DEF RunRecords
  <2>4. Becomes(p, r)
    BY <1>2, <2>1, GotoIs
  <2> HIDE DEF r
  <2>5. (r.had => r.prev # NoPath)
        /\ {manifest'.prev, journal'.prev, r.prev, r.saved.manifest.prev} \subseteq Named \cup {NoPath}
    BY <1>3, <2>3, InsideFacts
  <2>6. ASSUME HolderOK(p, run[p], dir, manifest, journal, mishaps = {})
        PROVE  HolderOK(p, r, dir', manifest', journal', mishaps = {})
    <3>1. Settled(r, dir, manifest, journal, mishaps = {})
      BY <1>4, <2>3, <2>6 DEF Settled
    <3>2. AtStep(p, r, dir, manifest, journal, mishaps = {})
      BY <1>6, <2>3, <3>1 DEF AtStep
    <3> QED
      BY <1>1, <1>4, <2>3, <2>6, <3>2 DEF HolderOK, InTransaction, Activating
  <2> QED
    BY <1>1, <1>2, <1>3, <2>3, <2>4, <2>5, <2>6, HolderStep
<1> QED
  BY <1>5, <1>6

-----------------------------------------------------------------------------
(* The steps inside the lock: the transaction *)

LEMMA FreshName ==
  ASSUME InstallInv, NEW p \in Runs, run[p].pc \in Early
  PROVE  /\ RollbackOf(p) \notin Named /\ dir[RollbackOf(p)] = 0 /\ manifest.prev # RollbackOf(p)
         /\ RollbackOf(p) \in Rollbacks /\ RollbackOf(p) # NoPath
<1>1. RollbackOf(p) \notin Named
  BY DEF InstallInv, FreshOK
<1>2. RollbackOf(p) \in Rollbacks /\ RollbackOf(p) # NoPath
  BY PathFacts
<1>3. dir[RollbackOf(p)] = 0
  BY <1>1, <1>2, InsideFacts DEF Present
<1> QED
  BY <1>1, <1>2, <1>3, InsideFacts

(* What the exit trap would put back stays there. *)
LEMMA SavedKept ==
  ASSUME NEW p \in Runs, NEW r \in RunRecords, NEW s \in RunRecords, NEW d, NEW e, NEW told,
         SavedOK(p, r, d, told), s.saved = r.saved, s.recovering = r.recovering,
         \A x \in Rollbacks : x # RollbackOf(p) => e[x] = d[x],
         r.saved.bin = 0 => e[RollbackOf(p)] = d[RollbackOf(p)]
  PROVE  SavedOK(p, s, e, told)
<1>1. r.saved.manifest.prev \in Rollbacks \cup {NoPath}
  BY DEF RunRecords, Receipts
<1>2. r.saved.bin = 0 => OldRollbacks(e) = OldRollbacks(d)
  BY DEF OldRollbacks, Present
<1>3. r.saved.manifest.prev # NoPath /\ r.saved.manifest.prev # RollbackOf(p) =>
        Present(e, r.saved.manifest.prev) = Present(d, r.saved.manifest.prev)
  BY <1>1 DEF Present
<1> QED
  BY <1>2, <1>3 DEF SavedOK, Truthful

LEMMA BeginTransactionStep ==
  ASSUME InstallInv, NEW p \in Runs, BeginTransaction(p)
  PROVE  InstallInv'
<1> DEFINE saved == [manifest |-> manifest, profile |-> profile, bin |-> dir[Bin]]
           pc == IF run[p].pc = "keep" THEN "resolve" ELSE "stage"
           r == [run[p] EXCEPT !.txn = TRUE, !.saved = saved, !.pc = pc]
<1>1. /\ run[p].pc \in {"begin", "keep"} /\ run' = [run EXCEPT ![p] = r]
      /\ dir' = dir /\ manifest' = manifest /\ journal' = journal /\ profile' = TRUE /\ UNCHANGED StepVars
  BY DEF BeginTransaction
<1>2. /\ run[p].pc \in Holding /\ pc \in Holding /\ pc \in RunPcs
      /\ run[p].pc \in Early /\ run[p] \in RunRecords /\ run \in [Runs -> RunRecords]
  BY <1>1, InsideFacts DEF Holding, RunPcs, Early
<1>a. /\ saved \in [manifest : Receipts, profile : BOOLEAN, bin : 0 .. MaxVersion]
      /\ saved.manifest = manifest /\ saved.bin = dir[Bin]
  BY PathFacts, InsideFacts DEF Dirs
<1>b. (pc = "resolve" /\ run[p].pc = "keep") \/ (pc = "stage" /\ run[p].pc = "begin")
  <2>1. run[p].pc \in {"begin", "keep"}
    BY <1>1
  <2>2. CASE run[p].pc = "keep"
    BY <2>2
  <2>3. CASE run[p].pc = "begin"
    BY <2>3
  <2> QED
    BY <2>1, <2>2, <2>3
<1> HIDE DEF saved, pc
<1>3. /\ r \in RunRecords
      /\ r.pc = pc /\ r.ver = run[p].ver /\ r.had = run[p].had /\ r.prev = run[p].prev
      /\ r.changed = run[p].changed /\ r.activating = run[p].activating /\ r.txn = TRUE
      /\ r.recovering = run[p].recovering /\ r.saved = saved
  BY <1>2, <1>a DEF RunRecords
<1> HIDE DEF r
<1>4. Becomes(p, r)
  BY <1>1, <1>2, <1>3, RunUpdate DEF Becomes
<1>5. /\ dir' \in Dirs /\ manifest' \in Receipts /\ journal' \in Journals /\ profile' \in BOOLEAN
      /\ (journal'.had => journal'.prev # NoPath) /\ (r.had => r.prev # NoPath)
      /\ \A x \in Rollbacks : Present(dir', x) => x \in Named
      /\ {manifest'.prev, journal'.prev, r.prev, r.saved.manifest.prev} \subseteq Named \cup {NoPath}
  BY <1>1, <1>3, <1>a, InsideFacts
<1>6. ASSUME HolderOK(p, run[p], dir, manifest, journal, mishaps = {})
      PROVE  HolderOK(p, r, dir', manifest', journal', mishaps = {})
  <2>1. /\ Settled(run[p], dir, manifest, journal, mishaps = {})
        /\ run[p].pc = "keep" => PrevThere(run[p], dir) /\ dir[Bin] = run[p].ver
        /\ run[p].pc = "begin" => dir[Bin] # run[p].ver
        /\ run[p].ver \in Versions /\ ~run[p].activating /\ ~run[p].changed
    BY <1>1, <1>6 DEF HolderOK, AtStep, InTransaction, Activating
  <2>2. Settled(r, dir, manifest, journal, mishaps = {})
    BY <1>3, <2>1 DEF Settled
  <2>3. SavedOK(p, r, dir, mishaps = {})
    <3>1. dir[Bin] = 0 => OldRollbacks(dir) = {} /\ ~manifest.there
      BY <2>2 DEF Settled, AllOrNothing, Present
    <3>2. manifest.prev # RollbackOf(p)
      BY <1>2, FreshName
    <3> QED
      BY <1>3, <1>a, <2>2, <3>1, <3>2 DEF SavedOK, Settled
  <2>4. r.prev = run[p].prev => (PrevThere(run[p], dir) => PrevThere(r, dir))
    BY DEF PrevThere
  <2>5. CASE run[p].pc = "keep" /\ pc = "resolve"
    <3>1. AtStep(p, r, dir, manifest, journal, mishaps = {})
      BY <1>3, <1>a, <2>1, <2>2, <2>3, <2>4, <2>5 DEF AtStep
    <3> QED
      BY <1>1, <1>3, <2>1, <2>5, <3>1 DEF HolderOK, InTransaction, Activating
  <2>6. CASE run[p].pc = "begin" /\ pc = "stage"
    <3>1. AtStep(p, r, dir, manifest, journal, mishaps = {})
      BY <1>3, <1>a, <2>1, <2>2, <2>3, <2>6 DEF AtStep
    <3> QED
      BY <1>1, <1>3, <2>1, <2>6, <3>1 DEF HolderOK, InTransaction, Activating
  <2> QED
    BY <1>b, <2>5, <2>6
<1> QED
  BY <1>1, <1>2, <1>3, <1>4, <1>5, <1>6, HolderStep

LEMMA StageCandidateStep ==
  ASSUME InstallInv, NEW p \in Runs, StageCandidate(p)
  PROVE  InstallInv'
<1> DEFINE r == [run[p] EXCEPT !.pc = "prepare"]
<1>1. /\ run[p].pc = "stage" /\ dir' = [dir EXCEPT ![StageOf(p)] = run[p].ver] /\ RunGoto(p, "prepare")
      /\ manifest' = manifest /\ journal' = journal /\ profile' = profile /\ UNCHANGED StepVars
  BY DEF StageCandidate
<1>2. /\ "stage" \in Holding /\ "prepare" \in Holding /\ "prepare" \in RunPcs
      /\ "stage" \in Early /\ run[p] \in RunRecords /\ run \in [Runs -> RunRecords]
  BY InsideFacts DEF Holding, RunPcs, Early
<1>3. /\ r \in RunRecords
      /\ r.pc = "prepare" /\ r.ver = run[p].ver /\ r.had = run[p].had /\ r.prev = run[p].prev
      /\ r.changed = run[p].changed /\ r.activating = run[p].activating /\ r.txn = run[p].txn
      /\ r.recovering = run[p].recovering /\ r.saved = run[p].saved
  BY <1>2 DEF RunRecords
<1>4. Becomes(p, r)
  BY <1>1, <1>2, GotoIs
<1> HIDE DEF r
<1>5. /\ dir' \in Dirs /\ dir'[Bin] = dir[Bin] /\ dir'[StageOf(p)] = run[p].ver
      /\ \A x \in Rollbacks : dir'[x] = dir[x]
  <2>1. /\ StageOf(p) \in Paths /\ StageOf(p) # Bin /\ Bin \in Paths /\ StageOf(p) \notin Rollbacks
        /\ Rollbacks \subseteq Paths
    BY PathFacts
  <2>2. run[p].ver \in 0 .. MaxVersion /\ dir \in [Paths -> 0 .. MaxVersion]
    BY <1>2, InsideFacts DEF RunRecords, Dirs
  <2> QED
    BY <1>1, <2>1, <2>2 DEF Dirs
<1>6. /\ manifest' \in Receipts /\ journal' \in Journals /\ profile' \in BOOLEAN
      /\ (journal'.had => journal'.prev # NoPath) /\ (r.had => r.prev # NoPath)
      /\ \A x \in Rollbacks : Present(dir', x) => x \in Named
      /\ {manifest'.prev, journal'.prev, r.prev, r.saved.manifest.prev} \subseteq Named \cup {NoPath}
  BY <1>1, <1>3, <1>5, InsideFacts DEF Present
<1>7. ASSUME HolderOK(p, run[p], dir, manifest, journal, mishaps = {})
      PROVE  HolderOK(p, r, dir', manifest', journal', mishaps = {})
  <2>1. /\ Settled(run[p], dir, manifest, journal, mishaps = {}) /\ SavedOK(p, run[p], dir, mishaps = {})
        /\ dir[Bin] # run[p].ver /\ run[p].saved.bin = dir[Bin]
        /\ run[p].ver \in Versions /\ run[p].txn /\ ~run[p].activating /\ ~run[p].changed
    BY <1>1, <1>7 DEF HolderOK, AtStep, InTransaction, Activating
  <2>2. SavedOK(p, r, dir', mishaps = {})
    BY <1>2, <1>3, <1>5, <2>1, PathFacts, SavedKept
  <2>3. Settled(r, dir', manifest', journal', mishaps = {})
    <3>1. AllOrNothing(dir', manifest) = AllOrNothing(dir, manifest)
      BY <1>5, ShelfKept
    <3>2. Truthful(manifest, dir[Bin], dir') = Truthful(manifest, dir[Bin], dir)
      BY <1>5, ShelfKept, InsideFacts
    <3> QED
      BY <1>1, <1>3, <1>5, <2>1, <3>1, <3>2 DEF Settled
  <2>4. AtStep(p, r, dir', manifest', journal', mishaps = {})
    BY <1>3, <1>5, <2>1, <2>2, <2>3 DEF AtStep
  <2> QED
    BY <1>1, <1>3, <2>1, <2>4 DEF HolderOK, InTransaction, Activating
<1> QED
  BY <1>1, <1>2, <1>3, <1>4, <1>5, <1>6, <1>7, HolderStep

LEMMA PrepareActivationStep ==
  ASSUME InstallInv, NEW p \in Runs, PrepareActivation(p)
  PROVE  InstallInv'
<1> DEFINE had == Present(dir, Bin)
           prev == IF Present(dir, Bin) THEN RollbackOf(p) ELSE NoPath
           r == [run[p] EXCEPT !.pc = "retain", !.activating = TRUE, !.had = had, !.prev = prev]
           S == Named \cup {RollbackOf(p)}
<1>1. /\ run[p].pc = "prepare" /\ run' = [run EXCEPT ![p] = r] /\ journal' = Journal(p, "prepared")
      /\ dir' = dir /\ manifest' = manifest /\ profile' = profile /\ UNCHANGED StepVars
  BY DEF PrepareActivation
<1>2. /\ "prepare" \in Holding /\ "retain" \in Holding /\ "retain" \in RunPcs /\ "retain" \notin Early
      /\ "prepare" \in Early /\ run[p] \in RunRecords /\ run \in [Runs -> RunRecords]
  BY InsideFacts DEF Holding, RunPcs, Early
<1>a. /\ had \in BOOLEAN /\ prev \in Rollbacks \cup {NoPath} /\ (had => prev # NoPath) /\ prev \in S \cup {NoPath}
      /\ prev = IF had THEN RollbackOf(p) ELSE NoPath
      /\ (had <=> Present(dir, Bin))
  BY PathFacts DEF Present
<1> HIDE DEF had, prev
<1>3. /\ r \in RunRecords
      /\ r.pc = "retain" /\ r.ver = run[p].ver /\ r.had = had /\ r.prev = prev
      /\ r.changed = run[p].changed /\ r.activating = TRUE /\ r.txn = run[p].txn
      /\ r.recovering = run[p].recovering /\ r.saved = run[p].saved
  BY <1>2, <1>a DEF RunRecords
<1> HIDE DEF r
<1>4. Becomes(p, r)
  BY <1>1, <1>2, <1>3, RunUpdate DEF Becomes
<1>b. journal' = OwnJournal(p, r, "prepared")
  BY <1>1, <1>3, <1>4 DEF Becomes, Journal, OwnJournal
<1>c. /\ journal' \in Journals /\ journal'.phase = "prepared" /\ journal'.pid = p /\ journal'.ver = r.ver
      /\ journal'.had = r.had /\ journal'.prev = r.prev
  BY <1>3, <1>b, OwnJournalIs
<1>5. /\ dir' \in Dirs /\ manifest' \in Receipts /\ profile' \in BOOLEAN
      /\ (journal'.had => journal'.prev # NoPath) /\ (r.had => r.prev # NoPath)
      /\ \A x \in Rollbacks : Present(dir', x) => x \in S
      /\ {manifest'.prev, journal'.prev, r.prev, r.saved.manifest.prev} \subseteq S \cup {NoPath}
      /\ Named \subseteq S /\ S \subseteq Named \cup {RollbackOf(p)}
  BY <1>1, <1>3, <1>a, <1>c, InsideFacts
<1>6. ASSUME HolderOK(p, run[p], dir, manifest, journal, mishaps = {})
      PROVE  HolderOK(p, r, dir', manifest', journal', mishaps = {})
  <2>1. /\ Settled(run[p], dir, manifest, journal, mishaps = {}) /\ SavedOK(p, run[p], dir, mishaps = {})
        /\ dir[Bin] # run[p].ver /\ run[p].saved.bin = dir[Bin] /\ dir[StageOf(p)] = run[p].ver
        /\ run[p].ver \in Versions /\ run[p].txn /\ ~run[p].activating /\ ~run[p].changed
    BY <1>1, <1>6 DEF HolderOK, AtStep, InTransaction, Activating
  <2>2. SavedOK(p, r, dir, mishaps = {})
    BY <1>2, <1>3, <2>1, SavedKept
  <2>3. JournalOK(journal', dir, manifest)
    <3>1. ~Present(dir, RollbackOf(p))
      BY <1>1, <1>2, FreshName DEF Present
    <3>2. AllOrNothing(dir, manifest)
      BY <2>1 DEF Settled
    <3> QED
      BY <1>3, <1>a, <1>c, <2>1, <3>1, <3>2 DEF JournalOK
  <2>4. r.had <=> r.saved.bin # 0
    BY <1>3, <1>a, <2>1 DEF Present
  <2>5. AtStep(p, r, dir, manifest, journal', mishaps = {})
    BY <1>3, <1>b, <2>1, <2>2, <2>3, <2>4 DEF AtStep
  <2> QED
    BY <1>1, <1>3, <2>1, <2>5 DEF HolderOK, InTransaction, Activating
<1> HIDE DEF S
<1> QED
  BY <1>1, <1>2, <1>3, <1>4, <1>5, <1>6, <1>c, HolderStep

LEMMA RetainPreviousStep ==
  ASSUME InstallInv, NEW p \in Runs, RetainPrevious(p)
  PROVE  InstallInv'
<1> DEFINE r == [run[p] EXCEPT !.pc = "note"]
           S == Named \cup {RollbackOf(p)}
<1>1. /\ run[p].pc = "retain" /\ RunGoto(p, "note")
      /\ dir' = IF run[p].had THEN Moved(dir, Bin, RollbackOf(p)) ELSE dir
      /\ manifest' = manifest /\ journal' = journal /\ profile' = profile /\ UNCHANGED StepVars
  BY DEF RetainPrevious
<1>2. /\ "retain" \in Holding /\ "note" \in Holding /\ "note" \in RunPcs /\ "note" \notin Early
      /\ run[p] \in RunRecords /\ run \in [Runs -> RunRecords]
  BY InsideFacts DEF Holding, RunPcs, Early
<1>3. /\ r \in RunRecords
      /\ r.pc = "note" /\ r.ver = run[p].ver /\ r.had = run[p].had /\ r.prev = run[p].prev
      /\ r.changed = run[p].changed /\ r.activating = run[p].activating /\ r.txn = run[p].txn
      /\ r.recovering = run[p].recovering /\ r.saved = run[p].saved
  BY <1>2 DEF RunRecords
<1>4. Becomes(p, r)
  BY <1>1, <1>2, GotoIs
<1> HIDE DEF r
<1>a. RollbackOf(p) \in Rollbacks /\ StageOf(p) \in Stages
  BY PathFacts
<1>5. /\ dir' \in Dirs /\ \A x \in Rollbacks : x # RollbackOf(p) => dir'[x] = dir[x]
      /\ run[p].had => dir'[Bin] = 0 /\ dir'[RollbackOf(p)] = dir[Bin]
      /\ ~run[p].had => dir' = dir
      /\ dir'[StageOf(p)] = dir[StageOf(p)]
  <2>1. CASE run[p].had
    BY <1>1, <1>a, <2>1, MovedOut, InsideFacts
  <2>2. CASE ~run[p].had
    BY <1>1, <2>2, InsideFacts
  <2> QED
    BY <2>1, <2>2
<1>6. /\ manifest' \in Receipts /\ journal' \in Journals /\ profile' \in BOOLEAN
      /\ (journal'.had => journal'.prev # NoPath) /\ (r.had => r.prev # NoPath)
      /\ \A x \in Rollbacks : Present(dir', x) => x \in S
      /\ {manifest'.prev, journal'.prev, r.prev, r.saved.manifest.prev} \subseteq S \cup {NoPath}
      /\ Named \subseteq S /\ S \subseteq Named \cup {RollbackOf(p)}
  BY <1>1, <1>3, <1>5, InsideFacts DEF Present
<1>7. ASSUME HolderOK(p, run[p], dir, manifest, journal, mishaps = {})
      PROVE  HolderOK(p, r, dir', manifest', journal', mishaps = {})
  <2>1. /\ journal = OwnJournal(p, run[p], "prepared") /\ JournalOK(journal, dir, manifest)
        /\ SavedOK(p, run[p], dir, mishaps = {})
        /\ run[p].saved.bin = dir[Bin] /\ (run[p].had <=> run[p].saved.bin # 0) /\ dir[StageOf(p)] = run[p].ver
        /\ run[p].ver \in Versions /\ run[p].txn /\ run[p].activating /\ ~run[p].changed
    BY <1>1, <1>7 DEF HolderOK, AtStep, InTransaction, Activating
  <2>2. SavedOK(p, r, dir', mishaps = {})
    BY <1>2, <1>3, <1>5, <2>1, SavedKept
  <2>3. /\ journal.phase = "prepared" /\ journal.pid = p /\ journal.ver = run[p].ver
        /\ journal.had = run[p].had /\ journal.prev = run[p].prev
    BY <1>2, <2>1, OwnJournalIs
  <2>4. Retained(p, r, dir')
    BY <1>3, <1>5, <2>1, <2>3 DEF Retained, JournalOK
  <2>5. ~Present(dir', Bin)
    BY <1>5, <2>1 DEF Present
  <2>6. JournalOK(journal, dir', manifest)
    <3>1. CASE run[p].had
      BY <1>5, <2>1, <2>3, <2>5, <3>1 DEF JournalOK, Present
    <3>2. CASE ~run[p].had
      BY <1>5, <2>1, <3>2
    <3> QED
      BY <3>1, <3>2
  <2>7. journal = OwnJournal(p, r, "prepared")
    BY <1>3, <2>1 DEF OwnJournal
  <2>8. AtStep(p, r, dir', manifest, journal, mishaps = {})
    BY <1>3, <1>5, <2>1, <2>2, <2>4, <2>5, <2>6, <2>7 DEF AtStep
  <2> QED
    BY <1>1, <1>3, <2>1, <2>8 DEF HolderOK, InTransaction, Activating
<1> HIDE DEF S
<1> QED
  BY <1>1, <1>2, <1>3, <1>4, <1>5, <1>6, <1>7, HolderStep

LEMMA NoteRetainedStep ==
  ASSUME InstallInv, NEW p \in Runs, NoteRetained(p)
  PROVE  InstallInv'
<1> DEFINE r == [run[p] EXCEPT !.pc = "swap"]
<1>1. /\ run[p].pc = "note" /\ RunGoto(p, "swap") /\ journal' = Journal(p, "activating")
      /\ dir' = dir /\ manifest' = manifest /\ profile' = profile /\ UNCHANGED StepVars
  BY DEF NoteRetained
<1>2. /\ "note" \in Holding /\ "swap" \in Holding /\ "swap" \in RunPcs /\ "swap" \notin Early
      /\ run[p] \in RunRecords /\ run \in [Runs -> RunRecords]
  BY InsideFacts DEF Holding, RunPcs, Early
<1>3. /\ r \in RunRecords
      /\ r.pc = "swap" /\ r.ver = run[p].ver /\ r.had = run[p].had /\ r.prev = run[p].prev
      /\ r.changed = run[p].changed /\ r.activating = run[p].activating /\ r.txn = run[p].txn
      /\ r.recovering = run[p].recovering /\ r.saved = run[p].saved
  BY <1>2 DEF RunRecords
<1>4. Becomes(p, r)
  BY <1>1, <1>2, GotoIs
<1> HIDE DEF r
<1>b. journal' = OwnJournal(p, r, "activating")
  BY <1>1, <1>3, <1>4 DEF Becomes, Journal, OwnJournal
<1>c. /\ journal' \in Journals /\ journal'.phase = "activating" /\ journal'.pid = p /\ journal'.ver = r.ver
      /\ journal'.had = r.had /\ journal'.prev = r.prev
  BY <1>3, <1>b, OwnJournalIs
<1>5. /\ dir' \in Dirs /\ manifest' \in Receipts /\ profile' \in BOOLEAN
      /\ (journal'.had => journal'.prev # NoPath) /\ (r.had => r.prev # NoPath)
      /\ \A x \in Rollbacks : Present(dir', x) => x \in Named
      /\ {manifest'.prev, journal'.prev, r.prev, r.saved.manifest.prev} \subseteq Named \cup {NoPath}
  BY <1>1, <1>3, <1>c, InsideFacts
<1>6. ASSUME HolderOK(p, run[p], dir, manifest, journal, mishaps = {})
      PROVE  HolderOK(p, r, dir', manifest', journal', mishaps = {})
  <2>1. /\ journal = OwnJournal(p, run[p], "prepared") /\ JournalOK(journal, dir, manifest)
        /\ SavedOK(p, run[p], dir, mishaps = {}) /\ Retained(p, run[p], dir)
        /\ ~Present(dir, Bin) /\ dir[StageOf(p)] = run[p].ver
        /\ run[p].ver \in Versions /\ run[p].txn /\ run[p].activating /\ ~run[p].changed
    BY <1>1, <1>6 DEF HolderOK, AtStep, InTransaction, Activating
  <2>2. SavedOK(p, r, dir, mishaps = {}) /\ Retained(p, r, dir)
    BY <1>3, <2>1 DEF SavedOK, Retained
  <2>3. /\ journal.phase = "prepared" /\ journal.pid = p /\ journal.ver = run[p].ver
        /\ journal.had = run[p].had /\ journal.prev = run[p].prev
    BY <1>2, <2>1, OwnJournalIs
  <2>4. JournalOK(journal', dir, manifest)
    BY <1>3, <1>c, <2>1, <2>3 DEF JournalOK
  <2>5. AtStep(p, r, dir, manifest, journal', mishaps = {})
    BY <1>3, <1>b, <2>1, <2>2, <2>4 DEF AtStep
  <2> QED
    BY <1>1, <1>3, <2>1, <2>5 DEF HolderOK, InTransaction, Activating
<1> QED
  BY <1>1, <1>2, <1>3, <1>4, <1>5, <1>6, <1>c, HolderStep

LEMMA SwapCandidateStep ==
  ASSUME InstallInv, NEW p \in Runs, SwapCandidate(p)
  PROVE  InstallInv'
<1> DEFINE r == [run[p] EXCEPT !.pc = "smoke", !.changed = TRUE]
<1>1. /\ run[p].pc = "swap" /\ run' = [run EXCEPT ![p] = r] /\ dir' = Moved(dir, StageOf(p), Bin)
      /\ manifest' = manifest /\ journal' = journal /\ profile' = profile /\ UNCHANGED StepVars
  BY DEF SwapCandidate
<1>2. /\ "swap" \in Holding /\ "smoke" \in Holding /\ "smoke" \in RunPcs /\ "smoke" \notin Early
      /\ run[p] \in RunRecords /\ run \in [Runs -> RunRecords]
  BY InsideFacts DEF Holding, RunPcs, Early
<1>3. /\ r \in RunRecords
      /\ r.pc = "smoke" /\ r.ver = run[p].ver /\ r.had = run[p].had /\ r.prev = run[p].prev
      /\ r.changed = TRUE /\ r.activating = run[p].activating /\ r.txn = run[p].txn
      /\ r.recovering = run[p].recovering /\ r.saved = run[p].saved
  BY <1>2 DEF RunRecords
<1> HIDE DEF r
<1>4. Becomes(p, r)
  BY <1>1, <1>2, <1>3, RunUpdate DEF Becomes
<1>5. /\ dir' \in Dirs /\ dir'[Bin] = dir[StageOf(p)] /\ \A x \in Rollbacks : dir'[x] = dir[x]
  <2>1. /\ StageOf(p) \in Paths /\ StageOf(p) # Bin /\ Bin \in Paths /\ StageOf(p) \notin Rollbacks
        /\ Rollbacks \subseteq Paths /\ Bin \notin Rollbacks
    BY PathFacts
  <2> QED
    BY <1>1, <2>1, MovedIs, InsideFacts
<1>6. /\ manifest' \in Receipts /\ journal' \in Journals /\ profile' \in BOOLEAN
      /\ (journal'.had => journal'.prev # NoPath) /\ (r.had => r.prev # NoPath)
      /\ \A x \in Rollbacks : Present(dir', x) => x \in Named
      /\ {manifest'.prev, journal'.prev, r.prev, r.saved.manifest.prev} \subseteq Named \cup {NoPath}
  BY <1>1, <1>3, <1>5, InsideFacts DEF Present
<1>7. ASSUME HolderOK(p, run[p], dir, manifest, journal, mishaps = {})
      PROVE  HolderOK(p, r, dir', manifest', journal', mishaps = {})
  <2>1. /\ journal = OwnJournal(p, run[p], "activating") /\ JournalOK(journal, dir, manifest)
        /\ SavedOK(p, run[p], dir, mishaps = {}) /\ Retained(p, run[p], dir)
        /\ ~Present(dir, Bin) /\ dir[StageOf(p)] = run[p].ver
        /\ run[p].ver \in Versions /\ run[p].txn /\ run[p].activating
    BY <1>1, <1>7 DEF HolderOK, AtStep, InTransaction, Activating
  <2>2. SavedOK(p, r, dir', mishaps = {}) /\ Retained(p, r, dir')
    <3>1. SavedOK(p, r, dir', mishaps = {})
      BY <1>2, <1>3, <1>5, <2>1, PathFacts, SavedKept
    <3>2. Retained(p, r, dir')
      BY <1>3, <1>5, <2>1, PathFacts DEF Retained
    <3> QED
      BY <3>1, <3>2
  <2>3. /\ journal.phase = "activating" /\ journal.pid = p /\ journal.ver = run[p].ver
        /\ journal.had = run[p].had /\ journal.prev = run[p].prev
    BY <1>2, <2>1, OwnJournalIs
  <2>4. JournalOK(journal, dir', manifest)
    <3>1. Present(dir', Bin) /\ dir'[Bin] = journal.ver
      BY <1>5, <2>1, <2>3, VersionPresent
    <3>2. journal.had => Present(dir', journal.prev)
      BY <1>5, <2>1, <2>3, PathFacts DEF JournalOK, Present
    <3> QED
      BY <2>1, <2>3, <3>1, <3>2 DEF JournalOK, AllOrNothing
  <2>5. journal = OwnJournal(p, r, "activating")
    BY <1>3, <2>1 DEF OwnJournal
  <2>6. AtStep(p, r, dir', manifest, journal, mishaps = {})
    BY <1>3, <1>5, <2>1, <2>2, <2>4, <2>5 DEF AtStep
  <2> QED
    BY <1>1, <1>3, <2>1, <2>6 DEF HolderOK, InTransaction, Activating
<1> QED
  BY <1>1, <1>2, <1>3, <1>4, <1>5, <1>6, <1>7, HolderStep

LEMMA SmokeActivatedStep ==
  ASSUME InstallInv, NEW p \in Runs, SmokeActivated(p)
  PROVE  InstallInv'
<1> DEFINE r == [run[p] EXCEPT !.pc = "resolve", !.activating = FALSE]
<1>1. /\ run[p].pc = "smoke" /\ run' = [run EXCEPT ![p] = r] /\ journal' = Journal(p, "activated")
      /\ dir' = dir /\ manifest' = manifest /\ profile' = profile /\ UNCHANGED StepVars
  BY DEF SmokeActivated
<1>2. /\ "smoke" \in Holding /\ "resolve" \in Holding /\ "resolve" \in RunPcs /\ "resolve" \notin Early
      /\ run[p] \in RunRecords /\ run \in [Runs -> RunRecords]
  BY InsideFacts DEF Holding, RunPcs, Early
<1>3. /\ r \in RunRecords
      /\ r.pc = "resolve" /\ r.ver = run[p].ver /\ r.had = run[p].had /\ r.prev = run[p].prev
      /\ r.changed = run[p].changed /\ r.activating = FALSE /\ r.txn = run[p].txn
      /\ r.recovering = run[p].recovering /\ r.saved = run[p].saved
  BY <1>2 DEF RunRecords
<1> HIDE DEF r
<1>4. Becomes(p, r)
  BY <1>1, <1>2, <1>3, RunUpdate DEF Becomes
<1>b. journal' = OwnJournal(p, r, "activated")
  BY <1>1, <1>3, <1>4 DEF Becomes, Journal, OwnJournal
<1>c. /\ journal' \in Journals /\ journal'.phase = "activated" /\ journal'.pid = p /\ journal'.ver = r.ver
      /\ journal'.had = r.had /\ journal'.prev = r.prev
  BY <1>3, <1>b, OwnJournalIs
<1>5. /\ dir' \in Dirs /\ manifest' \in Receipts /\ profile' \in BOOLEAN
      /\ (journal'.had => journal'.prev # NoPath) /\ (r.had => r.prev # NoPath)
      /\ \A x \in Rollbacks : Present(dir', x) => x \in Named
      /\ {manifest'.prev, journal'.prev, r.prev, r.saved.manifest.prev} \subseteq Named \cup {NoPath}
  BY <1>1, <1>3, <1>c, InsideFacts
<1>6. ASSUME HolderOK(p, run[p], dir, manifest, journal, mishaps = {})
      PROVE  HolderOK(p, r, dir', manifest', journal', mishaps = {})
  <2>1. /\ journal = OwnJournal(p, run[p], "activating") /\ JournalOK(journal, dir, manifest)
        /\ SavedOK(p, run[p], dir, mishaps = {}) /\ Retained(p, run[p], dir)
        /\ dir[Bin] = run[p].ver
        /\ run[p].ver \in Versions /\ run[p].txn /\ run[p].changed
    BY <1>1, <1>6 DEF HolderOK, AtStep, InTransaction, Activating
  <2>2. SavedOK(p, r, dir, mishaps = {}) /\ Retained(p, r, dir)
    BY <1>3, <2>1 DEF SavedOK, Retained
  <2>3. /\ journal.phase = "activating" /\ journal.pid = p /\ journal.ver = run[p].ver
        /\ journal.had = run[p].had /\ journal.prev = run[p].prev
    BY <1>2, <2>1, OwnJournalIs
  <2>4. JournalOK(journal', dir, manifest)
    BY <1>3, <1>c, <2>1, <2>3 DEF JournalOK
  <2>5. PrevThere(r, dir)
    BY <1>3, <1>c, <2>4 DEF JournalOK, PrevThere
  <2>6. AtStep(p, r, dir, manifest, journal', mishaps = {})
    BY <1>3, <1>b, <2>1, <2>2, <2>4, <2>5 DEF AtStep
  <2> QED
    BY <1>1, <1>3, <2>1, <2>6 DEF HolderOK, InTransaction, Activating
<1> QED
  BY <1>1, <1>2, <1>3, <1>4, <1>5, <1>6, <1>c, HolderStep

(* The files between the activation and the commit *)
LEMMA LateIs ==
  ASSUME NEW p \in Runs, HolderOK(p, run[p], dir, manifest, journal, mishaps = {}),
         run[p].pc \in {"resolve", "record", "validate", "commit"}
  PROVE /\ dir[Bin] = run[p].ver /\ PrevThere(run[p], dir) /\ SavedOK(p, run[p], dir, mishaps = {})
        /\ (run[p].pc \in {"validate", "commit"} => Recorded(run[p], manifest))
        /\ IF run[p].changed
             THEN /\ journal = OwnJournal(p, run[p], "activated") /\ JournalOK(journal, dir, manifest)
                  /\ Retained(p, run[p], dir)
             ELSE run[p].saved.bin = dir[Bin] /\ Settled(run[p], dir, manifest, journal, mishaps = {})
        /\ run[p].ver \in Versions /\ run[p].txn /\ ~run[p].activating
BY DEF HolderOK, AtStep, InTransaction, Activating

LEMMA LateAgain ==
  ASSUME NEW p \in Runs, NEW r \in RunRecords, NEW m,
         HolderOK(p, run[p], dir, manifest, journal, mishaps = {}),
         run[p].pc \in {"resolve", "record", "validate", "commit"},
         r.pc \in {"record", "validate", "commit"}, r.pc # "record" => Recorded(r, m), run[p] \in RunRecords,
         r.ver = run[p].ver, r.had = run[p].had, r.prev = run[p].prev, r.changed = run[p].changed,
         r.activating = run[p].activating, r.txn = run[p].txn, r.recovering = run[p].recovering,
         r.saved = run[p].saved, m = manifest \/ Recorded(r, m)
  PROVE  HolderOK(p, r, dir, m, journal, mishaps = {})
<1>1. /\ dir[Bin] = run[p].ver /\ PrevThere(run[p], dir) /\ SavedOK(p, run[p], dir, mishaps = {})
      /\ (run[p].pc \in {"validate", "commit"} => Recorded(run[p], manifest))
      /\ IF run[p].changed
           THEN /\ journal = OwnJournal(p, run[p], "activated") /\ JournalOK(journal, dir, manifest)
                /\ Retained(p, run[p], dir)
           ELSE run[p].saved.bin = dir[Bin] /\ Settled(run[p], dir, manifest, journal, mishaps = {})
      /\ run[p].ver \in Versions /\ run[p].txn /\ ~run[p].activating
  BY LateIs
<1>2. PrevThere(r, dir) /\ SavedOK(p, r, dir, mishaps = {})
  BY <1>1 DEF PrevThere, SavedOK
<1>3. Present(dir, Bin)
  BY <1>1, VersionPresent
<1>4. Recorded(r, m) => Truthful(m, dir[Bin], dir)
  BY <1>1, <1>2 DEF Recorded, Truthful, PrevThere
<1>5. CASE r.changed
  <2>1. journal = OwnJournal(p, r, "activated") /\ Retained(p, r, dir) /\ JournalOK(journal, dir, manifest)
    BY <1>1, <1>5 DEF OwnJournal, Retained
  <2>2. JournalOK(journal, dir, m)
    BY <1>3, <2>1 DEF JournalOK, AllOrNothing
  <2>3. AtStep(p, r, dir, m, journal, mishaps = {})
    BY <1>1, <1>2, <1>5, <2>1, <2>2 DEF AtStep
  <2> QED
    BY <1>1, <2>3 DEF HolderOK, InTransaction, Activating
<1>6. CASE ~r.changed
  <2>1. r.saved.bin = dir[Bin] /\ Settled(run[p], dir, manifest, journal, mishaps = {})
    BY <1>1, <1>6
  <2>2. Settled(r, dir, m, journal, mishaps = {})
    BY <1>3, <1>4, <2>1 DEF Settled, AllOrNothing
  <2>3. AtStep(p, r, dir, m, journal, mishaps = {})
    BY <1>1, <1>2, <1>6, <2>1, <2>2 DEF AtStep
  <2> QED
    BY <1>1, <2>3 DEF HolderOK, InTransaction, Activating
<1> QED
  BY <1>5, <1>6

LEMMA ResolveInShellStep ==
  ASSUME InstallInv, NEW p \in Runs, ResolveInShell(p)
  PROVE  InstallInv'
<1> DEFINE r == [run[p] EXCEPT !.pc = "record"]
<1>1. /\ run[p].pc = "resolve" /\ RunGoto(p, "record")
      /\ dir' = dir /\ manifest' = manifest /\ journal' = journal /\ profile' = profile /\ UNCHANGED StepVars
  BY DEF ResolveInShell
<1>2. /\ "resolve" \in Holding /\ "record" \in Holding /\ "record" \in RunPcs /\ "record" \notin Early
      /\ run[p] \in RunRecords /\ run \in [Runs -> RunRecords]
  BY InsideFacts DEF Holding, RunPcs, Early
<1>3. /\ r \in RunRecords
      /\ r.pc = "record" /\ r.ver = run[p].ver /\ r.had = run[p].had /\ r.prev = run[p].prev
      /\ r.changed = run[p].changed /\ r.activating = run[p].activating /\ r.txn = run[p].txn
      /\ r.recovering = run[p].recovering /\ r.saved = run[p].saved
  BY <1>2 DEF RunRecords
<1>4. Becomes(p, r)
  BY <1>1, <1>2, GotoIs
<1> HIDE DEF r
<1>5. /\ dir' \in Dirs /\ manifest' \in Receipts /\ journal' \in Journals /\ profile' \in BOOLEAN
      /\ (journal'.had => journal'.prev # NoPath) /\ (r.had => r.prev # NoPath)
      /\ \A x \in Rollbacks : Present(dir', x) => x \in Named
      /\ {manifest'.prev, journal'.prev, r.prev, r.saved.manifest.prev} \subseteq Named \cup {NoPath}
  BY <1>1, <1>3, InsideFacts
<1>6. ASSUME HolderOK(p, run[p], dir, manifest, journal, mishaps = {})
      PROVE  HolderOK(p, r, dir', manifest', journal', mishaps = {})
  <2>1. r.pc # "record" => Recorded(r, manifest)
    BY <1>1, <1>3, <1>6, LateIs DEF Recorded
  <2>2. HolderOK(p, r, dir, manifest, journal, mishaps = {})
    BY <1>1, <1>2, <1>3, <1>6, <2>1, LateAgain
  <2> QED
    BY <1>1, <2>2
<1> QED
  BY <1>1, <1>2, <1>3, <1>4, <1>5, <1>6, HolderStep

LEMMA ValidateReceiptStep ==
  ASSUME InstallInv, NEW p \in Runs, ValidateReceipt(p)
  PROVE  InstallInv'
<1> DEFINE r == [run[p] EXCEPT !.pc = "commit"]
<1>1. /\ run[p].pc = "validate" /\ RunGoto(p, "commit")
      /\ dir' = dir /\ manifest' = manifest /\ journal' = journal /\ profile' = profile /\ UNCHANGED StepVars
  BY DEF ValidateReceipt
<1>2. /\ "validate" \in Holding /\ "commit" \in Holding /\ "commit" \in RunPcs /\ "commit" \notin Early
      /\ run[p] \in RunRecords /\ run \in [Runs -> RunRecords]
  BY InsideFacts DEF Holding, RunPcs, Early
<1>3. /\ r \in RunRecords
      /\ r.pc = "commit" /\ r.ver = run[p].ver /\ r.had = run[p].had /\ r.prev = run[p].prev
      /\ r.changed = run[p].changed /\ r.activating = run[p].activating /\ r.txn = run[p].txn
      /\ r.recovering = run[p].recovering /\ r.saved = run[p].saved
  BY <1>2 DEF RunRecords
<1>4. Becomes(p, r)
  BY <1>1, <1>2, GotoIs
<1> HIDE DEF r
<1>5. /\ dir' \in Dirs /\ manifest' \in Receipts /\ journal' \in Journals /\ profile' \in BOOLEAN
      /\ (journal'.had => journal'.prev # NoPath) /\ (r.had => r.prev # NoPath)
      /\ \A x \in Rollbacks : Present(dir', x) => x \in Named
      /\ {manifest'.prev, journal'.prev, r.prev, r.saved.manifest.prev} \subseteq Named \cup {NoPath}
  BY <1>1, <1>3, InsideFacts
<1>6. ASSUME HolderOK(p, run[p], dir, manifest, journal, mishaps = {})
      PROVE  HolderOK(p, r, dir', manifest', journal', mishaps = {})
  <2>1. r.pc # "record" => Recorded(r, manifest)
    BY <1>1, <1>3, <1>6, LateIs DEF Recorded
  <2>2. HolderOK(p, r, dir, manifest, journal, mishaps = {})
    BY <1>1, <1>2, <1>3, <1>6, <2>1, LateAgain
  <2> QED
    BY <1>1, <2>2
<1> QED
  BY <1>1, <1>2, <1>3, <1>4, <1>5, <1>6, HolderStep

LEMMA WriteMetadataStep ==
  ASSUME InstallInv, NEW p \in Runs, WriteMetadata(p)
  PROVE  InstallInv'
<1>1. /\ run[p].pc = "record"
      /\ dir' = dir /\ journal' = journal /\ profile' = profile /\ UNCHANGED StepVars
  BY DEF WriteMetadata
<1>a. PICK setup \in {"skipped", "pending", "required"} :
        /\ manifest' = Receipt(run[p].ver, run[p].prev, setup, TRUE)
        /\ run' = [run EXCEPT ![p].pc = "validate", ![p].how = setup]
  BY DEF WriteMetadata
<1> DEFINE r == [run[p] EXCEPT !.pc = "validate", !.how = setup]
<1>b. run' = [run EXCEPT ![p] = r]
  BY <1>a
<1>2. /\ "record" \in Holding /\ "validate" \in Holding /\ "validate" \in RunPcs /\ "validate" \notin Early
      /\ run[p] \in RunRecords /\ run \in [Runs -> RunRecords]
  BY InsideFacts DEF Holding, RunPcs, Early
<1>3. /\ r \in RunRecords
      /\ r.pc = "validate" /\ r.ver = run[p].ver /\ r.had = run[p].had /\ r.prev = run[p].prev
      /\ r.changed = run[p].changed /\ r.activating = run[p].activating /\ r.txn = run[p].txn
      /\ r.recovering = run[p].recovering /\ r.saved = run[p].saved
  BY <1>2 DEF RunRecords
<1> HIDE DEF r
<1>4. Becomes(p, r)
  BY <1>b, <1>2, <1>3, RunUpdate DEF Becomes
<1>c. manifest' \in Receipts /\ manifest'.prev = r.prev /\ Recorded(r, manifest')
  BY <1>a, <1>2, <1>3 DEF Receipt, Receipts, RunRecords, Recorded
<1>5. /\ dir' \in Dirs /\ journal' \in Journals /\ profile' \in BOOLEAN
      /\ (journal'.had => journal'.prev # NoPath) /\ (r.had => r.prev # NoPath)
      /\ \A x \in Rollbacks : Present(dir', x) => x \in Named
      /\ {manifest'.prev, journal'.prev, r.prev, r.saved.manifest.prev} \subseteq Named \cup {NoPath}
  BY <1>1, <1>3, <1>c, InsideFacts
<1>6. ASSUME HolderOK(p, run[p], dir, manifest, journal, mishaps = {})
      PROVE  HolderOK(p, r, dir', manifest', journal', mishaps = {})
  <2>2. HolderOK(p, r, dir, manifest', journal, mishaps = {})
    BY <1>1, <1>2, <1>3, <1>6, <1>c, LateAgain
  <2> QED
    BY <1>1, <2>2
<1> QED
  BY <1>1, <1>2, <1>3, <1>4, <1>5, <1>6, <1>c, HolderStep

LEMMA CommitTransactionStep ==
  ASSUME InstallInv, NEW p \in Runs, CommitTransaction(p)
  PROVE  InstallInv'
<1> DEFINE r == [run[p] EXCEPT !.pc = "setup", !.txn = FALSE, !.recovering = FALSE]
<1>1. /\ run[p].pc = "commit" /\ run' = [run EXCEPT ![p] = r] /\ journal' = NoJournal
      /\ dir' = dir /\ manifest' = manifest /\ profile' = profile /\ UNCHANGED StepVars
  BY DEF CommitTransaction, StepVars
<1>2. /\ "commit" \in Holding /\ "setup" \in Holding /\ "setup" \in RunPcs /\ "setup" \notin Early
      /\ run[p] \in RunRecords /\ run \in [Runs -> RunRecords]
  BY InsideFacts DEF Holding, RunPcs, Early
<1>3. /\ r \in RunRecords
      /\ r.pc = "setup" /\ r.ver = run[p].ver /\ r.had = run[p].had /\ r.prev = run[p].prev
      /\ r.changed = run[p].changed /\ r.activating = run[p].activating /\ r.txn = FALSE
      /\ r.recovering = FALSE /\ r.saved = run[p].saved
  BY <1>2 DEF RunRecords
<1> HIDE DEF r
<1>4. Becomes(p, r)
  BY <1>1, <1>2, <1>3, RunUpdate DEF Becomes
<1>5. /\ dir' \in Dirs /\ manifest' \in Receipts /\ journal' \in Journals /\ profile' \in BOOLEAN
      /\ (journal'.had => journal'.prev # NoPath) /\ (r.had => r.prev # NoPath)
      /\ \A x \in Rollbacks : Present(dir', x) => x \in Named
      /\ {manifest'.prev, journal'.prev, r.prev, r.saved.manifest.prev} \subseteq Named \cup {NoPath}
  BY <1>1, <1>3, ConstantRecords, InsideFacts
<1>6. ASSUME HolderOK(p, run[p], dir, manifest, journal, mishaps = {})
      PROVE  HolderOK(p, r, dir', manifest', journal', mishaps = {})
  <2>1. /\ dir[Bin] = run[p].ver /\ PrevThere(run[p], dir) /\ Recorded(run[p], manifest)
        /\ run[p].ver \in Versions /\ ~run[p].activating
    BY <1>1, <1>6, LateIs
  <2>2. PrevThere(r, dir) /\ Truthful(manifest, dir[Bin], dir)
    BY <1>3, <2>1 DEF PrevThere, Recorded, Truthful
  <2>3. AtStep(p, r, dir, manifest, NoJournal, mishaps = {})
    BY <1>3, <2>1, <2>2 DEF AtStep
  <2>4. HolderOK(p, r, dir, manifest, NoJournal, mishaps = {})
    BY <1>3, <2>1, <2>3 DEF HolderOK, InTransaction, Activating
  <2> QED
    BY <1>1, <2>4
<1> QED
  BY <1>1, <1>2, <1>3, <1>4, <1>5, <1>6, HolderStep

LEMMA MarkedIs ==
  ASSUME NEW m \in Receipts
  PROVE  /\ Marked(m) \in Receipts /\ Marked(m).there = m.there /\ Marked(m).ver = m.ver
         /\ Marked(m).prev = m.prev
BY DEF Marked, Receipts

LEMMA FinishSetupStep ==
  ASSUME InstallInv, NEW p \in Runs, FinishSetup(p)
  PROVE  InstallInv'
<1>1. /\ run[p].pc = "setup" /\ End(p, "done") /\ lock' = Released(p)
      /\ dir' = dir /\ journal' = journal /\ profile' = profile /\ mishaps' = mishaps
      /\ UNCHANGED <<cmd, flock>> /\ cmds' = cmds /\ kills' = kills /\ faults' = faults
  BY DEF FinishSetup
<1>2. \/ manifest' = manifest
      \/ \E setup \in {"existing", "failed"} : manifest' = Receipt(run[p].ver, run[p].prev, setup, TRUE)
      \/ manifest' = Marked(manifest)
  BY DEF FinishSetup
<1>3. /\ "setup" \in Holding /\ run[p] \in RunRecords
      /\ lock' \in {lock, Released(p)} /\ mishaps' \in {mishaps, Stopped(p)}
      /\ kills' \in 0 .. MaxKills /\ faults' \in 0 .. MaxFaults
  BY <1>1, InsideFacts DEF Holding
<1>4. /\ manifest' \in Receipts /\ manifest'.prev \in {manifest.prev, run[p].prev}
      /\ \/ manifest'.there = manifest.there /\ manifest'.ver = manifest.ver /\ manifest'.prev = manifest.prev
         \/ manifest'.ver = run[p].ver /\ manifest'.prev = run[p].prev
  <2>1. CASE manifest' = manifest
    BY <2>1, InsideFacts
  <2>2. ASSUME NEW setup \in {"existing", "failed"}, manifest' = Receipt(run[p].ver, run[p].prev, setup, TRUE)
        PROVE  manifest' \in Receipts /\ manifest'.ver = run[p].ver /\ manifest'.prev = run[p].prev
    BY <1>3, <2>2 DEF Receipt, Receipts, RunRecords
  <2>3. CASE manifest' = Marked(manifest)
    <3>1. manifest \in Receipts
      BY InsideFacts
    <3> QED
      BY <2>3, <3>1, MarkedIs
  <2> QED
    BY <1>2, <2>1, <2>2, <2>3
<1>5. /\ dir' \in Dirs /\ journal' \in Journals /\ profile' \in BOOLEAN
      /\ (journal'.had => journal'.prev # NoPath)
      /\ \A x \in Rollbacks : Present(dir', x) => x \in Named
      /\ {manifest'.prev, journal'.prev} \subseteq Named \cup {NoPath}
  BY <1>1, <1>4, InsideFacts
<1>6. ASSUME HolderOK(p, run[p], dir, manifest, journal, mishaps = {})
      PROVE  RestOK(dir', manifest', journal', mishaps' = {})
  <2>1. /\ journal = NoJournal /\ dir[Bin] = run[p].ver /\ PrevThere(run[p], dir)
        /\ Truthful(manifest, dir[Bin], dir) /\ run[p].ver \in Versions
    BY <1>1, <1>6 DEF HolderOK, AtStep
  <2>2. Present(dir, Bin)
    BY <2>1, VersionPresent
  <2>3. Truthful(manifest', dir[Bin], dir)
    BY <1>4, <2>1 DEF Truthful, PrevThere
  <2>4. RestOK(dir, manifest', NoJournal, mishaps = {})
    BY <2>2, <2>3 DEF RestOK, AllOrNothing
  <2> QED
    BY <1>1, <2>1, <2>4
<1> QED
  BY <1>1, <1>3, <1>4, <1>5, <1>6, HolderStop

-----------------------------------------------------------------------------
(* The exit trap *)

(* Whatever the trap does, it fills no rollback name. *)
LEMMA TrapShelf ==
  ASSUME NEW p \in Runs, NEW r \in RunRecords, r.had => r.prev # NoPath, NEW d \in Dirs
  PROVE  LET t == TrapRestores(r, d)
             e == Aside(t, StageOf(p)) IN
         /\ e \in Dirs /\ e[Bin] = t[Bin]
         /\ \A x \in Rollbacks : e[x] = t[x]
         /\ \A x \in Rollbacks : Present(e, x) => Present(d, x)
<1> DEFINE t == TrapRestores(r, d)
           e == Aside(t, StageOf(p))
<1>1. t \in Dirs
  BY TrapRestoresIs
<1>2. \A x \in Rollbacks : t[x] = 0 \/ t[x] = d[x]
  <2>1. CASE t = d
    BY <2>1
  <2>2. CASE t = Aside(d, Bin)
    BY <2>2, AsideShelf
  <2>3. CASE r.prev \in Rollbacks /\ t = Moved(d, r.prev, Bin)
    BY <2>3, MovedIn
  <2>4. r.prev \in Rollbacks \/ r.prev = NoPath
    BY DEF RunRecords
  <2> QED
    BY <2>1, <2>2, <2>3, <2>4 DEF TrapRestores
<1> HIDE DEF t
<1>3. /\ StageOf(p) \in Paths /\ StageOf(p) # Bin /\ Bin \in Paths /\ StageOf(p) \notin Rollbacks
      /\ Rollbacks \subseteq Paths
  BY PathFacts
<1>4. e \in Dirs /\ e[Bin] = t[Bin] /\ \A x \in Rollbacks : e[x] = t[x]
  BY <1>1, <1>3, AsideIs
<1>5. \A x \in Rollbacks : Present(e, x) => Present(d, x)
  BY <1>2, <1>4 DEF Present
<1> QED
  BY <1>4, <1>5 DEF t

(* During a transaction the trap puts the command back that was there when it began. *)
LEMMA TrapBin ==
  ASSUME NEW p \in Runs, NEW r \in RunRecords, r.had => r.prev # NoPath, NEW d \in Dirs, NEW m, NEW j \in Journals,
         NEW told \in BOOLEAN, HolderOK(p, r, d, m, j, told), r.txn
  PROVE  LET t == TrapRestores(r, d) IN
         /\ t[Bin] = r.saved.bin /\ SavedOK(p, r, d, told)
         /\ \A x \in Rollbacks : x # RollbackOf(p) => t[x] = d[x]
         /\ r.saved.bin = 0 => t[RollbackOf(p)] = d[RollbackOf(p)]
         /\ j = NoJournal \/ j.pid = p
<1> DEFINE t == TrapRestores(r, d)
<1>1. /\ AtStep(p, r, d, m, j, told) /\ r.pc \in InTransaction /\ (r.activating <=> r.pc \in Activating)
      /\ r.ver \in Versions
      /\ (r.pc \notin {"smoke", "resolve", "record", "validate", "commit", "setup"} => ~r.changed)
      /\ r.txn \in BOOLEAN /\ r.activating \in BOOLEAN /\ r.had \in BOOLEAN /\ r.changed \in BOOLEAN
      /\ RollbackOf(p) \in Rollbacks /\ RollbackOf(p) # NoPath
  BY PathFacts DEF HolderOK, RunRecords
<1>2. CASE r.pc \in {"stage", "prepare"}
  <2>1. /\ r.saved.bin = d[Bin] /\ SavedOK(p, r, d, told) /\ j = NoJournal
    BY <1>1, <1>2 DEF AtStep, Settled
  <2>2. ~r.activating /\ ~r.changed
    BY <1>1, <1>2 DEF Activating
  <2>3. t = d
    BY <2>2 DEF TrapRestores
  <2> QED
    BY <2>1, <2>3
<1>3. CASE r.pc = "retain"
  <2>1. /\ j = OwnJournal(p, r, "prepared") /\ JournalOK(j, d, m) /\ SavedOK(p, r, d, told)
        /\ r.saved.bin = d[Bin] /\ (r.had <=> r.saved.bin # 0) /\ r.activating
    BY <1>1, <1>3 DEF AtStep, Activating
  <2>2. j.phase = "prepared" /\ j.pid = p /\ j.had = r.had /\ j.prev = r.prev
    BY <2>1, OwnJournalIs
  <2>3. CASE r.had
    <3>1. ~Present(d, r.prev)
      BY <2>1, <2>2, <2>3 DEF JournalOK, Present
    <3>2. t = d
      BY <1>1, <2>1, <2>3, <3>1 DEF TrapRestores
    <3> QED
      BY <2>1, <2>2, <3>2
  <2>4. CASE ~r.had
    <3>1. t = Aside(d, Bin)
      BY <2>1, <2>4 DEF TrapRestores
    <3> QED
      BY <1>1, <2>1, <2>2, <2>4, <3>1, AsideShelf
  <2> QED
    BY <2>3, <2>4
<1>4. ASSUME r.activating \/ r.changed, Retained(p, r, d)
      PROVE  /\ t[Bin] = r.saved.bin
             /\ \A x \in Rollbacks : x # RollbackOf(p) => t[x] = d[x]
             /\ r.saved.bin = 0 => t[RollbackOf(p)] = d[RollbackOf(p)]
  <2>1. CASE r.had
    <3>1. /\ r.prev = RollbackOf(p) /\ Present(d, r.prev) /\ d[RollbackOf(p)] = r.saved.bin
          /\ r.saved.bin # 0
      BY <1>4, <2>1 DEF Retained, Present
    <3>2. t = Moved(d, RollbackOf(p), Bin)
      BY <1>1, <1>4, <2>1, <3>1 DEF TrapRestores
    <3> QED
      BY <1>1, <3>1, <3>2, MovedIn
  <2>2. CASE ~r.had
    <3>1. r.prev = NoPath /\ r.saved.bin = 0
      BY <1>4, <2>2 DEF Retained
    <3>2. t = Aside(d, Bin)
      BY <1>1, <1>4, <2>2, <3>1 DEF TrapRestores
    <3> QED
      BY <1>1, <3>1, <3>2, AsideShelf
  <2> QED
    BY <2>1, <2>2
<1>5. CASE r.pc \in {"note", "swap", "smoke"}
  <2>1. /\ SavedOK(p, r, d, told) /\ Retained(p, r, d) /\ r.activating
        /\ j \in {OwnJournal(p, r, "prepared"), OwnJournal(p, r, "activating")}
    BY <1>1, <1>5 DEF AtStep, Activating
  <2>2. j.pid = p
    BY <2>1, OwnJournalIs
  <2> QED
    BY <1>4, <2>1, <2>2
<1>6. CASE r.pc \in {"resolve", "record", "validate", "commit"}
  <2>1. SavedOK(p, r, d, told) /\ ~r.activating
    BY <1>1, <1>6 DEF AtStep, Activating
  <2>2. CASE r.changed
    <3>1. Retained(p, r, d) /\ j = OwnJournal(p, r, "activated")
      BY <1>1, <1>6, <2>2 DEF AtStep
    <3>2. j.pid = p
      BY <3>1, OwnJournalIs
    <3> QED
      BY <1>4, <2>1, <2>2, <3>1, <3>2
  <2>3. CASE ~r.changed
    <3>1. r.saved.bin = d[Bin] /\ j = NoJournal
      BY <1>1, <1>6, <2>3 DEF AtStep, Settled
    <3>2. t = d
      BY <2>1, <2>3 DEF TrapRestores
    <3> QED
      BY <2>1, <3>1, <3>2
  <2> QED
    BY <2>2, <2>3
<1> QED
  BY <1>1, <1>2, <1>3, <1>5, <1>6 DEF InTransaction

(* The files are at rest when the trap is through. *)
LEMMA TrapRest ==
  ASSUME NEW p \in Runs, NEW r \in RunRecords, r.had => r.prev # NoPath, NEW d \in Dirs, NEW m \in Receipts,
         NEW j \in Journals, NEW told \in BOOLEAN, NEW still \in BOOLEAN,
         HolderOK(p, r, d, m, j, told), r.pc \in Holding,
         ~(r.pc = "clear" /\ j.phase # "prepared" /\ j.had /\ ~Present(d, j.prev)),
         still => told /\ ~r.recovering
  PROVE  LET e == Aside(TrapRestores(r, d), StageOf(p)) IN
         /\ r.txn => /\ RestOK(e, r.saved.manifest, NoJournal, still) /\ e[Bin] = r.saved.bin
                     /\ j = NoJournal \/ j.pid = p
         /\ ~r.txn => RestOK(e, m, j, still)
<1> DEFINE t == TrapRestores(r, d)
           e == Aside(t, StageOf(p))
           n == r.saved.manifest
<1>1. e[Bin] = t[Bin] /\ \A x \in Rollbacks : e[x] = t[x]
  BY TrapShelf
<1> HIDE DEF e
<1>2. ASSUME r.txn PROVE RestOK(e, n, NoJournal, still) /\ e[Bin] = r.saved.bin /\ (j = NoJournal \/ j.pid = p)
  <2>1. /\ t[Bin] = r.saved.bin /\ SavedOK(p, r, d, told)
        /\ \A x \in Rollbacks : x # RollbackOf(p) => t[x] = d[x]
        /\ r.saved.bin = 0 => t[RollbackOf(p)] = d[RollbackOf(p)]
        /\ j = NoJournal \/ j.pid = p
    BY <1>2, TrapBin
  <2>2. RollbackOf(p) \in Rollbacks
    BY PathFacts
  <2>3. SavedOK(p, r, e, told)
    <3>1. /\ \A x \in Rollbacks : x # RollbackOf(p) => e[x] = d[x]
          /\ r.saved.bin = 0 => e[RollbackOf(p)] = d[RollbackOf(p)]
      BY <1>1, <2>1, <2>2
    <3> QED
      BY <2>1, <3>1, SavedKept
  <2>4. e[Bin] = r.saved.bin
    BY <1>1, <2>1
  <2>5. AllOrNothing(e, n)
    BY <2>3, <2>4 DEF SavedOK, AllOrNothing, Present
  <2>6. still => Truthful(n, e[Bin], e)
    BY <2>3, <2>4 DEF SavedOK
  <2> QED
    BY <2>1, <2>4, <2>5, <2>6 DEF RestOK
<1>3. ASSUME ~r.txn PROVE RestOK(e, m, j, still)
  <2>1. ~r.activating
    BY <1>3 DEF HolderOK, Activating, InTransaction
  <2>2. t = d
    BY <1>3, <2>1 DEF TrapRestores
  <2>3. RestOK(d, m, j, still)
    BY HolderRest
  <2>4. RestOK(e, m, j, still) = RestOK(d, m, j, still)
    BY <1>1, <2>2, ShelfKept
  <2> QED
    BY <2>3, <2>4
<1> QED
  BY <1>2, <1>3 DEF e

LEMMA TrapStep ==
  ASSUME InstallInv, NEW p \in Runs, Trap(p), run[p].pc \in Holding, faults' \in 0 .. MaxFaults
  PROVE  InstallInv'
<1> DEFINE r == run[p]
<1>1. /\ dir' = Aside(TrapRestores(r, dir), StageOf(p))
      /\ profile' = IF r.txn THEN r.saved.profile ELSE profile
      /\ manifest' = IF r.txn THEN r.saved.manifest ELSE manifest
      /\ journal' = IF r.txn /\ journal.pid = p THEN NoJournal ELSE journal
      /\ lock' = Released(p) /\ End(p, "failed") /\ mishaps' = Stopped(p)
      /\ UNCHANGED <<cmd, flock>> /\ kills' = kills /\ cmds' = cmds
  BY DEF Trap
<1>2. /\ r \in RunRecords /\ (r.had => r.prev # NoPath) /\ dir \in Dirs /\ journal \in Journals
      /\ manifest \in Receipts /\ profile \in BOOLEAN
  BY InsideFacts
<1>3. dir' \in Dirs /\ \A x \in Rollbacks : Present(dir', x) => Present(dir, x)
  BY <1>1, <1>2, TrapShelf
<1>4. /\ manifest' \in Receipts /\ profile' \in BOOLEAN /\ journal' \in Journals
      /\ (journal'.had => journal'.prev # NoPath)
      /\ journal'.prev \in {NoPath, journal.prev}
  BY <1>1, <1>2, ConstantRecords, InsideFacts DEF RunRecords
<1>5. /\ \A x \in Rollbacks : Present(dir', x) => x \in Named
      /\ {manifest'.prev, journal'.prev} \subseteq Named \cup {NoPath}
  BY <1>1, <1>3, <1>4, InsideFacts
<1>6. ASSUME Undisturbed', HolderOK(p, run[p], dir, manifest, journal, mishaps = {})
      PROVE  RestOK(dir', manifest', journal', mishaps' = {})
  <2>1. r.recovering \in BOOLEAN
    BY <1>2 DEF RunRecords
  <2>2. /\ ~(r.pc = "clear" /\ journal.phase # "prepared" /\ journal.had /\ ~Present(dir, journal.prev))
        /\ mishaps' = {} => mishaps = {} /\ ~r.recovering
    BY <1>1, <1>6, <2>1, StoppedIs DEF Unrepeatable
  <2> HIDE DEF r
  <2>3. HolderOK(p, r, dir, manifest, journal, mishaps = {}) /\ r.pc \in Holding
    BY <1>6 DEF r
  <2>4. /\ (mishaps = {}) \in BOOLEAN /\ (mishaps' = {}) \in BOOLEAN
        /\ ((mishaps' = {}) => (mishaps = {}) /\ ~r.recovering)
    BY <2>2
  <2>5. /\ dir' = Aside(TrapRestores(r, dir), StageOf(p))
        /\ manifest' = IF r.txn THEN r.saved.manifest ELSE manifest
        /\ journal' = IF r.txn /\ journal.pid = p THEN NoJournal ELSE journal
    BY <1>1
  <2> DEFINE e == Aside(TrapRestores(r, dir), StageOf(p))
  <2>6. /\ r.txn => RestOK(e, r.saved.manifest, NoJournal, mishaps' = {}) /\ (journal = NoJournal \/ journal.pid = p)
        /\ ~r.txn => RestOK(e, manifest, journal, mishaps' = {})
    <3>1. PICK told \in BOOLEAN : told = (mishaps = {})
      BY <2>4
    <3>2. PICK still \in BOOLEAN : still = (mishaps' = {})
      BY <2>4
    <3>3. HolderOK(p, r, dir, manifest, journal, told) /\ (still => told /\ ~r.recovering)
      BY <2>3, <2>4, <3>1, <3>2
    <3>4. /\ r.txn => RestOK(e, r.saved.manifest, NoJournal, still) /\ (journal = NoJournal \/ journal.pid = p)
          /\ ~r.txn => RestOK(e, manifest, journal, still)
      BY <1>2, <2>2, <2>3, <3>3, TrapRest
    <3> QED
      BY <3>2, <3>4
  <2> QED
    BY <2>5, <2>6
<1>7. /\ lock' \in {lock, Released(p)} /\ mishaps' \in {mishaps, Stopped(p)} /\ kills' \in 0 .. MaxKills
  BY <1>1, InsideFacts
<1> QED
  BY <1>1, <1>3, <1>4, <1>5, <1>6, <1>7, HolderStop

LEMMA FailsStep ==
  ASSUME InstallInv, NEW p \in Runs, Fails(p)
  PROVE  InstallInv'
<1>1. run[p].pc \in Holding /\ faults < MaxFaults /\ faults' = faults + 1 /\ Trap(p)
  BY DEF Fails
<1>2. faults \in 0 .. MaxFaults /\ MaxFaults \in Nat
  BY InsideFacts, InstallationAssumption
<1> QED
  BY <1>1, <1>2, CountUp, TrapStep

LEMMA RefusesStep ==
  ASSUME InstallInv, NEW p \in Runs, Refuses(p)
  PROVE  InstallInv'
<1>1. run[p].pc \in Holding /\ faults' = faults /\ Trap(p)
  BY DEF Refuses, Holding
<1> QED
  BY <1>1, InsideFacts, TrapStep

-----------------------------------------------------------------------------
(* The Python commands *)

(* The command c moved to k, and no other command moved. *)
CmdBecomes(c, k) ==
  /\ cmd' \in [Cmds -> CmdRecords] /\ k \in CmdRecords /\ cmd'[c] = k
  /\ \A q \in Cmds : q # c => cmd'[q] = cmd[q]

Mishaps == {"lock stolen", "overlap", "uninstalled", "rollback killed",
            "recovery interrupted", "recovery unrecorded"}

LEMMA CmdFacts ==
  ASSUME InstallInv, NEW c \in Cmds
  PROVE  /\ InstallTypeOK /\ cmd \in [Cmds -> CmdRecords] /\ cmd[c] \in CmdRecords
         /\ cmd[c].rec \in Receipts /\ cmd[c].rec.prev \in Named \cup {NoPath}
         /\ cmd[c].pc \in Swapping => cmd[c].rec.prev \in Rollbacks
         /\ dir \in Dirs /\ manifest \in Receipts /\ journal \in Journals /\ profile \in BOOLEAN
         /\ flock \in Cmds \cup {NoOne} /\ NoOne \notin Cmds /\ LockOK
         /\ kills \in 0 .. MaxKills /\ faults \in 0 .. MaxFaults /\ cmds \in 0 .. MaxCmds
         /\ MaxKills \in Nat /\ MaxFaults \in Nat /\ MaxCmds \in Nat
         /\ mishaps \subseteq Mishaps /\ lock \in {"free", "bare"} \cup Runs
         /\ manifest.prev \in Named \cup {NoPath}
         /\ \A x \in Rollbacks : Present(dir, x) => x \in Named
         /\ Named \subseteq Rollbacks
<1>1. InstallTypeOK /\ HadOK /\ LockOK
  BY DEF InstallInv
<1>2. /\ cmd[c].rec.prev \in Named \cup {NoPath} /\ manifest.prev \in Named \cup {NoPath}
      /\ \A x \in Rollbacks : Present(dir, x) => x \in Named
      /\ Named \subseteq Rollbacks
  BY <1>1, NamesAre
<1>3. cmd[c] \in CmdRecords /\ cmd[c].rec \in Receipts
  BY <1>1 DEF InstallTypeOK, CmdRecords
<1>4. cmd[c].pc \in Swapping => cmd[c].rec.prev \in Rollbacks
  BY <1>1, <1>2 DEF HadOK
<1>5. NoOne \notin Cmds
  BY InstallationAssumption
<1> QED
  BY <1>1, <1>2, <1>3, <1>4, <1>5, InstallationAssumption DEF InstallTypeOK, Dirs, Mishaps

(* A step of the command c: what it may touch, and what it has to leave in order. *)
LEMMA CmdStep ==
  ASSUME InstallInv, NEW c \in Cmds, NEW k, CmdBecomes(c, k), UNCHANGED <<run, journal, profile>>,
         dir' \in Dirs, manifest' \in Receipts, flock' \in Cmds \cup {NoOne}, lock' \in {"free", "bare"} \cup Runs,
         kills' \in 0 .. MaxKills, faults' \in 0 .. MaxFaults, cmds' \in 0 .. MaxCmds,
         mishaps \subseteq mishaps', mishaps' \subseteq Mishaps, LockOK',
         k.pc \in Swapping => k.rec.prev # NoPath, k.rec.prev \in Named \cup {NoPath},
         manifest'.prev \in Named \cup {NoPath}, \A x \in Rollbacks : Present(dir', x) => x \in Named,
         Undisturbed' /\ HolderInv /\ RestInv => HolderInv' /\ RestInv'
  PROVE  InstallInv'
<1>1. InstallTypeOK /\ HadOK /\ LockOK /\ BlankOK /\ FreshOK
  BY DEF InstallInv
<1>2. InstallTypeOK'
  BY <1>1 DEF InstallTypeOK, CmdBecomes, Dirs, Mishaps
<1>3. HadOK'
  BY <1>1 DEF HadOK, CmdBecomes
<1>4. BlankOK'
  BY <1>1 DEF BlankOK
<1>5. FreshOK'
  <2>1. \A q \in Cmds : cmd'[q].rec.prev \in Named \cup {NoPath}
    BY <1>1, NamesAre DEF CmdBecomes
  <2>2. \A q \in Runs : {run'[q].prev, run'[q].saved.manifest.prev} \subseteq Named \cup {NoPath}
    BY <1>1, NamesAre
  <2>3. journal'.prev \in Named \cup {NoPath}
    BY <1>1, NamesAre
  <2>4. NoPath \notin Rollbacks
    BY PathFacts
  <2>5. Named' \subseteq Named
    BY <2>1, <2>2, <2>3, <2>4 DEF Named
  <2> QED
    BY <1>1, <2>5 DEF FreshOK
<1>6. ASSUME Undisturbed' PROVE HolderInv' /\ RestInv'
  BY <1>6, CalmBefore DEF InstallInv
<1> QED
  BY <1>2, <1>3, <1>4, <1>5, <1>6 DEF InstallInv

(* While a command is under way no installer holds the lock and no journal is open. *)
LEMMA CmdAlone ==
  ASSUME HolderInv, RestInv, NEW c \in Cmds, cmd[c].pc # "idle"
  PROVE  /\ NoHolder /\ journal = NoJournal
         /\ \A q \in Cmds : CmdOK(q, cmd[q], dir, manifest, flock, mishaps = {})
         /\ (\A q \in Cmds : cmd[q].pc \notin MidSwap) => RestOK(dir, manifest, NoJournal, mishaps = {})
<1>1. NoHolder
  BY DEF HolderInv, NoHolder
<1> QED
  BY <1>1 DEF RestInv

LEMMA CmdCalm ==
  ASSUME NEW c \in Cmds, NEW k, CmdBecomes(c, k), run' = run, journal' = journal, mishaps' = mishaps,
         NoHolder, journal = NoJournal,
         \A q \in Cmds : q # c => CmdOK(q, cmd[q], dir', manifest', flock', mishaps = {}),
         CmdOK(c, k, dir', manifest', flock', mishaps = {}),
         k.pc \notin MidSwap /\ (\A q \in Cmds : q # c => cmd[q].pc \notin MidSwap) =>
           RestOK(dir', manifest', NoJournal, mishaps = {})
  PROVE  HolderInv' /\ RestInv'
<1>1. \A p \in Runs : run'[p].pc \notin Holding
  BY DEF NoHolder
<1>2. HolderInv'
  BY <1>1 DEF HolderInv
<1>3. \A q \in Cmds : CmdOK(q, cmd'[q], dir', manifest', flock', mishaps' = {})
  <2>1. SUFFICES ASSUME NEW q \in Cmds PROVE CmdOK(q, cmd'[q], dir', manifest', flock', mishaps = {})
    OBVIOUS
  <2>2. CASE q = c
    BY <2>2 DEF CmdBecomes
  <2>3. CASE q # c
    BY <2>3 DEF CmdBecomes
  <2> QED
    BY <2>2, <2>3
<1>4. (\A q \in Cmds : cmd'[q].pc \notin MidSwap) => RestOK(dir', manifest', journal', mishaps' = {})
  BY DEF CmdBecomes
<1> QED
  BY <1>2, <1>3, <1>4 DEF RestInv

(* The commands that do not hold the file lock only remember the receipt. *)
LEMMA Others ==
  ASSUME NEW c \in Cmds, NEW q \in Cmds, q # c, NEW d, NEW m, NEW e, NEW n, NEW g, NEW told,
         NEW k \in CmdRecords, CmdOK(q, k, d, m, c, told), n.there = m.there, n.prev = m.prev
  PROVE  k.pc \notin MidSwap /\ CmdOK(q, k, e, n, g, told)
BY DEF CmdOK, MidSwap, Swapping, CmdRecords

LEMMA OthersKept ==
  ASSUME NEW q \in Cmds, NEW d, NEW m, NEW f, NEW g, NEW told, NEW k \in CmdRecords,
         CmdOK(q, k, d, m, f, told), f = q => g = q
  PROVE  CmdOK(q, k, d, m, g, told)
BY DEF CmdOK

LEMMA IdleOK ==
  \A c, d, m, f, told : CmdOK(c, CmdIdle, d, m, f, told)
BY CmdIdleIs DEF CmdOK

LEMMA LeaveIs ==
  ASSUME InstallInv, NEW c \in Cmds, Leave(c)
  PROVE  /\ CmdBecomes(c, CmdIdle) /\ CmdIdle.pc \notin Swapping /\ CmdIdle.pc \notin MidSwap
         /\ CmdIdle.rec.prev = NoPath
         /\ flock' \in Cmds \cup {NoOne} /\ \A q \in Cmds : q # c /\ flock = q => flock' = q
<1>1. cmd \in [Cmds -> CmdRecords] /\ flock \in Cmds \cup {NoOne}
  BY CmdFacts
<1>2. CmdBecomes(c, CmdIdle)
  BY <1>1, CmdIdleIs, CmdUpdate DEF CmdBecomes, Leave
<1>3. CmdIdle.pc \notin Swapping /\ CmdIdle.pc \notin MidSwap /\ CmdIdle.rec.prev = NoPath
  BY CmdIdleIs, ConstantRecords DEF Swapping, MidSwap
<1> QED
  BY <1>1, <1>2, <1>3 DEF Leave

LEMMA CmdGotoIs ==
  ASSUME InstallInv, NEW c \in Cmds, NEW pc \in {"out", "in", "keep", "commit"}, CmdGoto(c, pc)
  PROVE  LET k == [cmd[c] EXCEPT !.pc = pc] IN
         CmdBecomes(c, k) /\ k.pc = pc /\ k.rec = cmd[c].rec /\ k.swap = cmd[c].swap
<1> DEFINE k == [cmd[c] EXCEPT !.pc = pc]
<1>1. cmd[c] \in CmdRecords /\ cmd \in [Cmds -> CmdRecords]
  BY CmdFacts
<1>2. k \in CmdRecords /\ k.pc = pc /\ k.rec = cmd[c].rec /\ k.swap = cmd[c].swap
  BY <1>1 DEF CmdRecords
<1>3. cmd' = [cmd EXCEPT ![c] = k]
  BY DEF CmdGoto
<1> HIDE DEF k
<1>4. CmdBecomes(c, k)
  BY <1>1, <1>2, <1>3, CmdUpdate DEF CmdBecomes
<1> QED
  BY <1>2, <1>4 DEF k

(* Nothing but the command itself, the file lock and its counters changed. *)
LEMMA CmdSame ==
  ASSUME InstallInv, NEW c \in Cmds, UNCHANGED <<dir, manifest, run, journal, profile>>,
         lock' = lock, mishaps \subseteq mishaps'
  PROVE  /\ dir' \in Dirs /\ manifest' \in Receipts /\ lock' \in {"free", "bare"} \cup Runs /\ LockOK'
         /\ manifest'.prev \in Named \cup {NoPath} /\ \A x \in Rollbacks : Present(dir', x) => x \in Named
<1>1. LockOK'
  BY CmdFacts DEF LockOK
<1> QED
  BY <1>1, CmdFacts

(* A command starts: it changes nothing, and undisturbed it is alone with the files at rest. *)
LEMMA EnterStep ==
  ASSUME InstallInv, NEW c \in Cmds, NEW pc \in {"locking", "mark", "remove"}, NEW rec \in Receipts,
         Enter(c, pc, rec), rec.prev \in Named \cup {NoPath}, pc = "locking" => rec.prev # NoPath,
         UNCHANGED <<dir, manifest, CmdVars>>, manifest.there,
         pc = "locking" => rec = manifest, pc = "mark" => rec = manifest,
         IF pc = "mark" THEN flock = NoOne /\ flock' = c ELSE flock' = flock
  PROVE  InstallInv'
<1> DEFINE k == [CmdIdle EXCEPT !.pc = pc, !.rec = rec, !.locked = (lock # "free")]
<1>1. /\ cmds < MaxCmds /\ cmds' = cmds + 1 /\ cmd[c].pc = "idle" /\ cmd' = [cmd EXCEPT ![c] = k]
      /\ mishaps' = mishaps \cup {m \in {"overlap"} :
                  journal # NoJournal \/ \E p \in Runs : run[p].pc \in Holding}
  BY DEF Enter
<1>2. UNCHANGED <<dir, manifest, run, journal, profile>> /\ lock' = lock /\ kills' = kills /\ faults' = faults
  BY DEF CmdVars
<1>3. k \in CmdRecords /\ k.pc = pc /\ k.rec = rec
  BY CmdIdleIs DEF CmdRecords
<1> HIDE DEF k
<1>4. CmdBecomes(c, k)
  BY <1>1, <1>3, CmdFacts, CmdUpdate DEF CmdBecomes
<1>5. mishaps \subseteq mishaps' /\ mishaps' \subseteq Mishaps
  BY <1>1, CmdFacts DEF Mishaps
<1>6. /\ kills' \in 0 .. MaxKills /\ faults' \in 0 .. MaxFaults /\ cmds' \in 0 .. MaxCmds
      /\ flock' \in Cmds \cup {NoOne}
  <2>1. cmds \in 0 .. MaxCmds /\ MaxCmds \in Nat
    BY CmdFacts
  <2> QED
    BY <1>1, <1>2, <2>1, CmdFacts, CountUp
<1>7. /\ dir' \in Dirs /\ manifest' \in Receipts /\ lock' \in {"free", "bare"} \cup Runs /\ LockOK'
      /\ manifest'.prev \in Named \cup {NoPath} /\ \A x \in Rollbacks : Present(dir', x) => x \in Named
  BY <1>2, <1>5, CmdSame
<1>8. k.pc \in Swapping => k.rec.prev # NoPath
  BY <1>3 DEF Swapping, MidSwap
<1>9. ASSUME Undisturbed', HolderInv, RestInv PROVE HolderInv' /\ RestInv'
  <2>1. ~(journal # NoJournal \/ \E p \in Runs : run[p].pc \in Holding)
    <3>1. "overlap" \notin mishaps'
      BY <1>9 DEF Undisturbed
    <3> QED
      BY <1>1, <3>1
  <2>2. mishaps' = mishaps /\ journal = NoJournal /\ NoHolder
    BY <1>1, <2>1 DEF NoHolder
  <2>3. \A q \in Cmds : q # c => CmdOK(q, cmd[q], dir', manifest', flock', mishaps = {})
    <3>1. SUFFICES ASSUME NEW q \in Cmds, q # c PROVE CmdOK(q, cmd[q], dir, manifest, flock', mishaps = {})
      BY <1>2
    <3>2. CmdOK(q, cmd[q], dir, manifest, flock, mishaps = {})
      BY <1>9, <2>2 DEF RestInv
    <3>3. flock = q => flock' = q
      BY CmdFacts
    <3>4. cmd[q] \in CmdRecords
      BY CmdFacts
    <3> QED
      BY <3>2, <3>3, <3>4, OthersKept
  <2>4. CmdOK(c, k, dir', manifest', flock', mishaps = {})
    BY <1>2, <1>3 DEF CmdOK, MidSwap, Swapping
  <2>5. ASSUME \A q \in Cmds : q # c => cmd[q].pc \notin MidSwap
        PROVE  RestOK(dir', manifest', NoJournal, mishaps = {})
    <3>1. \A q \in Cmds : cmd[q].pc \notin MidSwap
      BY <1>1, <2>5 DEF MidSwap
    <3> QED
      BY <1>2, <1>9, <2>2, <3>1 DEF RestInv
  <2>6. run' = run /\ journal' = journal
    BY <1>2
  <2> QED
    BY <1>4, <2>2, <2>3, <2>4, <2>5, <2>6, CmdCalm
<1> QED
  BY <1>2, <1>3, <1>4, <1>5, <1>6, <1>7, <1>8, <1>9, CmdStep

LEMMA RollbackLoadStep ==
  ASSUME InstallInv, NEW c \in Cmds, RollbackLoad(c)
  PROVE  InstallInv'
<1>1. /\ Enter(c, "locking", manifest) /\ UNCHANGED <<dir, manifest, CmdVars>> /\ flock' = flock
      /\ manifest.there /\ manifest.prev # NoPath
  BY DEF RollbackLoad
<1> QED
  BY <1>1, CmdFacts, EnterStep

LEMMA SetupLoadStep ==
  ASSUME InstallInv, NEW c \in Cmds, SetupLoad(c)
  PROVE  InstallInv'
<1>1. /\ Enter(c, "mark", manifest) /\ UNCHANGED <<dir, manifest, CmdVars>> /\ flock = NoOne /\ flock' = c
      /\ manifest.there
  BY DEF SetupLoad
<1> QED
  BY <1>1, CmdFacts, EnterStep

LEMMA UninstallPlanStep ==
  ASSUME InstallInv, NEW c \in Cmds, UninstallPlan(c)
  PROVE  InstallInv'
<1> DEFINE prev == IF manifest.prev # NoPath /\ Present(dir, manifest.prev) THEN manifest.prev ELSE NoPath
           rec == [manifest EXCEPT !.prev = prev]
<1>1. /\ Enter(c, "remove", rec) /\ UNCHANGED <<dir, manifest, CmdVars>> /\ flock' = flock /\ manifest.there
  BY DEF UninstallPlan
<1>2. prev \in Named \cup {NoPath} /\ prev \in Rollbacks \cup {NoPath} /\ manifest \in Receipts
  BY CmdFacts
<1> HIDE DEF prev
<1>3. rec \in Receipts /\ rec.prev = prev
  BY <1>2 DEF Receipts
<1> HIDE DEF rec
<1> QED
  BY <1>1, <1>2, <1>3, EnterStep

(* The command ends, or is killed, with the executables as it found them. *)
LEMMA LeaveStep ==
  ASSUME InstallInv, NEW c \in Cmds, Leave(c), UNCHANGED <<dir, manifest, run, journal, profile>>, lock' = lock,
         kills' \in 0 .. MaxKills, faults' \in 0 .. MaxFaults, cmds' \in 0 .. MaxCmds,
         mishaps \subseteq mishaps', mishaps' \subseteq Mishaps, cmd[c].pc # "idle",
         Undisturbed' => cmd[c].pc \notin MidSwap /\ mishaps' = mishaps
  PROVE  InstallInv'
<1>1. /\ CmdBecomes(c, CmdIdle) /\ CmdIdle.pc \notin Swapping /\ CmdIdle.pc \notin MidSwap
      /\ CmdIdle.rec.prev = NoPath
      /\ flock' \in Cmds \cup {NoOne} /\ \A q \in Cmds : q # c /\ flock = q => flock' = q
  BY LeaveIs
<1>2. /\ dir' \in Dirs /\ manifest' \in Receipts /\ lock' \in {"free", "bare"} \cup Runs /\ LockOK'
      /\ manifest'.prev \in Named \cup {NoPath} /\ \A x \in Rollbacks : Present(dir', x) => x \in Named
  BY CmdSame
<1>3. ASSUME Undisturbed', HolderInv, RestInv PROVE HolderInv' /\ RestInv'
  <2>1. /\ NoHolder /\ journal = NoJournal
        /\ \A q \in Cmds : CmdOK(q, cmd[q], dir, manifest, flock, mishaps = {})
        /\ (\A q \in Cmds : cmd[q].pc \notin MidSwap) => RestOK(dir, manifest, NoJournal, mishaps = {})
    BY <1>3, CmdAlone
  <2>2. cmd[c].pc \notin MidSwap /\ mishaps' = mishaps
    BY <1>3
  <2>3. \A q \in Cmds : q # c => CmdOK(q, cmd[q], dir', manifest', flock', mishaps = {})
    <3>1. SUFFICES ASSUME NEW q \in Cmds, q # c PROVE CmdOK(q, cmd[q], dir, manifest, flock', mishaps = {})
      OBVIOUS
    <3>2. CmdOK(q, cmd[q], dir, manifest, flock, mishaps = {}) /\ (flock = q => flock' = q)
      BY <1>1, <2>1, <3>1
    <3>4. cmd[q] \in CmdRecords
      BY CmdFacts
    <3> QED
      BY <3>2, <3>4, OthersKept
  <2>4. CmdOK(c, CmdIdle, dir', manifest', flock', mishaps = {})
    BY IdleOK
  <2>5. (\A q \in Cmds : q # c => cmd[q].pc \notin MidSwap) => RestOK(dir', manifest', NoJournal, mishaps = {})
    BY <2>1, <2>2
  <2> QED
    BY <1>1, <2>1, <2>2, <2>3, <2>4, <2>5, CmdCalm
<1>4. UNCHANGED <<run, journal, profile>>
  OBVIOUS
<1> QED
  BY <1>1, <1>2, <1>3, <1>4, CmdStep

LEMMA CmdKilledStep ==
  ASSUME InstallInv, NEW c \in Cmds, CmdKilled(c)
  PROVE  InstallInv'
<1>1. /\ cmd[c].pc # "idle" /\ kills < MaxKills /\ kills' = kills + 1 /\ Leave(c)
      /\ mishaps' = IF cmd[c].pc \in MidSwap THEN mishaps \cup {"rollback killed"} ELSE mishaps
      /\ UNCHANGED <<dir, manifest, run, journal, profile>> /\ lock' = lock /\ faults' = faults /\ cmds' = cmds
  BY DEF CmdKilled, MidSwap
<1>2. kills \in 0 .. MaxKills /\ MaxKills \in Nat /\ mishaps \subseteq Mishaps
  BY CmdFacts
<1>3. kills' \in 0 .. MaxKills /\ faults' \in 0 .. MaxFaults /\ cmds' \in 0 .. MaxCmds
  BY <1>1, <1>2, CmdFacts, CountUp
<1>4. mishaps \subseteq mishaps' /\ mishaps' \subseteq Mishaps
  BY <1>1, <1>2 DEF Mishaps
<1>5. Undisturbed' => cmd[c].pc \notin MidSwap /\ mishaps' = mishaps
  BY <1>1 DEF Undisturbed
<1> QED
  BY <1>1, <1>3, <1>4, <1>5, LeaveStep

(* A step of the command that holds the file lock: the others only remember the receipt. *)
LEMMA WriterStep ==
  ASSUME InstallInv, NEW c \in Cmds, NEW k, CmdBecomes(c, k), UNCHANGED <<run, journal, profile, lock>>,
         dir' \in Dirs, manifest' \in Receipts, flock' \in Cmds \cup {NoOne}, faults' \in 0 .. MaxFaults,
         UNCHANGED <<kills, cmds, mishaps>>, cmd[c].pc \in {"out", "in", "keep", "commit", "mark"},
         k.pc \in Swapping => k.rec.prev # NoPath, k.rec.prev \in Named \cup {NoPath},
         manifest'.prev \in Named \cup {NoPath}, \A x \in Rollbacks : Present(dir', x) => x \in Named,
         /\ CmdOK(c, cmd[c], dir, manifest, flock, mishaps = {})
         /\ cmd[c].pc \notin MidSwap => RestOK(dir, manifest, NoJournal, mishaps = {})
         => /\ manifest'.there = manifest.there /\ manifest'.prev = manifest.prev
            /\ CmdOK(c, k, dir', manifest', flock', mishaps = {})
            /\ k.pc \notin MidSwap => RestOK(dir', manifest', NoJournal, mishaps = {})
  PROVE  InstallInv'
<1>1. LockOK' /\ lock' \in {"free", "bare"} \cup Runs
  BY CmdFacts DEF LockOK
<1>2. ASSUME Undisturbed', HolderInv, RestInv PROVE HolderInv' /\ RestInv'
  <2>1. /\ NoHolder /\ journal = NoJournal
        /\ \A q \in Cmds : CmdOK(q, cmd[q], dir, manifest, flock, mishaps = {})
        /\ (\A q \in Cmds : cmd[q].pc \notin MidSwap) => RestOK(dir, manifest, NoJournal, mishaps = {})
    BY <1>2, CmdAlone
  <2>2. flock = c
    <3>1. CmdOK(c, cmd[c], dir, manifest, flock, mishaps = {})
      BY <2>1
    <3> QED
      BY <3>1 DEF CmdOK, MidSwap
  <2>3. \A q \in Cmds : q # c => cmd[q].pc \notin MidSwap
    <3>1. SUFFICES ASSUME NEW q \in Cmds, q # c PROVE cmd[q].pc \notin MidSwap
      OBVIOUS
    <3>2. CmdOK(q, cmd[q], dir, manifest, c, mishaps = {}) /\ cmd[q] \in CmdRecords
      BY <2>1, <2>2, CmdFacts
    <3> QED
      BY <3>1, <3>2 DEF CmdOK, MidSwap
  <2>4. CmdOK(c, cmd[c], dir, manifest, flock, mishaps = {})
        /\ (cmd[c].pc \notin MidSwap => RestOK(dir, manifest, NoJournal, mishaps = {}))
    BY <2>1, <2>3
  <2>5. \A q \in Cmds : q # c => CmdOK(q, cmd[q], dir', manifest', flock', mishaps = {})
    <3>1. SUFFICES ASSUME NEW q \in Cmds, q # c PROVE CmdOK(q, cmd[q], dir', manifest', flock', mishaps = {})
      OBVIOUS
    <3>2. CmdOK(q, cmd[q], dir, manifest, c, mishaps = {}) /\ cmd[q] \in CmdRecords
      BY <2>1, <2>2, CmdFacts
    <3>3. manifest'.there = manifest.there /\ manifest'.prev = manifest.prev
      BY <2>4
    <3> QED
      BY <3>1, <3>2, <3>3, Others
  <2>6. /\ CmdOK(c, k, dir', manifest', flock', mishaps = {})
        /\ k.pc \notin MidSwap => RestOK(dir', manifest', NoJournal, mishaps = {})
    BY <2>4
  <2> QED
    BY <2>1, <2>5, <2>6, CmdCalm
<1>3. /\ kills' \in 0 .. MaxKills /\ cmds' \in 0 .. MaxCmds /\ mishaps \subseteq mishaps' /\ mishaps' \subseteq Mishaps
  BY CmdFacts
<1> QED
  BY <1>1, <1>2, <1>3, CmdStep

LEMMA RollbackLockStep ==
  ASSUME InstallInv, NEW c \in Cmds, RollbackLock(c)
  PROVE  InstallInv'
<1> DEFINE swap == <<dir[Bin], dir[cmd[c].rec.prev]>>
           k == [cmd[c] EXCEPT !.pc = "out", !.swap = swap]
<1>1. /\ cmd[c].pc = "locking" /\ flock = NoOne /\ flock' = c /\ cmd' = [cmd EXCEPT ![c] = k]
      /\ UNCHANGED <<dir, manifest, run, journal, profile>> /\ lock' = lock /\ mishaps' = mishaps
      /\ cmds' = cmds /\ kills' = kills /\ faults' = faults
  BY DEF RollbackLock, CmdVars
<1>2. /\ cmd[c] \in CmdRecords /\ cmd[c].rec.prev \in Rollbacks /\ dir \in Dirs
      /\ cmd[c].rec.prev \in Paths /\ Bin \in Paths /\ cmd \in [Cmds -> CmdRecords]
      /\ cmd[c].rec.prev # NoPath
  <2>1. cmd[c].pc \in Swapping
    BY <1>1 DEF Swapping
  <2> QED
    BY <2>1, CmdFacts, PathFacts
<1>3. k \in CmdRecords /\ k.pc = "out" /\ k.rec = cmd[c].rec /\ k.swap = <<dir[Bin], dir[cmd[c].rec.prev]>>
  BY <1>2 DEF CmdRecords, Dirs
<1> HIDE DEF k
<1>4. CmdBecomes(c, k)
  BY <1>1, <1>2, <1>3, CmdUpdate DEF CmdBecomes
<1>5. /\ dir' \in Dirs /\ manifest' \in Receipts /\ lock' \in {"free", "bare"} \cup Runs /\ LockOK'
      /\ manifest'.prev \in Named \cup {NoPath} /\ \A x \in Rollbacks : Present(dir', x) => x \in Named
  BY <1>1, CmdSame
<1>6. ASSUME HolderInv, RestInv PROVE HolderInv' /\ RestInv'
  <2>1. /\ NoHolder /\ journal = NoJournal
        /\ \A q \in Cmds : CmdOK(q, cmd[q], dir, manifest, flock, mishaps = {})
        /\ (\A q \in Cmds : cmd[q].pc \notin MidSwap) => RestOK(dir, manifest, NoJournal, mishaps = {})
    BY <1>1, <1>6, CmdAlone
  <2>2. \A q \in Cmds : q # c => CmdOK(q, cmd[q], dir', manifest', flock', mishaps = {})
    <3>1. SUFFICES ASSUME NEW q \in Cmds, q # c PROVE CmdOK(q, cmd[q], dir, manifest, flock', mishaps = {})
      BY <1>1
    <3>2. CmdOK(q, cmd[q], dir, manifest, flock, mishaps = {}) /\ cmd[q] \in CmdRecords /\ flock # q
      BY <1>1, <2>1, CmdFacts
    <3> QED
      BY <3>2, OthersKept
  <2>3. CmdOK(c, k, dir', manifest', flock', mishaps = {})
    <3>1. CmdOK(c, cmd[c], dir, manifest, flock, mishaps = {})
      BY <2>1
    <3>2. manifest.there /\ cmd[c].rec.there /\ cmd[c].rec.prev = manifest.prev
      BY <1>1, <3>1 DEF CmdOK, Swapping
    <3> QED
      BY <1>1, <1>3, <3>2 DEF CmdOK, MidSwap
  <2>4. (\A q \in Cmds : q # c => cmd[q].pc \notin MidSwap) => RestOK(dir', manifest', NoJournal, mishaps = {})
    BY <1>1, <2>1 DEF MidSwap
  <2>5. run' = run /\ journal' = journal /\ mishaps' = mishaps
    BY <1>1
  <2> QED
    BY <1>4, <2>1, <2>2, <2>3, <2>4, <2>5, CmdCalm
<1>7. /\ kills' \in 0 .. MaxKills /\ faults' \in 0 .. MaxFaults /\ cmds' \in 0 .. MaxCmds
      /\ mishaps \subseteq mishaps' /\ mishaps' \subseteq Mishaps /\ flock' \in Cmds \cup {NoOne}
      /\ k.rec.prev # NoPath /\ k.rec.prev \in Named \cup {NoPath}
      /\ UNCHANGED <<run, journal, profile>>
  BY <1>1, <1>2, <1>3, CmdFacts
<1> QED
  BY <1>4, <1>5, <1>6, <1>7, CmdStep

(* The names a rollback moves executables between are different. *)
LEMMA SwapNames ==
  ASSUME InstallInv, NEW c \in Cmds, cmd[c].pc \in Swapping
  PROVE  /\ cmd[c].rec.prev \in Rollbacks /\ cmd[c].rec.prev \in Paths /\ cmd[c].rec.prev # Bin
         /\ cmd[c].rec.prev # NoPath /\ cmd[c].rec.prev \in Named
         /\ Bin \in Paths /\ ExchangeOf(c) \in Paths /\ ExchangeOf(c) # Bin /\ ExchangeOf(c) # cmd[c].rec.prev
         /\ Rollbacks \subseteq Paths /\ ExchangeOf(c) \notin Rollbacks /\ Bin \notin Rollbacks
         /\ dir \in Dirs
<1>1. cmd[c].rec.prev \in Rollbacks /\ cmd[c].rec.prev \in Named \cup {NoPath} /\ dir \in Dirs
  BY CmdFacts
<1> QED
  BY <1>1, PathFacts

LEMMA RollbackOutStep ==
  ASSUME InstallInv, NEW c \in Cmds, RollbackOut(c)
  PROVE  InstallInv'
<1>1. /\ cmd[c].pc = "out" /\ cmd[c].pc \in Swapping /\ manifest' = manifest
      /\ UNCHANGED <<run, journal, profile, lock>> /\ UNCHANGED <<kills, cmds, mishaps>> /\ faults' = faults
  BY DEF RollbackOut, CmdVars, Swapping
<1>2. CASE Present(dir, Bin)
  <2> DEFINE k == [cmd[c] EXCEPT !.pc = "in"]
  <2>1. dir' = Moved(dir, Bin, ExchangeOf(c)) /\ CmdGoto(c, "in") /\ flock' = flock
    BY <1>2 DEF RollbackOut
  <2>2. CmdBecomes(c, k) /\ k.pc = "in" /\ k.rec = cmd[c].rec /\ k.swap = cmd[c].swap
    BY <2>1, CmdGotoIs
  <2> HIDE DEF k
  <2>3. /\ dir' \in Dirs /\ dir'[Bin] = 0 /\ dir'[ExchangeOf(c)] = dir[Bin]
        /\ \A x \in Rollbacks : dir'[x] = dir[x]
    BY <1>1, <2>1, SwapNames, MovedIs
  <2>4. /\ manifest' \in Receipts /\ flock' \in Cmds \cup {NoOne} /\ faults' \in 0 .. MaxFaults
        /\ k.rec.prev # NoPath /\ k.rec.prev \in Named \cup {NoPath}
        /\ manifest'.prev \in Named \cup {NoPath} /\ \A x \in Rollbacks : Present(dir', x) => x \in Named
    BY <1>1, <2>1, <2>2, <2>3, CmdFacts, SwapNames DEF Present
  <2>5. ASSUME CmdOK(c, cmd[c], dir, manifest, flock, mishaps = {}),
               cmd[c].pc \notin MidSwap => RestOK(dir, manifest, NoJournal, mishaps = {})
        PROVE  CmdOK(c, k, dir', manifest', flock', mishaps = {})
    <3>1. /\ manifest.there /\ flock = c /\ cmd[c].rec.there /\ cmd[c].rec.prev = manifest.prev
          /\ cmd[c].swap = <<dir[Bin], dir[manifest.prev]>>
      BY <1>1, <2>5 DEF CmdOK, Swapping
    <3>2. (mishaps = {}) => Truthful(manifest, dir[Bin], dir)
      BY <1>1, <2>5 DEF RestOK, MidSwap
    <3>3. dir[Bin] # 0 /\ ((mishaps = {}) => manifest.ver = dir[Bin] /\ dir[manifest.prev] # 0)
      BY <1>1, <1>2, <3>1, <3>2, SwapNames DEF Truthful, Present
    <3>4. dir'[manifest.prev] = dir[manifest.prev]
      BY <1>1, <2>3, <3>1, SwapNames
    <3> QED
      BY <1>1, <2>1, <2>2, <2>3, <3>1, <3>3, <3>4 DEF CmdOK, MidSwap, Swapping, Present
  <2>6. k.pc \in MidSwap
    BY <2>2 DEF MidSwap
  <2> QED
    BY <1>1, <2>2, <2>3, <2>4, <2>5, <2>6, WriterStep
<1>3. CASE ~Present(dir, Bin)
  <2>1. Leave(c) /\ dir' = dir
    BY <1>3 DEF RollbackOut
  <2>2. /\ kills' \in 0 .. MaxKills /\ faults' \in 0 .. MaxFaults /\ cmds' \in 0 .. MaxCmds
        /\ mishaps \subseteq mishaps' /\ mishaps' \subseteq Mishaps /\ mishaps' = mishaps
        /\ UNCHANGED <<dir, manifest, run, journal, profile>> /\ lock' = lock
    BY <1>1, <2>1, CmdFacts
  <2>3. cmd[c].pc # "idle" /\ cmd[c].pc \notin MidSwap
    BY <1>1 DEF MidSwap
  <2> QED
    BY <2>1, <2>2, <2>3, LeaveStep
<1> QED
  BY <1>2, <1>3

LEMMA RollbackInStep ==
  ASSUME InstallInv, NEW c \in Cmds, RollbackIn(c)
  PROVE  InstallInv'
<1>1. /\ cmd[c].pc = "in" /\ cmd[c].pc \in Swapping /\ manifest' = manifest
      /\ UNCHANGED <<run, journal, profile, lock>> /\ UNCHANGED <<kills, cmds, mishaps>> /\ faults' = faults
  BY DEF RollbackIn, CmdVars, Swapping, MidSwap
<1> DEFINE prev == cmd[c].rec.prev
<1>a. ASSUME CmdOK(c, cmd[c], dir, manifest, flock, mishaps = {})
      PROVE  /\ manifest.there /\ flock = c /\ cmd[c].rec.there /\ prev = manifest.prev
             /\ cmd[c].swap = <<dir[ExchangeOf(c)], dir[prev]>> /\ ~Present(dir, Bin)
             /\ cmd[c].swap[1] # 0 /\ ((mishaps = {}) => manifest.ver = cmd[c].swap[1] /\ cmd[c].swap[2] # 0)
  BY <1>1, <1>a DEF CmdOK, Swapping, MidSwap
<1>2. CASE Present(dir, prev)
  <2> DEFINE k == [cmd[c] EXCEPT !.pc = "keep"]
  <2>1. dir' = Moved(dir, prev, Bin) /\ CmdGoto(c, "keep") /\ flock' = flock
    BY <1>2 DEF RollbackIn
  <2>2. CmdBecomes(c, k) /\ k.pc = "keep" /\ k.rec = cmd[c].rec /\ k.swap = cmd[c].swap
    BY <2>1, CmdGotoIs
  <2> HIDE DEF k
  <2>3. /\ dir' \in Dirs /\ dir'[Bin] = dir[prev] /\ dir'[prev] = 0 /\ dir'[ExchangeOf(c)] = dir[ExchangeOf(c)]
        /\ \A x \in Rollbacks : x # prev => dir'[x] = dir[x]
    <3>1. /\ prev \in Paths /\ prev # Bin /\ Bin \in Paths /\ ExchangeOf(c) \in Paths /\ ExchangeOf(c) # Bin
          /\ ExchangeOf(c) # prev /\ Rollbacks \subseteq Paths /\ ExchangeOf(c) \notin Rollbacks /\ Bin \notin Rollbacks
          /\ dir \in Dirs
      BY <1>1, SwapNames
    <3> HIDE DEF prev
    <3>2. LET e == Moved(dir, prev, Bin) IN
          e \in Dirs /\ e[Bin] = dir[prev] /\ e[prev] = 0 /\ \A x \in Paths : x # prev /\ x # Bin => e[x] = dir[x]
      BY <3>1, MovedIs
    <3> QED
      BY <2>1, <3>1, <3>2
  <2>4. /\ manifest' \in Receipts /\ flock' \in Cmds \cup {NoOne} /\ faults' \in 0 .. MaxFaults
        /\ k.rec.prev # NoPath /\ k.rec.prev \in Named \cup {NoPath}
        /\ manifest'.prev \in Named \cup {NoPath} /\ \A x \in Rollbacks : Present(dir', x) => x \in Named
    BY <1>1, <2>1, <2>2, <2>3, CmdFacts, SwapNames DEF Present
  <2>5. ASSUME CmdOK(c, cmd[c], dir, manifest, flock, mishaps = {})
        PROVE  CmdOK(c, k, dir', manifest', flock', mishaps = {})
    BY <1>1, <1>2, <1>a, <2>1, <2>2, <2>3, <2>5 DEF CmdOK, MidSwap, Swapping, Present
  <2>6. k.pc \in MidSwap
    BY <2>2 DEF MidSwap
  <2> QED
    BY <1>1, <2>2, <2>3, <2>4, <2>5, <2>6, WriterStep
<1>3. CASE ~Present(dir, prev)
  <2>1. Leave(c) /\ dir' = Moved(dir, ExchangeOf(c), Bin)
    BY <1>3 DEF RollbackIn
  <2>2. /\ CmdBecomes(c, CmdIdle) /\ CmdIdle.pc \notin Swapping /\ CmdIdle.pc \notin MidSwap
        /\ CmdIdle.rec.prev = NoPath /\ flock' \in Cmds \cup {NoOne}
    BY <2>1, LeaveIs
  <2>3. /\ dir' \in Dirs /\ dir'[Bin] = dir[ExchangeOf(c)]
        /\ \A x \in Rollbacks : dir'[x] = dir[x]
    BY <1>1, <2>1, SwapNames, MovedIs
  <2>4. /\ manifest' \in Receipts /\ faults' \in 0 .. MaxFaults
        /\ manifest'.prev \in Named \cup {NoPath} /\ \A x \in Rollbacks : Present(dir', x) => x \in Named
    BY <1>1, <2>3, CmdFacts DEF Present
  <2>5. ASSUME CmdOK(c, cmd[c], dir, manifest, flock, mishaps = {})
        PROVE  RestOK(dir', manifest', NoJournal, mishaps = {})
    <3>1. dir'[Bin] # 0 /\ mishaps # {}
      BY <1>3, <1>a, <2>3, <2>5 DEF Present
    <3> QED
      BY <3>1 DEF RestOK, AllOrNothing, Present
  <2>6. CmdOK(c, CmdIdle, dir', manifest', flock', mishaps = {})
    BY IdleOK
  <2> QED
    BY <1>1, <2>2, <2>3, <2>4, <2>5, <2>6, WriterStep
<1> QED
  BY <1>2, <1>3

LEMMA RollbackKeepStep ==
  ASSUME InstallInv, NEW c \in Cmds, RollbackKeep(c)
  PROVE  InstallInv'
<1> DEFINE prev == cmd[c].rec.prev
           k == [cmd[c] EXCEPT !.pc = "commit"]
<1>1. /\ cmd[c].pc = "keep" /\ cmd[c].pc \in Swapping /\ manifest' = manifest
      /\ UNCHANGED <<run, journal, profile, lock>> /\ UNCHANGED <<kills, cmds, mishaps>> /\ faults' = faults
      /\ dir' = Moved(dir, ExchangeOf(c), prev) /\ CmdGoto(c, "commit") /\ flock' = flock
  BY DEF RollbackKeep, CmdVars, Swapping, MidSwap
<1>2. CmdBecomes(c, k) /\ k.pc = "commit" /\ k.rec = cmd[c].rec /\ k.swap = cmd[c].swap
  BY <1>1, CmdGotoIs
<1> HIDE DEF k
<1>3. /\ dir' \in Dirs /\ dir'[Bin] = dir[Bin] /\ dir'[prev] = dir[ExchangeOf(c)]
      /\ \A x \in Rollbacks : x # prev => dir'[x] = dir[x]
  <2>1. /\ prev \in Paths /\ prev # Bin /\ Bin \in Paths /\ ExchangeOf(c) \in Paths /\ ExchangeOf(c) # Bin
        /\ ExchangeOf(c) # prev /\ Rollbacks \subseteq Paths /\ ExchangeOf(c) \notin Rollbacks /\ Bin \notin Rollbacks
        /\ dir \in Dirs
    BY <1>1, SwapNames
  <2> HIDE DEF prev
  <2>2. LET e == Moved(dir, ExchangeOf(c), prev) IN
        /\ e \in Dirs /\ e[prev] = dir[ExchangeOf(c)]
        /\ \A x \in Paths : x # ExchangeOf(c) /\ x # prev => e[x] = dir[x]
    BY <2>1, MovedIs
  <2> QED
    BY <1>1, <2>1, <2>2
<1>4. /\ manifest' \in Receipts /\ flock' \in Cmds \cup {NoOne} /\ faults' \in 0 .. MaxFaults
      /\ k.rec.prev # NoPath /\ k.rec.prev \in Named \cup {NoPath}
      /\ manifest'.prev \in Named \cup {NoPath} /\ \A x \in Rollbacks : Present(dir', x) => x \in Named
  BY <1>1, <1>2, <1>3, CmdFacts, SwapNames DEF Present
<1>5. ASSUME CmdOK(c, cmd[c], dir, manifest, flock, mishaps = {})
      PROVE  CmdOK(c, k, dir', manifest', flock', mishaps = {})
  <2>1. /\ manifest.there /\ flock = c /\ cmd[c].rec.there /\ prev = manifest.prev
        /\ cmd[c].swap = <<dir[ExchangeOf(c)], dir[Bin]>> /\ Present(dir, Bin)
        /\ cmd[c].swap[1] # 0 /\ ((mishaps = {}) => manifest.ver = cmd[c].swap[1] /\ cmd[c].swap[2] # 0)
    BY <1>1, <1>5 DEF CmdOK, Swapping, MidSwap
  <2> QED
    BY <1>1, <1>2, <1>3, <2>1 DEF CmdOK, MidSwap, Swapping, Present
<1>6. k.pc \in MidSwap
  BY <1>2 DEF MidSwap
<1> QED
  BY <1>1, <1>2, <1>3, <1>4, <1>5, <1>6, WriterStep

LEMMA RollbackRecordStep ==
  ASSUME InstallInv, NEW c \in Cmds, RollbackRecord(c)
  PROVE  InstallInv'
<1> DEFINE prev == cmd[c].rec.prev
<1>1. /\ cmd[c].pc = "commit" /\ cmd[c].pc \in Swapping /\ dir' = dir
      /\ UNCHANGED <<run, journal, profile, lock>> /\ UNCHANGED <<kills, cmds, mishaps>> /\ faults' = faults
      /\ Leave(c) /\ manifest' = [cmd[c].rec EXCEPT !.ver = dir[Bin], !.lines = TRUE]
  BY DEF RollbackRecord, CmdVars, Swapping, MidSwap
<1>2. /\ CmdBecomes(c, CmdIdle) /\ CmdIdle.pc \notin Swapping /\ CmdIdle.pc \notin MidSwap
      /\ CmdIdle.rec.prev = NoPath /\ flock' \in Cmds \cup {NoOne}
  BY <1>1, LeaveIs
<1>3. /\ cmd[c].rec \in Receipts /\ dir[Bin] \in 0 .. MaxVersion /\ dir \in Dirs
  BY CmdFacts, PathFacts DEF Dirs
<1>4. /\ manifest' \in Receipts /\ manifest'.there = cmd[c].rec.there /\ manifest'.prev = prev
      /\ manifest'.ver = dir[Bin]
  BY <1>1, <1>3 DEF Receipts
<1>5. /\ faults' \in 0 .. MaxFaults /\ dir' \in Dirs
      /\ manifest'.prev \in Named \cup {NoPath} /\ \A x \in Rollbacks : Present(dir', x) => x \in Named
  BY <1>1, <1>3, <1>4, CmdFacts
<1>6. ASSUME CmdOK(c, cmd[c], dir, manifest, flock, mishaps = {})
      PROVE  /\ manifest'.there = manifest.there /\ manifest'.prev = manifest.prev
             /\ RestOK(dir', manifest', NoJournal, mishaps = {})
  <2>1. /\ manifest.there /\ cmd[c].rec.there /\ prev = manifest.prev
        /\ cmd[c].swap = <<dir[prev], dir[Bin]>> /\ Present(dir, Bin) /\ cmd[c].swap[1] # 0
    BY <1>1, <1>6 DEF CmdOK, Swapping, MidSwap
  <2>2. Truthful(manifest', dir[Bin], dir)
    BY <1>4, <2>1 DEF Truthful, Present
  <2>3. manifest.there \in BOOLEAN /\ manifest'.there \in BOOLEAN
    BY <1>4, CmdFacts DEF Receipts
  <2>4. RestOK(dir', manifest', NoJournal, mishaps = {})
    BY <1>1, <2>1, <2>2 DEF RestOK, AllOrNothing
  <2> QED
    BY <1>4, <2>1, <2>3, <2>4
<1>7. CmdOK(c, CmdIdle, dir', manifest', flock', mishaps = {})
  BY IdleOK
<1> QED
  BY <1>1, <1>2, <1>4, <1>5, <1>6, <1>7, WriterStep

(* The executables after a rollback was taken back *)
LEMMA FailedSwap ==
  ASSUME InstallInv, NEW c \in Cmds, RollbackFails(c)
  PROVE  LET prev == cmd[c].rec.prev IN
         /\ dir' \in Dirs /\ dir'[prev] = dir[Bin]
         /\ dir'[Bin] = IF cmd[c].pc = "keep" THEN dir[ExchangeOf(c)] ELSE dir[prev]
         /\ \A x \in Rollbacks : x # prev => dir'[x] = dir[x]
<1> DEFINE prev == cmd[c].rec.prev
           old == IF cmd[c].pc = "keep" THEN ExchangeOf(c) ELSE prev
<1>1. /\ cmd[c].pc \in Swapping /\ dir' = [dir EXCEPT ![ExchangeOf(c)] = 0, ![prev] = dir[Bin], ![Bin] = dir[old]]
  BY DEF RollbackFails, Swapping, MidSwap
<1>2. old \in Paths /\ dir[old] = IF cmd[c].pc = "keep" THEN dir[ExchangeOf(c)] ELSE dir[prev]
  BY <1>1, SwapNames
<1> HIDE DEF old
<1>3. /\ prev \in Paths /\ prev # Bin /\ Bin \in Paths /\ ExchangeOf(c) \in Paths /\ ExchangeOf(c) # Bin
      /\ ExchangeOf(c) # prev /\ Rollbacks \subseteq Paths /\ ExchangeOf(c) \notin Rollbacks /\ Bin \notin Rollbacks
      /\ dir \in Dirs
  BY <1>1, SwapNames
<1> HIDE DEF prev
<1>4. 0 \in 0 .. MaxVersion
  BY BoundFacts
<1>5. /\ dir' \in Dirs /\ dir'[prev] = dir[Bin] /\ dir'[Bin] = dir[old]
      /\ \A x \in Rollbacks : x # prev => dir'[x] = dir[x]
  BY <1>1, <1>2, <1>3, <1>4 DEF Dirs
<1> QED
  BY <1>2, <1>5 DEF prev

LEMMA RollbackFailsStep ==
  ASSUME InstallInv, NEW c \in Cmds, RollbackFails(c)
  PROVE  InstallInv'
<1> DEFINE prev == cmd[c].rec.prev
<1>1. /\ cmd[c].pc \in {"keep", "commit"} /\ cmd[c].pc \in Swapping /\ manifest' = manifest
      /\ UNCHANGED <<run, journal, profile, lock>> /\ UNCHANGED <<kills, cmds, mishaps>>
      /\ faults < MaxFaults /\ faults' = faults + 1 /\ Leave(c)
  BY DEF RollbackFails, Swapping, MidSwap
<1>2. /\ CmdBecomes(c, CmdIdle) /\ CmdIdle.pc \notin Swapping /\ CmdIdle.pc \notin MidSwap
      /\ CmdIdle.rec.prev = NoPath /\ flock' \in Cmds \cup {NoOne}
  BY <1>1, LeaveIs
<1>3. /\ dir' \in Dirs /\ dir'[prev] = dir[Bin]
      /\ dir'[Bin] = IF cmd[c].pc = "keep" THEN dir[ExchangeOf(c)] ELSE dir[prev]
      /\ \A x \in Rollbacks : x # prev => dir'[x] = dir[x]
  BY FailedSwap
<1>4. faults' \in 0 .. MaxFaults
  <2>1. faults \in 0 .. MaxFaults /\ MaxFaults \in Nat
    BY CmdFacts
  <2> QED
    BY <1>1, <2>1, CountUp
<1>5. /\ manifest' \in Receipts
      /\ manifest'.prev \in Named \cup {NoPath} /\ \A x \in Rollbacks : Present(dir', x) => x \in Named
  BY <1>1, <1>3, CmdFacts, SwapNames DEF Present
<1>6. ASSUME CmdOK(c, cmd[c], dir, manifest, flock, mishaps = {})
      PROVE  RestOK(dir', manifest', NoJournal, mishaps = {})
  <2>1. /\ prev = manifest.prev /\ dir'[Bin] = cmd[c].swap[1] /\ dir[Bin] = cmd[c].swap[2]
        /\ cmd[c].swap[1] # 0 /\ ((mishaps = {}) => manifest.ver = cmd[c].swap[1] /\ cmd[c].swap[2] # 0)
    BY <1>1, <1>3, <1>6 DEF CmdOK, Swapping, MidSwap
  <2>2. (mishaps = {}) => Truthful(manifest, dir'[Bin], dir')
    BY <1>3, <2>1 DEF Truthful, Present
  <2> QED
    BY <1>1, <2>1, <2>2 DEF RestOK, AllOrNothing, Present
<1>7. CmdOK(c, CmdIdle, dir', manifest', flock', mishaps = {})
  BY IdleOK
<1> QED
  BY <1>1, <1>2, <1>3, <1>4, <1>5, <1>6, <1>7, WriterStep

LEMMA SetupPublishStep ==
  ASSUME InstallInv, NEW c \in Cmds, SetupPublish(c)
  PROVE  InstallInv'
<1>1. /\ cmd[c].pc = "mark" /\ dir' = dir
      /\ UNCHANGED <<run, journal, profile, lock>> /\ UNCHANGED <<kills, cmds, mishaps>> /\ faults' = faults
      /\ Leave(c) /\ manifest' = Marked(cmd[c].rec)
  BY DEF SetupPublish, CmdVars
<1>2. /\ CmdBecomes(c, CmdIdle) /\ CmdIdle.pc \notin Swapping /\ CmdIdle.pc \notin MidSwap
      /\ CmdIdle.rec.prev = NoPath /\ flock' \in Cmds \cup {NoOne}
  BY <1>1, LeaveIs
<1>3. /\ manifest' \in Receipts /\ manifest'.there = cmd[c].rec.there /\ manifest'.prev = cmd[c].rec.prev
      /\ manifest'.ver = cmd[c].rec.ver
  <2>1. cmd[c].rec \in Receipts
    BY CmdFacts
  <2> QED
    BY <1>1, <2>1, MarkedIs
<1>4. /\ faults' \in 0 .. MaxFaults /\ dir' \in Dirs
      /\ manifest'.prev \in Named \cup {NoPath} /\ \A x \in Rollbacks : Present(dir', x) => x \in Named
  BY <1>1, <1>3, CmdFacts
<1>5. ASSUME CmdOK(c, cmd[c], dir, manifest, flock, mishaps = {}),
             cmd[c].pc \notin MidSwap => RestOK(dir, manifest, NoJournal, mishaps = {})
      PROVE  /\ manifest'.there = manifest.there /\ manifest'.prev = manifest.prev
             /\ RestOK(dir', manifest', NoJournal, mishaps = {})
  <2>1. cmd[c].rec = manifest
    BY <1>1, <1>5 DEF CmdOK
  <2>2. RestOK(dir, manifest, NoJournal, mishaps = {})
    BY <1>1, <1>5 DEF MidSwap
  <2>3. RestOK(dir, manifest', NoJournal, mishaps = {})
    BY <1>3, <2>1, <2>2 DEF RestOK, AllOrNothing, Truthful
  <2> QED
    BY <1>1, <1>3, <2>1, <2>3
<1>6. CmdOK(c, CmdIdle, dir', manifest', flock', mishaps = {})
  BY IdleOK
<1> QED
  BY <1>1, <1>2, <1>3, <1>4, <1>5, <1>6, WriterStep

LEMMA UninstallRemoveStep ==
  ASSUME InstallInv, NEW c \in Cmds, UninstallRemove(c)
  PROVE  InstallInv'
<1>1. /\ dir' = [path \in Paths |-> IF path \in {Bin, cmd[c].rec.prev} THEN 0 ELSE dir[path]]
      /\ manifest' = NoManifest /\ lock' = IF cmd[c].locked THEN "free" ELSE lock
      /\ mishaps' = mishaps \cup {"uninstalled"}
                      \cup {m \in {"lock stolen"} : cmd[c].locked /\ LockInUse}
      /\ Leave(c) /\ cmds' = cmds /\ faults' = faults /\ kills' = kills /\ UNCHANGED <<run, journal, profile>>
  BY DEF UninstallRemove
<1>2. /\ CmdBecomes(c, CmdIdle) /\ CmdIdle.pc \notin Swapping /\ CmdIdle.pc \notin MidSwap
      /\ CmdIdle.rec.prev = NoPath /\ flock' \in Cmds \cup {NoOne}
  BY <1>1, LeaveIs
<1>3. dir' \in Dirs /\ \A x \in Rollbacks : Present(dir', x) => x \in Named
  <2>1. dir \in Dirs /\ \A x \in Rollbacks : Present(dir, x) => x \in Named
    BY CmdFacts
  <2>2. Rollbacks \subseteq Paths
    BY PathFacts
  <2> QED
    BY <1>1, <2>1, <2>2, BoundFacts DEF Dirs, Present
<1>4. mishaps \subseteq mishaps' /\ mishaps' \subseteq Mishaps /\ ~Undisturbed'
  <2>1. mishaps \subseteq Mishaps
    BY CmdFacts
  <2> QED
    BY <1>1, <2>1 DEF Mishaps, Undisturbed
<1>5. LockOK'
  <2>1. SUFFICES ASSUME "lock stolen" \notin mishaps' PROVE LockOK'
    BY DEF LockOK
  <2>2. "lock stolen" \notin mishaps /\ LockOK /\ run' = run
    BY <1>1, <2>1, CmdFacts
  <2>3. CASE ~cmd[c].locked
    BY <1>1, <2>2, <2>3 DEF LockOK
  <2>4. CASE cmd[c].locked
    <3>1. ~LockInUse
      BY <1>1, <2>1, <2>4
    <3>2. \A q \in Runs : run[q].pc \notin Holding /\ run[q].pc # "publish"
      BY <2>2, <3>1 DEF LockOK, LockInUse, Live
    <3> QED
      BY <2>2, <3>2 DEF LockOK
  <2> QED
    BY <2>3, <2>4
<1>6. /\ manifest' \in Receipts /\ manifest'.prev \in Named \cup {NoPath} /\ lock' \in {"free", "bare"} \cup Runs
      /\ kills' \in 0 .. MaxKills /\ faults' \in 0 .. MaxFaults /\ cmds' \in 0 .. MaxCmds
      /\ CmdIdle.rec.prev \in Named \cup {NoPath} /\ UNCHANGED <<run, journal, profile>>
  BY <1>1, <1>2, ConstantRecords, CmdFacts
<1> QED
  BY <1>2, <1>3, <1>4, <1>5, <1>6, CmdStep

-----------------------------------------------------------------------------
(* The invariant and the properties *)

LEMMA InstallInitInv ==
  ASSUME InstallInit
  PROVE  InstallInv
<1>1. /\ lock = "free" /\ journal = NoJournal /\ run = [p \in Runs |-> RunIdle] /\ cmd = [c \in Cmds |-> CmdIdle]
      /\ flock = NoOne /\ kills = 0 /\ faults = 0 /\ cmds = 0 /\ mishaps = {} /\ profile = manifest.there
  BY DEF InstallInit
<1> DEFINE Files ==
      /\ dir \in Dirs /\ manifest \in Receipts /\ manifest.prev \in {NoPath, RollbackOf(NoOne)}
      /\ \A x \in Rollbacks : Present(dir, x) => x = RollbackOf(NoOne)
      /\ AllOrNothing(dir, manifest) /\ Truthful(manifest, dir[Bin], dir)
<1>2. Files
  <2>0. /\ Empty \in Dirs /\ \A x \in Paths : Empty[x] = 0
        /\ Bin \in Paths /\ Bin \notin Rollbacks /\ Rollbacks \subseteq Paths
        /\ RollbackOf(NoOne) \in Rollbacks /\ NoPath \notin Rollbacks
    BY BoundFacts, PathFacts DEF Empty, Dirs
  <2>1. CASE dir = Empty /\ manifest = NoManifest
    BY <2>0, <2>1, ConstantRecords DEF Present, AllOrNothing, OldRollbacks, Truthful
  <2>2. ASSUME NEW v \in Versions, dir = [Empty EXCEPT ![Bin] = v],
               manifest = Receipt(v, NoPath, "complete", FALSE)
        PROVE  Files
    <3>1. /\ v \in 0 .. MaxVersion /\ v # 0
      BY BoundFacts
    <3>2. /\ dir \in Dirs /\ dir[Bin] = v /\ \A x \in Rollbacks : dir[x] = 0
      BY <2>0, <2>2, <3>1 DEF Dirs
    <3>3. manifest \in Receipts /\ manifest.prev = NoPath /\ manifest.ver = v
      BY <2>2, <3>1 DEF Receipt, Receipts
    <3> QED
      BY <3>1, <3>2, <3>3 DEF Present, AllOrNothing, Truthful
  <2>3. ASSUME NEW v \in Versions, NEW w \in Versions,
               dir = [Empty EXCEPT ![Bin] = v, ![RollbackOf(NoOne)] = w],
               manifest = Receipt(v, RollbackOf(NoOne), "skipped", TRUE)
        PROVE  Files
    <3>1. v \in 0 .. MaxVersion /\ v # 0 /\ w \in 0 .. MaxVersion /\ w # 0
      BY BoundFacts
    <3>2. /\ dir \in Dirs /\ dir[Bin] = v /\ dir[RollbackOf(NoOne)] = w
          /\ \A x \in Rollbacks : x # RollbackOf(NoOne) => dir[x] = 0
      BY <2>0, <2>3, <3>1 DEF Dirs
    <3>3. manifest \in Receipts /\ manifest.prev = RollbackOf(NoOne) /\ manifest.ver = v
      BY <2>0, <2>3, <3>1 DEF Receipt, Receipts
    <3> QED
      BY <3>1, <3>2, <3>3 DEF Present, AllOrNothing, Truthful
  <2> QED
    BY <2>1, <2>2, <2>3 DEF InstallInit
<1>3. /\ \A p \in Runs : run[p] = RunIdle
      /\ \A c \in Cmds : cmd[c] = CmdIdle
      /\ run \in [Runs -> RunRecords] /\ cmd \in [Cmds -> CmdRecords]
  BY <1>1, IdleIs, CmdIdleIs
<1>4. /\ RunIdle.pc = "idle" /\ RunIdle.prev = NoPath /\ ~RunIdle.had /\ RunIdle.saved.manifest.prev = NoPath
      /\ Blank(RunIdle) /\ "idle" \notin Holding /\ CmdIdle.pc = "idle" /\ CmdIdle.rec.prev = NoPath
  BY CmdIdleIs, ConstantRecords DEF RunIdle, Blank, BeforeLock, Holding
<1>5. InstallTypeOK
  BY <1>1, <1>2, <1>3, ConstantRecords, InstallationAssumption DEF InstallTypeOK, Dirs, Receipts
<1>6. HadOK /\ LockOK /\ BlankOK
  BY <1>1, <1>3, <1>4, ConstantRecords DEF HadOK, LockOK, BlankOK, Swapping, MidSwap
<1>7. FreshOK
  <2>1. Named \subseteq {RollbackOf(NoOne)}
    <3>1. NoPath \notin Rollbacks
      BY PathFacts
    <3> QED
      BY <1>1, <1>2, <1>3, <1>4, <3>1, ConstantRecords DEF Named
  <2> QED
    BY <2>1, PathFacts DEF FreshOK
<1>8. HolderInv /\ RestInv
  <2>1. RestOK(dir, manifest, journal, mishaps = {})
    BY <1>1, <1>2 DEF RestOK
  <2>2. \A c \in Cmds : CmdOK(c, cmd[c], dir, manifest, flock, mishaps = {})
    BY <1>3, IdleOK
  <2> QED
    BY <1>1, <1>3, <1>4, <2>1, <2>2 DEF HolderInv, RestInv
<1> QED
  BY <1>5, <1>6, <1>7, <1>8 DEF InstallInv

LEMMA InstallStepInv ==
  ASSUME InstallInv, [InstallNext]_installVars
  PROVE  InstallInv'
<1>1. ASSUME NEW p \in Runs, InstallerStep(p) PROVE InstallInv'
  <2>1. ASSUME NEW v \in Versions, NEW how \in {"curl", "update"}, StartInstaller(p, v, how)
        PROVE  InstallInv'
    BY <1>1, <2>1, StartInstallerStep
  <2>2. CASE MakeLock(p)
    BY <1>1, <2>2, MakeLockStep
  <2>3. CASE PublishLock(p)
    BY <1>1, <2>3, PublishLockStep
  <2>4. CASE InspectLock(p)
    BY <1>1, <2>4, InspectLockStep
  <2>5. CASE WaitForPid(p)
    BY <1>1, <2>5, WaitForPidStep
  <2>6. CASE QuarantineLock(p)
    BY <1>1, <2>6, QuarantineLockStep
  <2>7. CASE ReconcileOrphans(p)
    BY <1>1, <2>7, ReconcileOrphansStep
  <2>8. CASE ReconcileJournal(p)
    BY <1>1, <2>8, ReconcileJournalStep
  <2>9. CASE RestorePrior(p)
    BY <1>1, <2>9, RestorePriorStep
  <2>10. CASE ClearJournal(p)
    BY <1>1, <2>10, ClearJournalStep
  <2>11. CASE ChooseTarget(p)
    BY <1>1, <2>11, ChooseTargetStep
  <2>12. CASE BeginTransaction(p)
    BY <1>1, <2>12, BeginTransactionStep
  <2>13. CASE StageCandidate(p)
    BY <1>1, <2>13, StageCandidateStep
  <2>14. CASE PrepareActivation(p)
    BY <1>1, <2>14, PrepareActivationStep
  <2>15. CASE RetainPrevious(p)
    BY <1>1, <2>15, RetainPreviousStep
  <2>16. CASE NoteRetained(p)
    BY <1>1, <2>16, NoteRetainedStep
  <2>17. CASE SwapCandidate(p)
    BY <1>1, <2>17, SwapCandidateStep
  <2>18. CASE SmokeActivated(p)
    BY <1>1, <2>18, SmokeActivatedStep
  <2>19. CASE ResolveInShell(p)
    BY <1>1, <2>19, ResolveInShellStep
  <2>20. CASE WriteMetadata(p)
    BY <1>1, <2>20, WriteMetadataStep
  <2>21. CASE ValidateReceipt(p)
    BY <1>1, <2>21, ValidateReceiptStep
  <2>22. CASE CommitTransaction(p)
    BY <1>1, <2>22, CommitTransactionStep
  <2>23. CASE FinishSetup(p)
    BY <1>1, <2>23, FinishSetupStep
  <2>24. CASE Fails(p)
    BY <1>1, <2>24, FailsStep
  <2>25. CASE Refuses(p)
    BY <1>1, <2>25, RefusesStep
  <2>26. CASE Killed(p)
    BY <1>1, <2>26, KilledStep
  <2> QED
    BY <1>1, <2>1, <2>2, <2>3, <2>4, <2>5, <2>6, <2>7, <2>8, <2>9, <2>10, <2>11, <2>12, <2>13, <2>14,
       <2>15, <2>16, <2>17, <2>18, <2>19, <2>20, <2>21, <2>22, <2>23, <2>24, <2>25, <2>26 DEF InstallerStep
<1>2. ASSUME NEW c \in Cmds, CommandStep(c) PROVE InstallInv'
  <2>1. CASE RollbackLoad(c)
    BY <1>2, <2>1, RollbackLoadStep
  <2>2. CASE RollbackLock(c)
    BY <1>2, <2>2, RollbackLockStep
  <2>3. CASE RollbackOut(c)
    BY <1>2, <2>3, RollbackOutStep
  <2>4. CASE RollbackIn(c)
    BY <1>2, <2>4, RollbackInStep
  <2>5. CASE RollbackKeep(c)
    BY <1>2, <2>5, RollbackKeepStep
  <2>6. CASE RollbackRecord(c)
    BY <1>2, <2>6, RollbackRecordStep
  <2>7. CASE RollbackFails(c)
    BY <1>2, <2>7, RollbackFailsStep
  <2>8. CASE SetupLoad(c)
    BY <1>2, <2>8, SetupLoadStep
  <2>9. CASE SetupPublish(c)
    BY <1>2, <2>9, SetupPublishStep
  <2>10. CASE UninstallPlan(c)
    BY <1>2, <2>10, UninstallPlanStep
  <2>11. CASE UninstallRemove(c)
    BY <1>2, <2>11, UninstallRemoveStep
  <2>12. CASE CmdKilled(c)
    BY <1>2, <2>12, CmdKilledStep
  <2> QED
    BY <1>2, <2>1, <2>2, <2>3, <2>4, <2>5, <2>6, <2>7, <2>8, <2>9, <2>10, <2>11, <2>12 DEF CommandStep
<1>3. CASE UNCHANGED installVars
  BY <1>3 DEF installVars, InstallInv, InstallTypeOK, HadOK, LockOK, BlankOK, FreshOK, Named, Present,
     Undisturbed, HolderInv, RestInv, NoHolder
<1> QED
  BY <1>1, <1>2, <1>3 DEF InstallNext

(* The inductive invariant of the installer and the commands. *)
THEOREM InstallInvariant == InstallSpec => []InstallInv
<1>1. InstallInit => InstallInv
  BY InstallInitInv
<1>2. InstallInv /\ [InstallNext]_installVars => InstallInv'
  BY InstallStepInv
<1> QED
  BY <1>1, <1>2, PTL DEF InstallSpec

(* Two installers never hold the lock unless a recovery of a crashed one's lock raced with them. *)
THEOREM InstallersExclude == InstallSpec => []OneInstaller
<1>1. InstallInv => OneInstaller
  BY DEF InstallInv, LockOK, OneInstaller
<1> QED
  BY <1>1, InstallInvariant, PTL

LEMMA AtRest ==
  ASSUME InstallInv, Quiet, Undisturbed
  PROVE  RestOK(dir, manifest, journal, mishaps = {})
<1>1. NoHolder
  BY DEF Quiet, Live, NoHolder
<1>2. \A c \in Cmds : cmd[c].pc \notin MidSwap
  BY DEF Quiet, MidSwap
<1> QED
  BY <1>1, <1>2 DEF InstallInv, RestInv

(* The command survives installers that are killed or fail, and the next installer is not refused;
   the exception is a recovery stopped after the rename that it cannot repeat. *)
THEOREM CommandIsKept == InstallSpec => []CommandSurvives
<1>1. ASSUME InstallInv PROVE CommandSurvives
  <2>1. SUFFICES ASSUME Quiet, Undisturbed
                 PROVE  ~WouldDie /\ (manifest.there => Present(dir, Bin) \/ WouldRestore)
    BY DEF CommandSurvives, Survives
  <2>2. RestOK(dir, manifest, journal, mishaps = {})
    BY <1>1, <2>1, AtRest
  <2>3. CASE journal = NoJournal
    <3>1. AllOrNothing(dir, manifest)
      BY <2>2, <2>3 DEF RestOK
    <3>2. ~OrphansFatal(dir)
      <4>1. Cardinality({}) = 0
        BY FS_EmptySet
      <4> QED
        BY <3>1, <4>1 DEF OrphansFatal, AllOrNothing
    <3> QED
      BY <2>3, <3>1, <3>2 DEF WouldDie, AllOrNothing
  <2>4. CASE journal # NoJournal
    <3>1. JournalOK(journal, dir, manifest)
      BY <2>2, <2>4 DEF RestOK
    <3>2. Present(dir, Bin) => (journal.phase = "prepared" /\ ~journal.had => FALSE)
      BY <3>1 DEF JournalOK
    <3>3. ~JournalFatal(dir, journal)
      <4>1. journal.phase = "prepared" /\ journal.had =>
              \/ Present(dir, Bin) /\ dir[Bin] # journal.ver /\ ~Present(dir, journal.prev)
              \/ ~Present(dir, Bin) /\ Present(dir, journal.prev)
        BY <3>1 DEF JournalOK
      <4> QED
        BY <3>2, <4>1 DEF JournalFatal, ActiveOk
    <3>4. journal.had /\ ~Present(dir, journal.prev) => BeforeRetain(dir, journal)
      BY <3>1 DEF JournalOK, BeforeRetain
    <3>5. manifest.there => Present(dir, Bin) \/ (journal.had /\ Present(dir, journal.prev))
      BY <3>1 DEF JournalOK, AllOrNothing
    <3> QED
      BY <2>4, <3>3, <3>4, <3>5 DEF WouldDie, WouldRestore
  <2> QED
    BY <2>3, <2>4
<1> QED
  BY <1>1, InstallInvariant, PTL

(* With no transaction open and nothing out of the ordinary, the receipt tells the truth. *)
THEOREM ReceiptIsTrue == InstallSpec => []ReceiptTrue
<1>1. ASSUME InstallInv PROVE ReceiptTrue
  <2>1. SUFFICES ASSUME Quiet, mishaps = {}, journal = NoJournal, manifest.there
                 PROVE  manifest.ver = dir[Bin] /\ (manifest.prev # NoPath => Present(dir, manifest.prev))
    BY DEF ReceiptTrue
  <2>2. RestOK(dir, manifest, journal, mishaps = {})
    BY <1>1, <2>1, AtRest DEF Undisturbed
  <2> QED
    BY <2>1, <2>2 DEF RestOK, Truthful
<1> QED
  BY <1>1, InstallInvariant, PTL

(* An installer changes its own variables and no command's. *)
LEMMA OneMoves ==
  ASSUME NEW p \in Runs, InstallerStep(p), run \in [Runs -> RunRecords]
  PROVE  cmd' = cmd /\ \A q \in Runs : q # p => run'[q] = run[q]
<1>1. ASSUME NEW v \in Versions, NEW how \in {"curl", "update"}, StartInstaller(p, v, how)
      PROVE  cmd' = cmd /\ \A q \in Runs : q # p => run'[q] = run[q]
  BY <1>1 DEF StartInstaller, LockVars
<1>2. CASE \/ MakeLock(p) \/ PublishLock(p) \/ InspectLock(p) \/ WaitForPid(p)
           \/ QuarantineLock(p)
  BY <1>2 DEF MakeLock, PublishLock, InspectLock, WaitForPid, QuarantineLock, LockVars, RunGoto, End
<1>3. CASE \/ ReconcileOrphans(p) \/ ReconcileJournal(p) \/ RestorePrior(p) \/ ClearJournal(p)
  BY <1>3 DEF ReconcileOrphans, ReconcileJournal, RestorePrior, ClearJournal, StepVars, Die, Recovering, RunGoto, End
<1>4. CASE \/ ChooseTarget(p) \/ BeginTransaction(p) \/ StageCandidate(p) \/ PrepareActivation(p)
           \/ RetainPrevious(p) \/ NoteRetained(p) \/ SwapCandidate(p)
  BY <1>4 DEF ChooseTarget, BeginTransaction, StageCandidate, PrepareActivation, RetainPrevious, NoteRetained, SwapCandidate, StepVars, RunGoto
<1>5. CASE \/ SmokeActivated(p) \/ ResolveInShell(p) \/ WriteMetadata(p) \/ ValidateReceipt(p)
           \/ CommitTransaction(p) \/ FinishSetup(p)
  BY <1>5 DEF SmokeActivated, ResolveInShell, WriteMetadata, ValidateReceipt, CommitTransaction, FinishSetup, StepVars, RunGoto, End
<1>6. CASE \/ Fails(p) \/ Refuses(p) \/ Killed(p)
  BY <1>6 DEF Fails, Refuses, Killed, Trap, End
<1> QED
  BY <1>1, <1>2, <1>3, <1>4, <1>5, <1>6 DEF InstallerStep

(* An installer that holds the lock fails through its exit trap, or refuses to reconcile. *)
LEMMA HowItFails ==
  ASSUME NEW p \in Runs, InstallerStep(p), run \in [Runs -> RunRecords], run[p].pc \in Holding,
         run'[p].pc = "failed"
  PROVE  Trap(p) \/ (mishaps' = mishaps /\ run[p].pc \in {"reconcile", "restore"})
<1>1. run[p] \in RunRecords
  OBVIOUS
<1>2. ASSUME NEW pc, RunGoto(p, pc) PROVE run'[p].pc = pc
  BY <1>1, <1>2 DEF RunGoto, RunRecords
<1>3. ASSUME NEW v \in Versions, NEW how \in {"curl", "update"}, StartInstaller(p, v, how) PROVE FALSE
  BY <1>3 DEF StartInstaller, Holding
<1>4. CASE \/ MakeLock(p) \/ PublishLock(p) \/ InspectLock(p) \/ WaitForPid(p)
           \/ QuarantineLock(p)
  BY <1>4 DEF MakeLock, PublishLock, InspectLock, WaitForPid, QuarantineLock, Holding
<1>5. CASE ReconcileOrphans(p) \/ ReconcileJournal(p) \/ RestorePrior(p)
  BY <1>5 DEF ReconcileOrphans, ReconcileJournal, RestorePrior
<1>6. CASE \/ ClearJournal(p) \/ StageCandidate(p) \/ RetainPrevious(p) \/ NoteRetained(p) \/ ResolveInShell(p)
           \/ ValidateReceipt(p)
  BY <1>2, <1>6 DEF ClearJournal, StageCandidate, RetainPrevious, NoteRetained, ResolveInShell, ValidateReceipt
<1>7. CASE \/ ChooseTarget(p) \/ BeginTransaction(p) \/ PrepareActivation(p)
  BY <1>1, <1>2, <1>7 DEF ChooseTarget, BeginTransaction, PrepareActivation, RunRecords
<1>8. CASE \/ SwapCandidate(p) \/ SmokeActivated(p) \/ WriteMetadata(p) \/ CommitTransaction(p)
  <2>1. SwapCandidate(p) => run'[p].pc = "smoke"
    BY <1>1 DEF SwapCandidate, RunRecords
  <2>2. SmokeActivated(p) => run'[p].pc = "resolve"
    BY <1>1 DEF SmokeActivated, RunRecords
  <2>3. WriteMetadata(p) => run'[p].pc = "validate"
    BY <1>1 DEF WriteMetadata, RunRecords
  <2>4. CommitTransaction(p) => run'[p].pc = "setup"
    BY <1>1 DEF CommitTransaction, RunRecords
  <2> QED
    BY <1>8, <2>1, <2>2, <2>3, <2>4
<1>9. CASE FinishSetup(p) \/ Killed(p)
  <2>1. End(p, "done") \/ End(p, "killed")
    BY <1>9 DEF FinishSetup, Killed
  <2>2. run'[p].pc \in {"done", "killed"}
    BY <2>1, IdleIs DEF End
  <2> QED
    BY <2>2
<1>10. CASE Fails(p) \/ Refuses(p)
  BY <1>10 DEF Fails, Refuses
<1> QED
  BY <1>3, <1>4, <1>5, <1>6, <1>7, <1>8, <1>9, <1>10 DEF InstallerStep

(* The exit trap of an open transaction restores what it saved. *)
LEMMA TrapSaves ==
  ASSUME InstallInv, NEW p \in Runs, Trap(p), run[p].pc \in Holding, run[p].txn, Undisturbed'
  PROVE  [manifest |-> manifest', profile |-> profile', bin |-> dir'[Bin]] = run[p].saved
<1> DEFINE r == run[p]
<1>1. /\ dir' = Aside(TrapRestores(r, dir), StageOf(p)) /\ profile' = r.saved.profile
      /\ manifest' = r.saved.manifest /\ mishaps' = Stopped(p)
  BY DEF Trap
<1>2. /\ r \in RunRecords /\ (r.had => r.prev # NoPath) /\ dir \in Dirs /\ journal \in Journals
      /\ (mishaps = {}) \in BOOLEAN
  BY InsideFacts
<1>3. mishaps \subseteq mishaps'
  BY <1>1 DEF Stopped
<1>4. HolderOK(p, r, dir, manifest, journal, mishaps = {})
  BY <1>3, CalmBefore DEF InstallInv, HolderInv
<1>5. r.txn
  OBVIOUS
<1> HIDE DEF r
<1>6. TrapRestores(r, dir)[Bin] = r.saved.bin
  <2>1. PICK told \in BOOLEAN : told = (mishaps = {})
    BY <1>2
  <2>2. HolderOK(p, r, dir, manifest, journal, told)
    BY <1>4, <2>1
  <2> QED
    BY <1>2, <1>5, <2>2, TrapBin
<1>7. dir'[Bin] = r.saved.bin
  <2>1. Aside(TrapRestores(r, dir), StageOf(p))[Bin] = TrapRestores(r, dir)[Bin]
    BY <1>2, TrapShelf
  <2> QED
    BY <1>1, <1>6, <2>1
<1>8. r.saved \in [manifest : Receipts, profile : BOOLEAN, bin : 0 .. MaxVersion]
  BY <1>2 DEF RunRecords
<1> QED
  BY <1>1, <1>7, <1>8 DEF r

(* A transaction that fails leaves the command, the receipt and the profile as it found them. *)
THEOREM FailuresRestore == InstallSpec => FailureRestores
<1>1. ASSUME InstallInv, InstallNext, NEW p \in Runs, run[p].txn, run'[p].pc = "failed", Undisturbed'
      PROVE  [manifest |-> manifest', profile |-> profile', bin |-> dir'[Bin]] = run[p].saved
  <2>1. run \in [Runs -> RunRecords] /\ run[p].pc \in Holding
    <3>1. run[p].pc \notin Holding => Blank(run[p])
      BY <1>1, OutsideFacts
    <3> QED
      BY <1>1, <3>1, OutsideFacts DEF Blank
  <2>2. run'[p] # run[p]
    BY <1>1, <2>1 DEF Holding
  <2>3. InstallerStep(p)
    <3>1. ASSUME NEW c \in Cmds, CommandStep(c) PROVE run' = run
      BY <3>1 DEF CommandStep, RollbackLoad, RollbackLock, RollbackOut, RollbackIn, RollbackKeep, RollbackRecord,
         RollbackFails, SetupLoad, SetupPublish, UninstallPlan, UninstallRemove, CmdKilled, CmdVars
    <3>2. ASSUME NEW q \in Runs, InstallerStep(q) PROVE q = p
      BY <2>1, <2>2, <3>2, OneMoves
    <3> QED
      BY <1>1, <2>2, <3>1, <3>2 DEF InstallNext
  <2>4. Trap(p) \/ (mishaps' = mishaps /\ run[p].pc \in {"reconcile", "restore"})
    BY <1>1, <2>1, <2>3, HowItFails
  <2>5. CASE mishaps' = mishaps /\ run[p].pc \in {"reconcile", "restore"}
    <3>1. HolderOK(p, run[p], dir, manifest, journal, mishaps = {})
      BY <1>1, <2>1, <2>5, CalmBefore DEF InstallInv, HolderInv
    <3> QED
      BY <1>1, <2>5, <3>1 DEF HolderOK, InTransaction
  <2> QED
    BY <1>1, <2>1, <2>4, <2>5, TrapSaves
<1>2. InstallInv /\ [InstallNext]_installVars =>
        [ \A p \in Runs :
            run[p].txn /\ run'[p].pc = "failed" /\ Undisturbed' =>
              [manifest |-> manifest', profile |-> profile', bin |-> dir'[Bin]] = run[p].saved ]_installVars
  BY <1>1
<1> QED
  BY <1>2, InstallInvariant, PTL DEF InstallSpec, FailureRestores

(* How a rollback may end, step by step. *)
LEMMA HowItEnds ==
  ASSUME InstallInv, NEW c \in Cmds, CommandStep(c), cmd[c].pc \in {"out", "in", "keep", "commit"},
         cmd'[c].pc = "idle", Undisturbed'
  PROVE  LET now == <<dir'[Bin], dir'[cmd[c].rec.prev]>>
             was == cmd[c].swap IN
         now = was \/ (now = <<was[2], was[1]>> /\ manifest'.ver = now[1])
<1> DEFINE prev == cmd[c].rec.prev
           now == <<dir'[Bin], dir'[prev]>>
           was == cmd[c].swap
<1>1. cmd[c].pc # "idle" /\ cmd[c].pc \in Swapping /\ cmd[c] \in CmdRecords /\ cmd[c].rec \in Receipts
  BY CmdFacts DEF Swapping, MidSwap
<1>2. ASSUME mishaps \subseteq mishaps' PROVE CmdOK(c, cmd[c], dir, manifest, flock, mishaps = {})
  BY <1>1, <1>2, CalmBefore, CmdAlone DEF InstallInv
<1>3. ASSUME CmdOK(c, cmd[c], dir, manifest, flock, mishaps = {})
      PROVE  /\ prev = manifest.prev
             /\ cmd[c].pc = "out" => was = <<dir[Bin], dir[prev]>>
             /\ cmd[c].pc = "in" => was = <<dir[ExchangeOf(c)], dir[prev]>>
             /\ cmd[c].pc = "keep" => was = <<dir[ExchangeOf(c)], dir[Bin]>>
             /\ cmd[c].pc = "commit" => was = <<dir[prev], dir[Bin]>>
  BY <1>1, <1>3 DEF CmdOK
<1>4. ASSUME NEW pc \in {"in", "keep", "commit"}, CmdGoto(c, pc) PROVE FALSE
  <2>1. cmd'[c].pc = pc
    BY <1>1, <1>4, CmdFacts DEF CmdGoto, CmdRecords
  <2> QED
    BY <2>1
<1>5. CASE RollbackOut(c)
  <2>1. mishaps' = mishaps /\ dir' = dir /\ cmd[c].pc = "out"
    BY <1>4, <1>5 DEF RollbackOut
  <2> QED
    BY <1>2, <1>3, <2>1
<1>6. CASE RollbackIn(c)
  <2>1. mishaps' = mishaps /\ dir' = Moved(dir, ExchangeOf(c), Bin) /\ cmd[c].pc = "in"
    BY <1>4, <1>6 DEF RollbackIn
  <2>2. dir'[Bin] = dir[ExchangeOf(c)] /\ dir'[prev] = dir[prev]
    BY <1>1, <2>1, SwapNames, MovedIs
  <2> QED
    BY <1>2, <1>3, <2>1, <2>2
<1>7. CASE RollbackRecord(c)
  <2>1. mishaps' = mishaps /\ dir' = dir /\ cmd[c].pc = "commit" /\ manifest'.ver = dir[Bin]
    BY <1>1, <1>7 DEF RollbackRecord, Receipts
  <2> QED
    BY <1>2, <1>3, <2>1
<1>8. CASE RollbackFails(c)
  <2>1. mishaps' = mishaps /\ cmd[c].pc \in {"keep", "commit"}
    BY <1>8 DEF RollbackFails
  <2>2. dir'[prev] = dir[Bin] /\ dir'[Bin] = IF cmd[c].pc = "keep" THEN dir[ExchangeOf(c)] ELSE dir[prev]
    BY <1>8, FailedSwap
  <2> QED
    BY <1>2, <1>3, <2>1, <2>2
<1>9. CASE CmdKilled(c)
  <2>1. mishaps \subseteq mishaps' /\ dir' = dir /\ (cmd[c].pc # "out" => "rollback killed" \in mishaps')
    BY <1>9 DEF CmdKilled
  <2>2. cmd[c].pc = "out"
    BY <2>1 DEF Undisturbed
  <2> QED
    BY <1>2, <1>3, <2>1, <2>2
<1>10. CASE RollbackKeep(c)
  BY <1>4, <1>10 DEF RollbackKeep
<1>11. CASE \/ RollbackLoad(c) \/ RollbackLock(c) \/ SetupLoad(c) \/ SetupPublish(c) \/ UninstallPlan(c)
            \/ UninstallRemove(c)
  BY <1>11 DEF RollbackLoad, RollbackLock, SetupLoad, SetupPublish, UninstallPlan, UninstallRemove, Enter
<1> QED
  BY <1>5, <1>6, <1>7, <1>8, <1>9, <1>10, <1>11 DEF CommandStep

(* A rollback that ends exchanged the two executables, and said so, or changed nothing. *)
THEOREM RollbacksExchange == InstallSpec => RollbackExchanges
<1>1. ASSUME InstallInv, InstallNext, NEW c \in Cmds, cmd[c].pc \in {"out", "in", "keep", "commit"},
             cmd'[c].pc = "idle", Undisturbed'
      PROVE  LET now == <<dir'[Bin], dir'[cmd[c].rec.prev]>>
                 was == cmd[c].swap IN
             now = was \/ (now = <<was[2], was[1]>> /\ manifest'.ver = now[1])
  <2>1. cmd'[c] # cmd[c] /\ run \in [Runs -> RunRecords] /\ cmd \in [Cmds -> CmdRecords]
    BY <1>1, CmdFacts DEF InstallTypeOK
  <2>2. ASSUME NEW q \in Cmds, CommandStep(q) PROVE q = c
    BY <2>1, <2>2 DEF CommandStep, RollbackLoad, RollbackLock, RollbackOut, RollbackIn, RollbackKeep, RollbackRecord,
       RollbackFails, SetupLoad, SetupPublish, UninstallPlan, UninstallRemove, CmdKilled, Enter, Leave, CmdGoto
  <2>3. CommandStep(c)
    BY <1>1, <2>1, <2>2, OneMoves DEF InstallNext
  <2> QED
    BY <1>1, <2>3, HowItEnds
<1>2. InstallInv /\ [InstallNext]_installVars =>
        [ \A c \in Cmds :
            cmd[c].pc \in {"out", "in", "keep", "commit"} /\ cmd'[c].pc = "idle" /\ Undisturbed' =>
              LET now == <<dir'[Bin], dir'[cmd[c].rec.prev]>>
                  was == cmd[c].swap IN
              \/ now = was
              \/ now = <<was[2], was[1]>> /\ manifest'.ver = now[1] ]_installVars
  BY <1>1
<1> QED
  BY <1>2, InstallInvariant, PTL DEF InstallSpec, RollbackExchanges

(***************************************************************************)
(* BackgroundJobs, for any number of tool threads, jobs and slots.         *)
(* RegistryInv is inductive; the properties follow from it.                *)
(***************************************************************************)

-----------------------------------------------------------------------------
(* The sequences of the registry *)

\* The positions of the kept members are counted through without a gap.
LEMMA RankOnto ==
  ASSUME NEW m \in Nat, NEW at \in SUBSET (1 .. m)
  PROVE  /\ IsFiniteSet(at) /\ Cardinality(at) \in Nat
         /\ \A i \in at : Cardinality({k \in at : k <= i}) \in 1 .. Cardinality(at)
         /\ \A i, j \in at : Cardinality({k \in at : k <= i}) = Cardinality({k \in at : k <= j}) => i = j
         /\ \A n \in 1 .. Cardinality(at) : \E i \in at : Cardinality({k \in at : k <= i}) = n
<1> DEFINE below(i) == {k \in at : k <= i}
           rank == [i \in at |-> Cardinality(below(i))]
<1>1. IsFiniteSet(at) /\ Cardinality(at) \in Nat
  <2>1. 1 \in Int /\ m \in Int
    OBVIOUS
  <2>2. IsFiniteSet(1 .. m)
    BY <2>1, FS_Interval
  <2> QED
    BY <2>2, FS_Subset, FS_CardinalityType
<1>2. \A i \in at : IsFiniteSet(below(i)) /\ Cardinality(below(i)) \in Nat /\ Cardinality(below(i)) <= Cardinality(at)
  <2>1. TAKE i \in at
  <2>2. below(i) \in SUBSET at
    OBVIOUS
  <2> QED
    BY <1>1, <2>2, FS_Subset, FS_CardinalityType
<1>3. \A i \in at : Cardinality(below(i)) \in 1 .. Cardinality(at)
  <2>1. TAKE i \in at
  <2>2. i \in below(i)
    OBVIOUS
  <2>3. Cardinality(below(i)) # 0
    BY <1>2, <2>2, FS_EmptySet
  <2> QED
    BY <1>1, <1>2, <2>3
<1>4. \A i, j \in at : i < j => Cardinality(below(i)) # Cardinality(below(j))
  <2>1. SUFFICES ASSUME NEW i \in at, NEW j \in at, i < j, Cardinality(below(i)) = Cardinality(below(j))
                 PROVE  FALSE
    OBVIOUS
  <2>2. i \in Int /\ j \in Int
    OBVIOUS
  <2>3. below(i) \in SUBSET below(j)
    <3>1. \A k \in at : k <= i => k <= j
      BY <2>1, <2>2
    <3> QED
      BY <3>1
  <2>4. below(i) = below(j)
    BY <1>2, <2>1, <2>3, FS_Subset
  <2>5. j \in below(j) /\ j \notin below(i)
    BY <2>1, <2>2
  <2> QED
    BY <2>4, <2>5
<1>5. \A i, j \in at : Cardinality(below(i)) = Cardinality(below(j)) => i = j
  <2>1. SUFFICES ASSUME NEW i \in at, NEW j \in at, Cardinality(below(i)) = Cardinality(below(j)), i # j
                 PROVE  FALSE
    OBVIOUS
  <2>2. i < j \/ j < i
    BY <2>1
  <2> HIDE DEF below
  <2> QED
    BY <1>4, <2>1, <2>2
<1>6. rank \in Injection(at, 1 .. Cardinality(at))
  <2>1. rank \in [at -> 1 .. Cardinality(at)]
    BY <1>3
  <2>2. \A i, j \in at : rank[i] = rank[j] => i = j
    BY <1>5
  <2> HIDE DEF rank
  <2> QED
    BY <2>1, <2>2 DEF Injection, IsInjective
<1>7. IsFiniteSet(1 .. Cardinality(at)) /\ Cardinality(1 .. Cardinality(at)) = Cardinality(at)
  <2>1. 1 \in Int /\ Cardinality(at) \in Int
    BY <1>1
  <2> QED
    BY <1>1, <2>1, FS_Interval
<1>8. rank \in Surjection(at, 1 .. Cardinality(at))
  BY <1>6, <1>7, FS_Injection
<1>9. \A n \in 1 .. Cardinality(at) : \E i \in at : rank[i] = n
  BY <1>8 DEF Surjection
<1> QED
  BY <1>1, <1>3, <1>5, <1>9

\* A selection has exactly the selected members, and repeats none.
LEMMA WithinIs ==
  ASSUME NEW T, NEW s \in Seq(T), NEW S
  PROVE  /\ Within(s, S) \in Seq(T)
         /\ Elems(Within(s, S)) = Elems(s) \cap S
         /\ NoRepeats(s) => NoRepeats(Within(s, S))
<1> DEFINE at == {i \in 1 .. Len(s) : s[i] \in S}
           rank(i) == Cardinality({k \in at : k <= i})
           pos(n) == CHOOSE i \in at : rank(i) = n
           w == [n \in 1 .. Cardinality(at) |-> s[pos(n)]]
<1>1. Within(s, S) = w
  BY DEF Within
<1>2. Len(s) \in Nat /\ at \in SUBSET (1 .. Len(s))
  OBVIOUS
<1>3. /\ Cardinality(at) \in Nat
      /\ \A i \in at : rank(i) \in 1 .. Cardinality(at)
      /\ \A i, j \in at : rank(i) = rank(j) => i = j
      /\ \A n \in 1 .. Cardinality(at) : \E i \in at : rank(i) = n
  <2> HIDE DEF at
  <2> QED
    BY <1>2, RankOnto
<1>4. \A n \in 1 .. Cardinality(at) : pos(n) \in at /\ rank(pos(n)) = n
  <2> HIDE DEF at, rank
  <2> QED
    BY <1>3
<1>5. \A i \in at : pos(rank(i)) = i
  <2> HIDE DEF at, rank, pos
  <2> QED
    BY <1>3, <1>4
<1>6. \A i \in at : i \in 1 .. Len(s) /\ s[i] \in S /\ s[i] \in T
  OBVIOUS
<1> HIDE DEF at, rank, pos
<1>7. w \in Seq(T) /\ Len(w) = Cardinality(at)
  BY <1>3, <1>4, <1>6
<1>8. Elems(w) \subseteq Elems(s) \cap S
  BY <1>4, <1>6, <1>7 DEF Elems
<1>9. Elems(s) \cap S \subseteq Elems(w)
  <2>1. SUFFICES ASSUME NEW x \in Elems(s) \cap S
                 PROVE  x \in Elems(w)
    OBVIOUS
  <2>2. PICK i \in 1 .. Len(s) : x = s[i]
    BY DEF Elems
  <2>3. i \in at
    BY <2>1, <2>2 DEF at
  <2>4. rank(i) \in 1 .. Len(w) /\ w[rank(i)] = x
    BY <1>3, <1>5, <1>7, <2>2, <2>3
  <2> QED
    BY <2>4 DEF Elems
<1>10. NoRepeats(s) => NoRepeats(w)
  <2>1. SUFFICES ASSUME NoRepeats(s), NEW m \in 1 .. Cardinality(at), NEW n \in 1 .. Cardinality(at), s[pos(m)] = s[pos(n)]
                 PROVE  m = n
    BY <1>7 DEF NoRepeats
  <2>2. pos(m) = pos(n)
    BY <1>4, <1>6, <2>1 DEF NoRepeats
  <2> QED
    BY <1>4, <2>2
<1> QED
  BY <1>1, <1>7, <1>8, <1>9, <1>10

LEMMA ConcatElems ==
  ASSUME NEW T, NEW s \in Seq(T), NEW t \in Seq(T)
  PROVE  /\ s \o t \in Seq(T)
         /\ Elems(s \o t) = Elems(s) \cup Elems(t)
         /\ NoRepeats(s) /\ NoRepeats(t) /\ Elems(s) \cap Elems(t) = {} => NoRepeats(s \o t)
<1>1. /\ s \o t \in Seq(T) /\ Len(s \o t) = Len(s) + Len(t) /\ Len(s) \in Nat /\ Len(t) \in Nat
      /\ \A i \in 1 .. Len(s) + Len(t) : (s \o t)[i] = IF i <= Len(s) THEN s[i] ELSE t[i - Len(s)]
  OBVIOUS
<1> DEFINE u == s \o t
<1> HIDE DEF u
<1>2. Elems(u) \subseteq Elems(s) \cup Elems(t)
  <2>1. SUFFICES ASSUME NEW i \in 1 .. Len(s) + Len(t)
                 PROVE  u[i] \in Elems(s) \cup Elems(t)
    BY <1>1 DEF Elems, u
  <2>2. CASE i <= Len(s)
    BY <1>1, <2>2 DEF Elems, u
  <2>3. CASE i > Len(s)
    <3>1. i - Len(s) \in 1 .. Len(t) /\ u[i] = t[i - Len(s)]
      BY <1>1, <2>3 DEF u
    <3> QED
      BY <3>1 DEF Elems
  <2> QED
    BY <1>1, <2>2, <2>3
<1>3. Elems(s) \subseteq Elems(u)
  <2>1. \A i \in 1 .. Len(s) : i \in 1 .. Len(u) /\ u[i] = s[i]
    BY <1>1 DEF u
  <2> QED
    BY <2>1 DEF Elems
<1>4. Elems(t) \subseteq Elems(u)
  <2>1. \A i \in 1 .. Len(t) : i + Len(s) \in 1 .. Len(u) /\ u[i + Len(s)] = t[i]
    BY <1>1 DEF u
  <2> QED
    BY <2>1 DEF Elems
<1>5. ASSUME NoRepeats(s), NoRepeats(t), Elems(s) \cap Elems(t) = {}
      PROVE  NoRepeats(u)
  <2>1. SUFFICES ASSUME NEW i \in 1 .. Len(s) + Len(t), NEW k \in 1 .. Len(s) + Len(t), u[i] = u[k]
                 PROVE  i = k
    BY <1>1 DEF NoRepeats, u
  <2>2. \A x \in 1 .. Len(s) + Len(t) :
          \/ x <= Len(s) /\ x \in 1 .. Len(s) /\ u[x] = s[x] /\ u[x] \in Elems(s)
          \/ x > Len(s) /\ x - Len(s) \in 1 .. Len(t) /\ u[x] = t[x - Len(s)] /\ u[x] \in Elems(t)
    <3>1. SUFFICES ASSUME NEW x \in 1 .. Len(s) + Len(t)
                   PROVE  \/ x <= Len(s) /\ x \in 1 .. Len(s) /\ u[x] = s[x] /\ u[x] \in Elems(s)
                          \/ x > Len(s) /\ x - Len(s) \in 1 .. Len(t) /\ u[x] = t[x - Len(s)] /\ u[x] \in Elems(t)
      OBVIOUS
    <3>2. CASE x <= Len(s)
      BY <1>1, <3>2 DEF Elems, u
    <3>3. CASE x > Len(s)
      <4>1. x - Len(s) \in 1 .. Len(t) /\ u[x] = t[x - Len(s)]
        BY <1>1, <3>3 DEF u
      <4> QED
        BY <3>3, <4>1 DEF Elems
    <3> QED
      BY <1>1, <3>2, <3>3
  <2>3. CASE i <= Len(s) /\ k <= Len(s)
    BY <1>1, <1>5, <2>1, <2>2, <2>3 DEF NoRepeats
  <2>4. CASE i > Len(s) /\ k > Len(s)
    <3>1. i - Len(s) = k - Len(s)
      BY <1>1, <1>5, <2>1, <2>2, <2>4 DEF NoRepeats
    <3> QED
      BY <1>1, <3>1
  <2>5. ~(i <= Len(s) /\ k > Len(s)) /\ ~(k <= Len(s) /\ i > Len(s))
    <3>1. \A x \in 1 .. Len(s) + Len(t) : ~(x <= Len(s) /\ x > Len(s))
      BY <1>1
    <3> QED
      BY <1>5, <2>1, <2>2, <3>1
  <2> QED
    BY <1>1, <2>3, <2>4, <2>5
<1> QED
  BY <1>1, <1>2, <1>3, <1>4, <1>5 DEF u

LEMMA AppendElems ==
  ASSUME NEW T, NEW s \in Seq(T), NEW x \in T
  PROVE  /\ Append(s, x) \in Seq(T)
         /\ Elems(Append(s, x)) = Elems(s) \cup {x}
         /\ NoRepeats(s) /\ x \notin Elems(s) => NoRepeats(Append(s, x))
<1>1. /\ Append(s, x) \in Seq(T) /\ Len(s) \in Nat /\ Len(Append(s, x)) = Len(s) + 1
      /\ \A i \in 1 .. Len(s) : Append(s, x)[i] = s[i]
      /\ Append(s, x)[Len(s) + 1] = x
  OBVIOUS
<1> DEFINE u == Append(s, x)
<1>2. \A i \in 1 .. Len(u) : i \in 1 .. Len(s) \/ i = Len(s) + 1
  BY <1>1
<1>3. 1 .. Len(s) \subseteq 1 .. Len(u) /\ Len(s) + 1 \in 1 .. Len(u)
  BY <1>1
<1> HIDE DEF u
<1>4. Elems(u) = Elems(s) \cup {x}
  BY <1>1, <1>2, <1>3 DEF Elems, u
<1>5. ASSUME NoRepeats(s), x \notin Elems(s) PROVE NoRepeats(u)
  BY <1>1, <1>2, <1>5 DEF NoRepeats, Elems, u
<1> QED
  BY <1>1, <1>4, <1>5 DEF u

LEMMA TailElems ==
  ASSUME NEW T, NEW s \in Seq(T), s # <<>>
  PROVE  /\ Tail(s) \in Seq(T) /\ Head(s) \in Elems(s) /\ Head(s) \in T
         /\ Elems(s) = {Head(s)} \cup Elems(Tail(s))
         /\ NoRepeats(s) => NoRepeats(Tail(s)) /\ Head(s) \notin Elems(Tail(s))
         /\ Len(s) = 1 <=> Tail(s) = <<>>
<1>1. /\ Tail(s) \in Seq(T) /\ Len(s) \in Nat /\ Len(s) > 0 /\ Len(Tail(s)) = Len(s) - 1 /\ Head(s) = s[1]
      /\ \A i \in 1 .. Len(s) - 1 : Tail(s)[i] = s[i + 1]
  OBVIOUS
<1> DEFINE u == Tail(s)
<1>2. \A i \in 1 .. Len(u) : i + 1 \in 1 .. Len(s) /\ u[i] = s[i + 1] /\ i + 1 # 1
  BY <1>1
<1>3. \A i \in 1 .. Len(s) : i = 1 \/ (i - 1 \in 1 .. Len(u) /\ u[i - 1] = s[i])
  BY <1>1
<1>4. 1 \in 1 .. Len(s)
  BY <1>1
<1>5. Len(s) = 1 <=> u = <<>>
  BY <1>1
<1> HIDE DEF u
<1>6. Elems(s) = {s[1]} \cup Elems(u)
  <2>1. Elems(s) \subseteq {s[1]} \cup Elems(u)
    BY <1>3 DEF Elems
  <2>2. s[1] \in Elems(s)
    BY <1>4 DEF Elems
  <2>3. Elems(u) \subseteq Elems(s)
    BY <1>2 DEF Elems
  <2> QED
    BY <2>1, <2>2, <2>3
<1>7. ASSUME NoRepeats(s) PROVE NoRepeats(u) /\ s[1] \notin Elems(u)
  <2>1. ASSUME NEW i \in 1 .. Len(u), NEW k \in 1 .. Len(u), u[i] = u[k]
        PROVE  i = k
    <3>1. i + 1 = k + 1
      BY <1>2, <1>7, <2>1 DEF NoRepeats
    <3> QED
      BY <3>1
  <2>2. s[1] \notin Elems(u)
    BY <1>2, <1>4, <1>7 DEF NoRepeats, Elems
  <2> QED
    BY <2>1, <2>2 DEF NoRepeats
<1> QED
  BY <1>1, <1>4, <1>5, <1>6, <1>7 DEF u

LEMMA ShortElems ==
  /\ Elems(<<>>) = {} /\ NoRepeats(<<>>)
  /\ \A x : Elems(<<x>>) = {x}
<1>1. \A i : i \notin 1 .. Len(<<>>)
  OBVIOUS
<1>2. Elems(<<>>) = {}
  BY <1>1 DEF Elems
<1>3. NoRepeats(<<>>)
  BY <1>1 DEF NoRepeats
<1>4. \A x : Len(<<x>>) = 1 /\ <<x>>[1] = x
  OBVIOUS
<1>5. \A x : Elems(<<x>>) = {x}
  <2>1. 1 .. 1 = {1}
    OBVIOUS
  <2> QED
    BY <1>4, <2>1 DEF Elems
<1> QED
  BY <1>2, <1>3, <1>5

LEMMA ElemsIn ==
  ASSUME NEW T, NEW s \in Seq(T)
  PROVE  Elems(s) \subseteq T
  BY DEF Elems

-----------------------------------------------------------------------------
(* Steps that leave the registry alone *)

LEMMA NoCallIs ==
  /\ NoCall \in ThreadRecords
  /\ \A born : \A a \in Threads : ThreadOK(a, NoCall, born)
  /\ NoCall.pc = "idle" /\ NoCall.tell = <<>> /\ NoCall.todo = <<>> /\ NoCall.victim = 0
<1>1. <<>> \in Seq(Ids) /\ 0 \in 0 .. MaxStarts
  BY BackgroundAssumption
<1>2. NoCall \in ThreadRecords
  BY <1>1 DEF NoCall, ThreadRecords
<1>3. /\ NoCall.pc = "idle" /\ NoCall.tell = <<>> /\ NoCall.todo = <<>> /\ NoCall.victim = 0
      /\ NoCall.op = "none"
  BY DEF NoCall
<1>4. \A a \in Threads : a # Monitor
  BY BackgroundAssumption
<1> QED
  BY <1>2, <1>3, <1>4, ShortElems DEF ThreadOK

\* What most steps do to the children: end one, let it write, or nothing.
JobsKept ==
  \A j \in Ids :
    /\ jobs'[j].dir = jobs[j].dir /\ jobs'[j].tail = jobs[j].tail /\ jobs'[j].raced = jobs[j].raced
    /\ jobs'[j].child = jobs[j].child \/ (jobs[j].child # "none" /\ jobs'[j].child = "exited")
    /\ jobs'[j].out => jobs[j].out \/ ChildRuns(j)

\* What most steps do to the threads: no job is claimed or registered, and no call is made once
\* the session is over.
StartsKept ==
  \A a \in Threads :
    \/ th'[a].pc = th[a].pc /\ th'[a].job = th[a].job
    \/ /\ th[a].pc \notin {"spawn", "register"} /\ th'[a].pc \notin {"spawn", "register"}
       /\ main.pc = "up" \/ th[a].pc # "idle"

LEMMA SameRegistry ==
  ASSUME RegistryInv, JobsKept, StartsKept, UNCHANGED <<procs, done, counter, hears, main>>,
         jobs' \in [Ids -> JobRecords]
  PROVE  /\ \A j \in Ids : Claimed(j)' <=> Claimed(j)
         /\ Born \subseteq Born'
         /\ StartsOK' /\ RegistryOK' /\ SlotsOK' /\ EndOK' /\ OutputKept' /\ NothingLeft'
<1>1. \A a \in Threads : Starting(a)' <=> Starting(a)
  BY DEF StartsKept, Starting
<1>2. \A a \in Threads : Starting(a) => th'[a].pc = th[a].pc /\ th'[a].job = th[a].job
  BY DEF StartsKept, Starting
<1>3. \A j \in Ids : Claimed(j)' <=> Claimed(j)
  BY <1>1, <1>2 DEF Claimed
<1>4. \A j \in Ids : /\ jobs'[j].child = "none" <=> jobs[j].child = "none"
                     /\ ChildRuns(j)' => ChildRuns(j)
                     /\ jobs[j].child = "exited" => jobs'[j].child = "exited"
  BY DEF JobsKept, ChildRuns
<1>5. Born \subseteq Born'
  BY <1>3, <1>4 DEF Born
<1>6. StartsOK'
  <2>1. \A j \in Ids : j > counter' => jobs'[j].child = "none" /\ ~jobs'[j].dir /\ ~Claimed(j)'
    BY <1>3, <1>4 DEF RegistryInv, StartsOK, JobsKept
  <2>2. \A j \in Ids : jobs'[j].child = "none" => jobs'[j].tail = "none"
    BY <1>4 DEF RegistryInv, StartsOK, JobsKept
  <2>3. \A a, b \in Threads : Starting(a)' /\ Starting(b)' /\ th'[a].job = th'[b].job => a = b
    BY <1>1, <1>2 DEF RegistryInv, StartsOK
  <2>4. \A a \in Threads : Starting(a)' =>
          /\ th'[a].job \in Ids /\ jobs'[th'[a].job].tail = "none"
          /\ IF th'[a].pc = "spawn" THEN jobs'[th'[a].job].child = "none" /\ ~jobs'[th'[a].job].dir
             ELSE jobs'[th'[a].job].child # "none" /\ jobs'[th'[a].job].dir
    BY <1>1, <1>2, <1>4 DEF RegistryInv, StartsOK, JobsKept
  <2> QED
    BY <2>1, <2>2, <2>3, <2>4 DEF StartsOK
<1>7. RegistryOK'
  <2>0. RegistryOK /\ JobsTypeOK
    BY DEF RegistryInv
  <2>1. Elems(procs) \subseteq Ids
    BY <2>0, ElemsIn DEF JobsTypeOK
  <2>2. /\ (NoRepeats(procs) /\ NoRepeats(done))'
        /\ Elems(procs') \subseteq Born'
    BY <1>5, <2>0 DEF RegistryOK
  <2>3. \A j \in Ids : jobs'[j].tail # "none" => jobs'[j].child = "exited" /\ ~jobs'[j].dir
    BY <1>4, <2>0 DEF RegistryOK, JobsKept
  <2>4. \A j \in Elems(procs') : jobs'[j].tail # "none" <=> j \in Elems(done')
    BY <2>0, <2>1 DEF RegistryOK, JobsKept
  <2>5. \A j \in Ids : ChildRuns(j)' \/ (jobs'[j].dir /\ jobs'[j].child # "none") => j \in Elems(procs') \/ Claimed(j)'
    BY <1>3, <1>4, <2>0 DEF RegistryOK, JobsKept
  <2>6. main'.pc = "up" => \A j \in Elems(procs') : jobs'[j].tail = "none" => jobs'[j].dir
    BY <2>0, <2>1 DEF RegistryOK, JobsKept
  <2> QED
    BY <2>2, <2>3, <2>4, <2>5, <2>6 DEF RegistryOK
<1>8. SlotsOK'
  <2> DEFINE S == {j \in Ids : (ChildRuns(j) \/ Claimed(j)) /\ ~jobs[j].raced}
             S1 == {j \in Ids : (ChildRuns(j)' \/ Claimed(j)') /\ ~jobs'[j].raced}
  <2>1. IsFiniteSet(S)
    BY BackgroundAssumption, FS_Interval, FS_Subset DEF Ids
  <2>2. S1 \in SUBSET S
    BY <1>3, <1>4 DEF JobsKept
  <2>3. Cardinality(S1) <= Cardinality(S) /\ Cardinality(S) \in Nat /\ Cardinality(S1) \in Nat
    BY <2>1, <2>2, FS_Subset, FS_CardinalityType
  <2>4. Cardinality(S) <= MaxConcurrent
    BY DEF RegistryInv, SlotsOK
  <2>5. Cardinality(S1) <= MaxConcurrent
    BY <2>3, <2>4, BackgroundAssumption
  <2> QED
    BY <2>5 DEF SlotsOK
<1>9. EndOK'
  <2>0. EndOK
    BY DEF RegistryInv
  <2>1. main'.last => main'.pc \in {"join", "kill", "gone"} /\ \A a \in Threads : th'[a].pc = "idle"
    BY <2>0 DEF EndOK, StartsKept
  <2>2. Elems(main'.todo) \subseteq Born'
    BY <1>5, <2>0 DEF EndOK
  <2>3. main'.last /\ main'.pc = "kill" =>
          \A j \in Ids : ChildRuns(j)' \/ (jobs'[j].dir /\ jobs'[j].child # "none") => j \in Elems(main'.todo)
    BY <1>4, <2>0 DEF EndOK, JobsKept
  <2> QED
    BY <2>0, <2>1, <2>2, <2>3 DEF EndOK
<1>10. OutputKept'
  <2>0. RegistryOK /\ JobsTypeOK /\ OutputKept
    BY DEF RegistryInv
  <2>1. Elems(procs) \subseteq Ids
    BY <2>0, ElemsIn DEF JobsTypeOK
  <2>2. SUFFICES ASSUME main.pc = "up", NEW j \in Elems(procs), jobs'[j].out
                 PROVE  jobs'[j].dir \/ jobs'[j].tail = "output"
    BY DEF OutputKept
  <2>3. CASE jobs[j].out
    BY <2>0, <2>1, <2>2, <2>3 DEF OutputKept, JobsKept
  <2>4. CASE ChildRuns(j)
    BY <2>0, <2>1, <2>2, <2>4 DEF RegistryOK, ChildRuns, JobsKept
  <2> QED
    BY <2>1, <2>2, <2>3, <2>4 DEF JobsKept
<1>11. NothingLeft'
  BY <1>4 DEF RegistryInv, NothingLeft, JobsKept
<1> QED
  BY <1>3, <1>5, <1>6, <1>7, <1>8, <1>9, <1>10, <1>11

LEMMA ThreadOKGrows ==
  ASSUME NEW a, NEW r, NEW B, NEW C, B \subseteq C, ThreadOK(a, r, B)
  PROVE  ThreadOK(a, r, C)
  BY DEF ThreadOK

LEMMA ThreadMoves ==
  ASSUME RegistryInv, NEW a \in Actors, NEW r \in ThreadRecords, th' = [th EXCEPT ![a] = r],
         ThreadOK(a, r, Born'), Born \subseteq Born'
  PROVE  /\ th' \in [Actors -> ThreadRecords] /\ ThreadsOK'
         /\ th'[a] = r /\ \A b \in Actors : b # a => th'[b] = th[b]
<1>1. /\ th' \in [Actors -> ThreadRecords]
      /\ th'[a] = r /\ \A b \in Actors : b # a => th'[b] = th[b]
  BY DEF RegistryInv, JobsTypeOK
<1>2. \A b \in Actors : ThreadOK(b, th[b], Born')
  BY ThreadOKGrows DEF RegistryInv, ThreadsOK
<1>3. ThreadsOK'
  BY <1>1, <1>2 DEF ThreadsOK
<1> QED
  BY <1>1, <1>3

LEMMA SameTell ==
  ASSUME RegistryInv, hears' = hears,
         \A j \in Ids : jobs'[j].told = jobs[j].told /\ jobs'[j].tail = jobs[j].tail,
         \A a \in Actors : th'[a].tell = th[a].tell
  PROVE  TellOK'
<1>1. \A a \in Actors : Elems(th[a].tell) \subseteq Ids
  BY ElemsIn DEF RegistryInv, JobsTypeOK, ThreadRecords
<1>2. TellOK
  BY DEF RegistryInv
<1>3. \A a \in Actors : \A j \in Elems(th'[a].tell) : jobs'[j].tail # "none" /\ jobs'[j].told = 0
  BY <1>1, <1>2 DEF TellOK
<1>4. \A j \in Ids : jobs'[j].tail # "none" =>
        jobs'[j].told = 1 \/ ~hears' \/ \E a \in Actors : j \in Elems(th'[a].tell)
  BY <1>2 DEF TellOK
<1> QED
  BY <1>2, <1>3, <1>4 DEF TellOK

\* A thread goes on inside its call, or makes one: nothing is claimed, reaped or announced.
LEMMA ThreadOnly ==
  ASSUME RegistryInv, NEW a \in Actors, NEW r \in ThreadRecords, th' = [th EXCEPT ![a] = r],
         jobs' \in [Ids -> JobRecords], JobsKept, \A j \in Ids : jobs'[j].told = jobs[j].told,
         UNCHANGED <<procs, done, counter, stop, hears, main>>, extras' \in 0 .. MaxExtras,
         th[a].pc \notin {"spawn", "register"}, r.pc \notin {"spawn", "register"},
         a \in Threads => main.pc = "up" \/ th[a].pc # "idle",
         r.tell = th[a].tell, ThreadOK(a, r, Born)
  PROVE  RegistryInv'
<1>1. th'[a] = r /\ \A b \in Actors : b # a => th'[b] = th[b]
  BY DEF RegistryInv, JobsTypeOK
<1>2. StartsKept
  BY <1>1 DEF StartsKept, Actors
<1>3. /\ Born \subseteq Born'
      /\ StartsOK' /\ RegistryOK' /\ SlotsOK' /\ EndOK' /\ OutputKept' /\ NothingLeft'
  BY <1>2, SameRegistry
<1>4. ThreadOK(a, r, Born')
  BY <1>3, ThreadOKGrows
<1>5. th' \in [Actors -> ThreadRecords] /\ ThreadsOK'
  BY <1>3, <1>4, ThreadMoves
<1>6. TellOK'
  BY <1>1, SameTell DEF JobsKept
<1>7. JobsTypeOK'
  BY <1>5 DEF RegistryInv, JobsTypeOK
<1> QED
  BY <1>3, <1>5, <1>6, <1>7 DEF RegistryInv

LEMMA ChildOnly ==
  ASSUME RegistryInv, jobs' \in [Ids -> JobRecords], JobsKept, \A j \in Ids : jobs'[j].told = jobs[j].told,
         UNCHANGED <<procs, done, counter, th, stop, hears, main>>, extras' \in 0 .. MaxExtras
  PROVE  RegistryInv'
<1>1. StartsKept
  BY DEF StartsKept
<1>2. /\ Born \subseteq Born'
      /\ StartsOK' /\ RegistryOK' /\ SlotsOK' /\ EndOK' /\ OutputKept' /\ NothingLeft'
  BY <1>1, SameRegistry
<1>3. ThreadsOK'
  <2>1. \A a \in Actors : ThreadOK(a, th[a], Born')
    BY <1>2, ThreadOKGrows DEF RegistryInv, ThreadsOK
  <2> QED
    BY <2>1 DEF ThreadsOK
<1>4. TellOK'
  BY SameTell DEF JobsKept
<1>5. JobsTypeOK'
  BY DEF RegistryInv, JobsTypeOK
<1> QED
  BY <1>2, <1>3, <1>4, <1>5 DEF RegistryInv

\* One more of the bounded events.
LEMMA ExtrasGrow ==
  ASSUME RegistryInv, extras < MaxExtras
  PROVE  extras + 1 \in 0 .. MaxExtras
  BY BackgroundAssumption DEF RegistryInv, JobsTypeOK

-----------------------------------------------------------------------------
(* The steps, one by one *)

LEMMA ChildSteps ==
  ASSUME RegistryInv, NEW j \in Ids, ChildStep(j)
  PROVE  RegistryInv'
<1>0. jobs \in [Ids -> JobRecords] /\ extras \in 0 .. MaxExtras
  BY DEF RegistryInv, JobsTypeOK
<1>1. CASE JobWrites(j)
  <2>1. jobs' \in [Ids -> JobRecords] /\ \A k \in Ids : jobs'[k].told = jobs[k].told
    BY <1>0, <1>1 DEF JobWrites, JobRecords
  <2>2. JobsKept
    BY <1>0, <1>1 DEF JobWrites, JobRecords, JobsKept
  <2> QED
    BY <1>1, <2>1, <2>2, ChildOnly, ExtrasGrow DEF JobWrites
<1>2. CASE JobExits(j)
  <2>1. jobs' \in [Ids -> JobRecords] /\ \A k \in Ids : jobs'[k].told = jobs[k].told
    BY <1>0, <1>2 DEF JobExits, JobRecords
  <2>2. JobsKept
    BY <1>0, <1>2 DEF JobExits, JobRecords, JobsKept, ChildRuns
  <2> QED
    BY <1>0, <1>2, <2>1, <2>2, ChildOnly DEF JobExits
<1>3. CASE JobExpires(j)
  <2>1. jobs' \in [Ids -> JobRecords] /\ \A k \in Ids : jobs'[k].told = jobs[k].told
    BY <1>0, <1>3 DEF JobExpires, JobRecords
  <2>2. JobsKept
    BY <1>0, <1>3 DEF JobExpires, JobRecords, JobsKept
  <2> QED
    BY <1>3, <2>1, <2>2, ChildOnly, ExtrasGrow DEF JobExpires
<1>4. CASE RecordAges(j)
  <2>1. jobs' \in [Ids -> JobRecords] /\ \A k \in Ids : jobs'[k].told = jobs[k].told
    BY <1>0, <1>4 DEF RecordAges, JobRecords
  <2>2. JobsKept
    BY <1>0, <1>4 DEF RecordAges, JobRecords, JobsKept
  <2> QED
    BY <1>4, <2>1, <2>2, ChildOnly, ExtrasGrow DEF RecordAges
<1> QED
  BY <1>1, <1>2, <1>3, <1>4 DEF ChildStep

\* What is known of a thread: its record is typed, and a thread at its ease has nothing in hand.
LEMMA ThreadIs ==
  ASSUME RegistryInv, NEW a \in Actors
  PROVE  /\ th[a] \in ThreadRecords /\ ThreadOK(a, th[a], Born)
         /\ Born \subseteq Ids /\ 0 \notin Ids /\ Ids \subseteq 0 .. MaxStarts
         /\ jobs \in [Ids -> JobRecords]
         /\ a \in Threads <=> a # Monitor
<1>1. a \in Threads <=> a # Monitor
  BY BackgroundAssumption DEF Actors
<1>2. 0 \notin Ids /\ Ids \subseteq 0 .. MaxStarts
  BY BackgroundAssumption DEF Ids
<1> QED
  BY <1>1, <1>2 DEF RegistryInv, JobsTypeOK, ThreadsOK, Born

LEMMA SameJobs ==
  ASSUME RegistryInv, UNCHANGED jobs
  PROVE  /\ jobs' \in [Ids -> JobRecords] /\ JobsKept
         /\ \A j \in Ids : jobs'[j].told = jobs[j].told /\ jobs'[j].tail = jobs[j].tail
  BY DEF RegistryInv, JobsTypeOK, JobsKept

LEMMA NotifyStep ==
  ASSUME RegistryInv, NEW a \in Actors, Notify(a), hears
  PROVE  RegistryInv'
<1> DEFINE r == [th[a] EXCEPT !.pc = "tell"]
<1>1. th[a] \in ThreadRecords /\ ThreadOK(a, th[a], Born) /\ th \in [Actors -> ThreadRecords]
  BY ThreadIs DEF RegistryInv, JobsTypeOK
<1>2. th' = [th EXCEPT ![a] = r]
  BY <1>1 DEF Notify, ThreadRecords
<1>3. r \in ThreadRecords /\ r.pc = "tell" /\ r.tell = th[a].tell
  BY <1>1 DEF ThreadRecords
<1>4. ThreadOK(a, r, Born)
  BY <1>1 DEF ThreadOK, ThreadRecords, Notify
<1>5. /\ UNCHANGED <<jobs, procs, done, counter, stop, hears, main, extras>> /\ th[a].pc = "notify"
  BY DEF Notify
<1>6. extras' \in 0 .. MaxExtras
  BY <1>5 DEF RegistryInv, JobsTypeOK
<1> HIDE DEF r
<1> QED
  BY <1>2, <1>3, <1>4, <1>5, <1>6, SameJobs, ThreadOnly

LEMMA OnwardIs ==
  ASSUME RegistryInv, NEW a \in Actors,
         NEW pc \in {"idle", "wait", "prune", "look", "read"}, th[a].tell = <<>>, th[a].victim = 0,
         a = Monitor => (pc = "wait" \/ (pc = "prune" /\ th[a].op = "sweep")), a # Monitor => pc # "wait"
  PROVE  /\ Onward(a, pc) \in ThreadRecords /\ ThreadOK(a, Onward(a, pc), Born)
         /\ Onward(a, pc).pc = pc /\ Onward(a, pc).tell = <<>>
<1>1. th[a] \in ThreadRecords /\ ThreadOK(a, th[a], Born) /\ (a \in Threads <=> a # Monitor)
  BY ThreadIs
<1>2. CASE pc = "idle"
  <2>1. Onward(a, pc) = NoCall
    BY <1>2 DEF Onward
  <2> QED
    BY <1>1, <1>2, <2>1, NoCallIs
<1>3. CASE pc = "wait"
  <2>1. Onward(a, pc) = [NoCall EXCEPT !.pc = "wait"]
    BY <1>3 DEF Onward
  <2> DEFINE r == [NoCall EXCEPT !.pc = "wait"]
  <2>2. r \in ThreadRecords /\ r.pc = "wait" /\ r.tell = <<>> /\ r.todo = <<>> /\ r.victim = 0 /\ r.op = "none"
    BY NoCallIs DEF ThreadRecords, NoCall
  <2>3. ThreadOK(a, r, Born)
    BY <1>3, <2>2, ShortElems DEF ThreadOK
  <2> QED
    BY <1>3, <2>1, <2>2, <2>3
<1>4. CASE pc \in {"prune", "look", "read"}
  <2> DEFINE r == [th[a] EXCEPT !.pc = pc]
  <2>1. Onward(a, pc) = r
    BY <1>4 DEF Onward
  <2>2. r \in ThreadRecords /\ r.pc = pc /\ r.tell = <<>>
    BY <1>1, <1>4 DEF ThreadRecords
  <2>3. ThreadOK(a, r, Born)
    BY <1>1, <1>4 DEF ThreadOK, ThreadRecords
  <2> QED
    BY <2>1, <2>2, <2>3
<1> QED
  BY <1>2, <1>3, <1>4

LEMMA GotoOnly ==
  ASSUME RegistryInv, NEW a \in Actors,
         NEW pc \in {"idle", "wait", "prune", "look", "read"}, Goto(a, pc), th[a].tell = <<>>, th[a].victim = 0,
         a = Monitor => (pc = "wait" \/ (pc = "prune" /\ th[a].op = "sweep")), a # Monitor => pc # "wait",
         th[a].pc \in {"limits", "look", "read"},
         UNCHANGED <<jobs, procs, done, counter, stop, hears, main, extras>>
  PROVE  RegistryInv'
<1> DEFINE r == Onward(a, pc)
<1>1. r \in ThreadRecords /\ ThreadOK(a, r, Born) /\ r.pc = pc /\ r.tell = <<>>
  BY OnwardIs
<1>2. th' = [th EXCEPT ![a] = r]
  BY DEF Goto
<1>3. extras' \in 0 .. MaxExtras
  BY DEF RegistryInv, JobsTypeOK
<1> HIDE DEF r
<1> QED
  BY <1>1, <1>2, <1>3, SameJobs, ThreadOnly

LEMMA CheckLimitsStep ==
  ASSUME RegistryInv, NEW a \in Actors, CheckLimits(a)
  PROVE  RegistryInv'
<1>0. /\ th[a].pc = "limits" /\ th[a].victim = 0
      /\ UNCHANGED <<jobs, procs, done, counter, stop, hears, main, extras>>
  BY DEF CheckLimits
<1>1. /\ th[a] \in ThreadRecords /\ ThreadOK(a, th[a], Born) /\ th \in [Actors -> ThreadRecords]
      /\ extras \in 0 .. MaxExtras
  BY ThreadIs DEF RegistryInv, JobsTypeOK
<1>2. th[a].tell = <<>>
  BY <1>0, <1>1 DEF ThreadOK
<1>3. CASE th[a].todo = <<>>
  <2>1. Goto(a, AfterLimits(a))
    BY <1>3 DEF CheckLimits
  <2>2. /\ AfterLimits(a) \in {"idle", "wait", "prune", "look", "read"}
        /\ a = Monitor => AfterLimits(a) = "wait"
        /\ a # Monitor => AfterLimits(a) # "wait"
    BY <1>0, <1>1 DEF AfterLimits, ThreadOK
  <2> QED
    BY <1>0, <1>2, <2>1, <2>2, GotoOnly
<1>4. CASE th[a].todo # <<>> /\ OverLimit(Head(th[a].todo))
  <2> DEFINE r == [th[a] EXCEPT !.pc = "over"]
  <2>1. th' = [th EXCEPT ![a] = r]
    BY <1>1, <1>4 DEF CheckLimits, ThreadRecords
  <2>2. /\ r \in ThreadRecords /\ r.pc = "over" /\ r.tell = th[a].tell /\ r.todo = th[a].todo
        /\ r.op = th[a].op /\ r.victim = 0
    BY <1>0, <1>1 DEF ThreadRecords
  <2> HIDE DEF r
  <2>3. ThreadOK(a, r, Born)
    BY <1>0, <1>1, <1>2, <1>4, <2>2 DEF ThreadOK
  <2> QED
    BY <1>0, <1>1, <2>1, <2>2, <2>3, SameJobs, ThreadOnly
<1>5. CASE th[a].todo # <<>> /\ ~OverLimit(Head(th[a].todo))
  <2> DEFINE r == [th[a] EXCEPT !.todo = Tail(th[a].todo)]
  <2>1. /\ th[a].todo \in Seq(Ids) /\ Tail(th[a].todo) \in Seq(Ids)
        /\ Elems(Tail(th[a].todo)) \subseteq Born
    <3>1. th[a].todo \in Seq(Ids)
      BY <1>1 DEF ThreadRecords
    <3> QED
      BY <1>1, <1>5, <3>1, TailElems DEF ThreadOK
  <2>2. th' = [th EXCEPT ![a] = r]
    BY <1>1, <1>5 DEF CheckLimits, ThreadRecords
  <2>3. /\ r \in ThreadRecords /\ r.pc = "limits" /\ r.tell = th[a].tell /\ r.todo = Tail(th[a].todo)
        /\ r.op = th[a].op /\ r.victim = 0
    BY <1>0, <1>1, <2>1 DEF ThreadRecords
  <2> HIDE DEF r
  <2>4. ThreadOK(a, r, Born)
    BY <1>0, <1>1, <2>1, <2>3 DEF ThreadOK
  <2> QED
    BY <1>0, <1>1, <2>2, <2>3, <2>4, SameJobs, ThreadOnly
<1> QED
  BY <1>3, <1>4, <1>5

LEMMA CondemnStep ==
  ASSUME RegistryInv, NEW a \in Actors, Condemn(a)
  PROVE  RegistryInv'
<1>1. /\ th[a] \in ThreadRecords /\ ThreadOK(a, th[a], Born) /\ th \in [Actors -> ThreadRecords]
      /\ jobs \in [Ids -> JobRecords] /\ Born \subseteq Ids /\ 0 \notin Ids /\ Ids \subseteq 0 .. MaxStarts
      /\ extras \in 0 .. MaxExtras
  BY ThreadIs DEF RegistryInv, JobsTypeOK
<1>2. th[a].pc = "over" /\ UNCHANGED <<procs, done, counter, stop, hears, main, extras>>
  BY DEF Condemn
<1>3. th[a].tell = <<>> /\ th[a].todo # <<>> /\ th[a].victim = 0
  BY <1>1, <1>2 DEF ThreadOK
<1> DEFINE j == Head(th[a].todo)
           r == [th[a] EXCEPT !.pc = "limits", !.todo = Tail(th[a].todo), !.victim = j]
<1>4. /\ th[a].todo \in Seq(Ids) /\ Tail(th[a].todo) \in Seq(Ids) /\ j \in Born
      /\ Elems(Tail(th[a].todo)) \subseteq Born
  <2>1. th[a].todo \in Seq(Ids)
    BY <1>1 DEF ThreadRecords
  <2> QED
    BY <1>1, <1>3, <2>1, TailElems DEF ThreadOK
<1>5. jobs' = [jobs EXCEPT ![j].killed = TRUE] /\ th' = [th EXCEPT ![a] = r]
  BY <1>1 DEF Condemn, ThreadRecords
<1> HIDE DEF j
<1>6. /\ r \in ThreadRecords /\ r.pc = "limits" /\ r.tell = th[a].tell /\ r.todo = Tail(th[a].todo)
      /\ r.op = th[a].op /\ r.victim = j
  BY <1>1, <1>4 DEF ThreadRecords
<1> HIDE DEF r
<1>7. ThreadOK(a, r, Born)
  BY <1>1, <1>2, <1>3, <1>4, <1>6 DEF ThreadOK
<1>8. jobs' \in [Ids -> JobRecords] /\ \A k \in Ids : jobs'[k].told = jobs[k].told
  BY <1>1, <1>4, <1>5 DEF JobRecords
<1>9. JobsKept
  BY <1>1, <1>4, <1>5 DEF JobRecords, JobsKept
<1> QED
  BY <1>1, <1>2, <1>5, <1>6, <1>7, <1>8, <1>9, ThreadOnly

LEMMA TerminateStep ==
  ASSUME RegistryInv, NEW a \in Actors, Terminate(a)
  PROVE  RegistryInv'
<1>1. /\ th[a] \in ThreadRecords /\ ThreadOK(a, th[a], Born) /\ th \in [Actors -> ThreadRecords]
      /\ jobs \in [Ids -> JobRecords] /\ Born \subseteq Ids /\ extras \in 0 .. MaxExtras
  BY ThreadIs DEF RegistryInv, JobsTypeOK
<1> DEFINE j == th[a].victim
           r == [th[a] EXCEPT !.victim = 0]
<1>2. /\ jobs' = [jobs EXCEPT ![j] = Dead(j)] /\ th' = [th EXCEPT ![a].victim = 0] /\ j # 0
      /\ UNCHANGED <<procs, done, counter, stop, hears, main, extras>>
  BY DEF Terminate
<1>3. j \in Born /\ th[a].pc = "limits"
  BY <1>1, <1>2 DEF ThreadOK
<1>4. th' = [th EXCEPT ![a] = r]
  BY <1>1, <1>2 DEF ThreadRecords
<1>5. r \in ThreadRecords /\ r.pc = "limits" /\ r.tell = th[a].tell
  <2>1. 0 \in 0 .. MaxStarts
    BY BackgroundAssumption
  <2> QED
    BY <1>1, <1>3, <2>1 DEF ThreadRecords
<1>6. ThreadOK(a, r, Born)
  <2>1. r.todo = th[a].todo /\ r.op = th[a].op /\ r.victim = 0
    BY <1>1 DEF ThreadRecords
  <2> HIDE DEF r
  <2> QED
    BY <1>1, <1>3, <1>5, <2>1 DEF ThreadOK
<1> HIDE DEF r
<1>7. jobs[j].child # "none"
  BY <1>3 DEF Born
<1> HIDE DEF j
<1>8. jobs' \in [Ids -> JobRecords] /\ \A k \in Ids : jobs'[k].told = jobs[k].told
  BY <1>1, <1>2, <1>3 DEF JobRecords, Dead
<1>9. JobsKept
  BY <1>1, <1>2, <1>3, <1>7 DEF JobRecords, JobsKept, Dead
<1> QED
  BY <1>1, <1>2, <1>3, <1>4, <1>5, <1>6, <1>8, <1>9, ThreadOnly

LEMMA LookSteps ==
  ASSUME RegistryInv, NEW a \in Threads, LookForTail(a) \/ ReadLog(a)
  PROVE  RegistryInv'
<1>0. a \in Actors
  BY DEF Actors
<1>1. ThreadOK(a, th[a], Born) /\ a # Monitor
  BY <1>0, ThreadIs
<1>2. th[a].pc \in {"look", "read"} /\ UNCHANGED <<jobs, procs, done, counter, stop, hears, main, extras>>
  BY DEF LookForTail, ReadLog
<1>3. th[a].tell = <<>> /\ th[a].victim = 0
  BY <1>1, <1>2 DEF ThreadOK
<1>4. \E pc \in {"idle", "read"} : Goto(a, pc)
  <2>1. (IF jobs[th[a].job].tail = "none" THEN "read" ELSE "idle") \in {"idle", "read"}
    OBVIOUS
  <2> QED
    BY <2>1 DEF LookForTail, ReadLog
<1> QED
  BY <1>0, <1>1, <1>2, <1>3, <1>4, GotoOnly

LEMMA MonitorWakesStep ==
  ASSUME RegistryInv, MonitorWakes
  PROVE  RegistryInv'
<1> DEFINE r == [NoCall EXCEPT !.op = "sweep", !.pc = IF stop THEN "dead" ELSE "prune"]
<1>0. Monitor \in Actors /\ Monitor \notin Threads
  BY BackgroundAssumption DEF Actors
<1>1. ThreadOK(Monitor, th[Monitor], Born) /\ extras \in 0 .. MaxExtras
  BY <1>0, ThreadIs DEF RegistryInv, JobsTypeOK
<1>2. /\ th[Monitor].pc = "wait" /\ th' = [th EXCEPT ![Monitor] = r]
      /\ UNCHANGED <<jobs, procs, done, counter, stop, hears, main, extras>>
  BY DEF MonitorWakes
<1>3. th[Monitor].tell = <<>>
  BY <1>1, <1>2 DEF ThreadOK
<1>4. /\ r \in ThreadRecords /\ r.pc \in {"dead", "prune"} /\ r.tell = <<>> /\ r.todo = <<>> /\ r.victim = 0
      /\ r.op = "sweep"
  BY NoCallIs DEF ThreadRecords, NoCall
<1> HIDE DEF r
<1>5. ThreadOK(Monitor, r, Born)
  BY <1>4, ShortElems DEF ThreadOK
<1> QED
  BY <1>0, <1>1, <1>2, <1>3, <1>4, <1>5, SameJobs, ThreadOnly

\* A call of a tool: it begins with the lifetimes or with a sweep, on jobs that are registered.
LEMMA CallMade ==
  ASSUME RegistryInv, NEW a \in Threads, NEW r \in ThreadRecords, Called(a, r),
         UNCHANGED <<jobs, procs, done, counter, stop, hears, main>>, extras' \in 0 .. MaxExtras,
         r.pc \in {"limits", "prune"}, r.tell = <<>>, r.op # "sweep", Elems(r.todo) \subseteq Elems(procs),
         r.victim # 0 => r.pc = "limits" /\ r.victim \in Elems(procs)
  PROVE  RegistryInv'
<1>0. a \in Actors
  BY DEF Actors
<1>1. ThreadOK(a, th[a], Born) /\ a # Monitor
  BY <1>0, ThreadIs
<1>2. main.pc = "up" /\ th[a].pc = "idle" /\ th' = [th EXCEPT ![a] = r]
  BY DEF Called
<1>3. th[a].tell = <<>>
  BY <1>1, <1>2 DEF ThreadOK
<1>4. Elems(procs) \subseteq Born
  BY DEF RegistryInv, RegistryOK
<1>5. ThreadOK(a, r, Born)
  BY <1>1, <1>4, ShortElems DEF ThreadOK
<1> QED
  BY <1>0, <1>2, <1>3, <1>5, SameJobs, ThreadOnly

LEMMA CallSteps ==
  ASSUME RegistryInv, NEW a \in Threads, ToolCalls(a)
  PROVE  RegistryInv'
<1>0. procs \in Seq(Ids) /\ extras \in 0 .. MaxExtras /\ Ids \subseteq 0 .. MaxStarts /\ Elems(procs) \subseteq Ids
  <2>1. procs \in Seq(Ids) /\ extras \in 0 .. MaxExtras
    BY DEF RegistryInv, JobsTypeOK
  <2> QED
    BY <2>1, BackgroundAssumption, ElemsIn DEF Ids
<1>1. CASE StartJob(a)
  <2> DEFINE r == [NoCall EXCEPT !.op = "start", !.pc = "limits", !.todo = procs]
  <2>1. /\ r \in ThreadRecords /\ r.pc = "limits" /\ r.tell = <<>> /\ r.op = "start" /\ r.todo = procs
        /\ r.victim = 0
    BY <1>0, NoCallIs DEF ThreadRecords, NoCall
  <2>2. Called(a, r) /\ UNCHANGED <<jobs, procs, done, counter, stop, hears, main, extras>>
    BY <1>1 DEF StartJob
  <2> HIDE DEF r
  <2> QED
    BY <1>0, <2>1, <2>2, CallMade
<1>2. CASE ListJobs(a)
  <2> DEFINE r == [NoCall EXCEPT !.op = "list", !.pc = "prune"]
  <2>1. /\ r \in ThreadRecords /\ r.pc = "prune" /\ r.tell = <<>> /\ r.op = "list" /\ r.todo = <<>>
        /\ r.victim = 0
    BY <1>0, NoCallIs DEF ThreadRecords, NoCall
  <2>2. /\ Called(a, r) /\ UNCHANGED <<jobs, procs, done, counter, stop, hears, main>>
        /\ extras < MaxExtras /\ extras' = extras + 1
    BY <1>2 DEF ListJobs
  <2> HIDE DEF r
  <2> QED
    BY <2>1, <2>2, CallMade, ExtrasGrow, ShortElems
<1>3. ASSUME NEW j \in Ids, Status(a, j)
      PROVE  RegistryInv'
  <2> DEFINE r == [NoCall EXCEPT !.op = "status", !.pc = "limits", !.todo = <<j>>, !.job = j]
  <2>1. /\ r \in ThreadRecords /\ r.pc = "limits" /\ r.tell = <<>> /\ r.op = "status" /\ r.todo = <<j>>
        /\ r.victim = 0
    <3>1. <<j>> \in Seq(Ids) /\ j \in 0 .. MaxStarts
      BY <1>0
    <3> QED
      BY <3>1, NoCallIs DEF ThreadRecords, NoCall
  <2>2. /\ Called(a, r) /\ UNCHANGED <<jobs, procs, done, counter, stop, hears, main>>
        /\ extras < MaxExtras /\ extras' = extras + 1 /\ j \in Elems(procs)
    BY <1>3 DEF Status
  <2> HIDE DEF r
  <2>3. Elems(r.todo) \subseteq Elems(procs)
    BY <2>1, <2>2, ShortElems
  <2>4. extras' \in 0 .. MaxExtras
    BY <2>2, ExtrasGrow
  <2> QED
    BY <2>1, <2>2, <2>3, <2>4, CallMade
<1>4. ASSUME NEW j \in Ids, Kill(a, j)
      PROVE  RegistryInv'
  <2> DEFINE r == [NoCall EXCEPT !.op = "kill", !.pc = "limits", !.victim = j]
  <2>1. /\ r \in ThreadRecords /\ r.pc = "limits" /\ r.tell = <<>> /\ r.op = "kill" /\ r.todo = <<>>
        /\ r.victim = j
    <3>1. j \in 0 .. MaxStarts
      BY <1>0
    <3> QED
      BY <3>1, NoCallIs DEF ThreadRecords, NoCall
  <2>2. /\ Called(a, r) /\ UNCHANGED <<jobs, procs, done, counter, stop, hears, main>>
        /\ extras < MaxExtras /\ extras' = extras + 1 /\ j \in Elems(procs)
    BY <1>4 DEF Kill
  <2> HIDE DEF r
  <2> QED
    BY <2>1, <2>2, CallMade, ExtrasGrow, ShortElems
<1> QED
  BY <1>1, <1>2, <1>3, <1>4 DEF ToolCalls

-----------------------------------------------------------------------------
(* Starting a job *)

\* The running and claimed jobs that count for the slots.
Slots == {j \in Ids : (ChildRuns(j) \/ Claimed(j)) /\ ~jobs[j].raced}

LEMMA FewerSlots ==
  ASSUME RegistryInv, Slots' \subseteq Slots
  PROVE  SlotsOK'
<1>1. IsFiniteSet(Slots)
  BY BackgroundAssumption, FS_Interval, FS_Subset DEF Ids, Slots
<1>2. Cardinality(Slots') <= Cardinality(Slots) /\ Cardinality(Slots) \in Nat /\ Cardinality(Slots') \in Nat
  BY <1>1, FS_Subset, FS_CardinalityType
<1>3. Cardinality(Slots) <= MaxConcurrent
  BY DEF RegistryInv, SlotsOK, Slots
<1>4. Cardinality(Slots') <= MaxConcurrent
  BY <1>2, <1>3, BackgroundAssumption
<1> QED
  BY <1>4 DEF SlotsOK, Slots

\* The job of a thread in the middle of a start is in no other hands.
LEMMA StartingIs ==
  ASSUME RegistryInv, NEW a \in Threads, Starting(a)
  PROVE  LET j == th[a].job IN
         /\ j \in Ids /\ Claimed(j) /\ j \notin Born /\ j \notin Elems(procs) /\ jobs[j].tail = "none"
         /\ \A b \in Threads : b # a /\ Starting(b) => th[b].job # j
         /\ main.pc # "gone" /\ ~main.last
         /\ th[a].pc = "spawn" => jobs[j].child = "none" /\ ~jobs[j].dir
         /\ th[a].pc = "register" => jobs[j].child # "none" /\ jobs[j].dir
         /\ th[a].tell = <<>> /\ th[a].victim = 0 /\ a # Monitor /\ a \in Actors
<1> DEFINE j == th[a].job
<1>0. a \in Actors /\ a # Monitor
  BY BackgroundAssumption DEF Actors
<1>1. j \in Ids /\ jobs[j].tail = "none" /\ \A b \in Threads : b # a /\ Starting(b) => th[b].job # j
  BY DEF RegistryInv, StartsOK
<1>2. Claimed(j)
  BY DEF Claimed
<1>3. j \notin Born /\ j \notin Elems(procs)
  BY <1>2 DEF Born, RegistryInv, RegistryOK
<1>4. main.pc # "gone" /\ ~main.last
  BY DEF RegistryInv, EndOK, Starting
<1>5. th[a].pc = "spawn" => jobs[j].child = "none" /\ ~jobs[j].dir
  BY <1>1 DEF RegistryInv, StartsOK
<1>6. th[a].pc = "register" => jobs[j].child # "none" /\ jobs[j].dir
  BY <1>1 DEF RegistryInv, StartsOK
<1>7. th[a].tell = <<>> /\ th[a].victim = 0
  BY <1>0 DEF RegistryInv, ThreadsOK, ThreadOK, Starting
<1> QED
  BY <1>0, <1>1, <1>2, <1>3, <1>4, <1>5, <1>6, <1>7

LEMMA SpawnFailsStep ==
  ASSUME RegistryInv, NEW a \in Threads, SpawnFails(a) \/ OpenFails(a)
  PROVE  RegistryInv'
<1> DEFINE j == th[a].job
<1>1. /\ th[a].pc = "spawn" /\ th' = [th EXCEPT ![a] = NoCall]
      /\ UNCHANGED <<procs, done, counter, stop, hears, main, extras>>
      /\ jobs' = jobs \/ jobs' = [jobs EXCEPT ![j].dir = TRUE]
  BY DEF SpawnFails, OpenFails, Goto, Onward
<1>2. Starting(a)
  BY <1>1 DEF Starting
<1>3. /\ j \in Ids /\ Claimed(j) /\ jobs[j].child = "none" /\ ~jobs[j].dir /\ a \in Actors
      /\ \A b \in Threads : b # a /\ Starting(b) => th[b].job # j
      /\ th[a].tell = <<>> /\ ~main.last /\ main.pc # "gone" /\ j \notin Elems(procs)
      /\ jobs[j].tail = "none"
  BY <1>1, <1>2, StartingIs
<1> HIDE DEF j
<1>a. jobs \in [Ids -> JobRecords] /\ Elems(procs) \subseteq Ids
  BY ElemsIn DEF RegistryInv, JobsTypeOK
<1>b. /\ jobs' \in [Ids -> JobRecords] /\ \A k \in Ids : k # j => jobs'[k] = jobs[k]
      /\ \A k \in Ids : /\ jobs'[k].child = jobs[k].child /\ jobs'[k].tail = jobs[k].tail
                        /\ jobs'[k].told = jobs[k].told /\ jobs'[k].raced = jobs[k].raced
                        /\ jobs'[k].out = jobs[k].out
  <2>1. CASE jobs' = jobs
    BY <1>a, <2>1
  <2>2. CASE jobs' = [jobs EXCEPT ![j].dir = TRUE]
    BY <1>3, <1>a, <2>2 DEF JobRecords
  <2> QED
    BY <1>1, <2>1, <2>2
<1>c. j <= counter /\ j \in Int /\ counter \in Int
  <2>1. j \in Int /\ counter \in Int
    BY <1>3 DEF RegistryInv, JobsTypeOK, Ids
  <2> QED
    BY <1>3, <2>1 DEF RegistryInv, StartsOK
<1>4. /\ th'[a] = NoCall /\ \A b \in Actors : b # a => th'[b] = th[b]
  BY <1>1, <1>3 DEF RegistryInv, JobsTypeOK
<1>5. /\ ~Starting(a)' /\ \A b \in Threads : b # a => (Starting(b)' <=> Starting(b)) /\ th'[b] = th[b]
  BY <1>4, NoCallIs DEF Starting, Actors
<1>6. /\ \A k \in Ids : Claimed(k)' => Claimed(k)
      /\ \A k \in Ids : Claimed(k) /\ k # j => Claimed(k)'
  BY <1>5 DEF Claimed, j
<1>7. Born \subseteq Born'
  BY <1>b, <1>6 DEF Born
<1>8. ThreadsOK' /\ th' \in [Actors -> ThreadRecords]
  BY <1>1, <1>3, <1>7, NoCallIs, ThreadMoves
<1>9. StartsOK'
  <2>1. \A k \in Ids : k > counter' => jobs'[k].child = "none" /\ ~jobs'[k].dir /\ ~Claimed(k)'
    BY <1>1, <1>b, <1>c, <1>6 DEF RegistryInv, StartsOK
  <2>2. \A b \in Threads : Starting(b)' => b # a
    BY <1>5
  <2>3. \A b, c \in Threads : Starting(b)' /\ Starting(c)' /\ th'[b].job = th'[c].job => b = c
    BY <1>5, <2>2 DEF RegistryInv, StartsOK
  <2>4. ASSUME NEW b \in Threads, Starting(b)'
        PROVE  /\ th'[b].job \in Ids /\ jobs'[th'[b].job].tail = "none"
               /\ IF th'[b].pc = "spawn" THEN jobs'[th'[b].job].child = "none" /\ ~jobs'[th'[b].job].dir
                  ELSE jobs'[th'[b].job].child # "none" /\ jobs'[th'[b].job].dir
    <3>1. th[b].job # j /\ th'[b] = th[b] /\ Starting(b)
      BY <1>3, <1>5, <2>2, <2>4
    <3> QED
      BY <1>b, <3>1 DEF RegistryInv, StartsOK
  <2>5. \A k \in Ids : jobs'[k].child = "none" => jobs'[k].tail = "none"
    BY <1>b DEF RegistryInv, StartsOK
  <2> QED
    BY <2>1, <2>3, <2>4, <2>5 DEF StartsOK
<1>10. RegistryOK'
  <2>1. \A k \in Ids : ChildRuns(k)' \/ (jobs'[k].dir /\ jobs'[k].child # "none") => k \in Elems(procs') \/ Claimed(k)'
    BY <1>1, <1>3, <1>6, <1>b DEF RegistryInv, RegistryOK, ChildRuns
  <2>2. Elems(procs') \subseteq Born'
    BY <1>1, <1>7 DEF RegistryInv, RegistryOK
  <2>3. \A k \in Elems(procs) : jobs'[k] = jobs[k]
    BY <1>3, <1>a, <1>b
  <2>4. \A k \in Ids : jobs'[k].tail # "none" => jobs'[k].child = "exited" /\ ~jobs'[k].dir
    BY <1>3, <1>b DEF RegistryInv, RegistryOK
  <2> QED
    BY <1>1, <2>1, <2>2, <2>3, <2>4 DEF RegistryInv, RegistryOK
<1>11. TellOK'
  <2>1. \A b \in Actors : th'[b].tell = th[b].tell
    BY <1>3, <1>4, NoCallIs
  <2> QED
    BY <1>1, <1>b, <2>1, SameTell
<1>12. SlotsOK'
  <2>1. Slots' \subseteq Slots
    BY <1>b, <1>6 DEF Slots, ChildRuns
  <2> QED
    BY <2>1, FewerSlots
<1>13. EndOK'
  <2>1. Elems(main'.todo) \subseteq Born'
    BY <1>1, <1>7 DEF RegistryInv, EndOK
  <2> QED
    BY <1>1, <1>3, <2>1 DEF RegistryInv, EndOK, ChildRuns
<1>14. OutputKept' /\ NothingLeft'
  <2>1. \A k \in Elems(procs) : jobs'[k] = jobs[k]
    BY <1>3, <1>a, <1>b
  <2> QED
    BY <1>1, <1>3, <2>1 DEF RegistryInv, OutputKept, NothingLeft
<1>15. JobsTypeOK'
  BY <1>1, <1>b, <1>8 DEF RegistryInv, JobsTypeOK
<1> QED
  BY <1>8, <1>9, <1>10, <1>11, <1>12, <1>13, <1>14, <1>15 DEF RegistryInv

LEMMA SpawnStep ==
  ASSUME RegistryInv, NEW a \in Threads, Spawn(a)
  PROVE  RegistryInv'
<1> DEFINE j == th[a].job
           r == [th[a] EXCEPT !.pc = "register"]
<1>1. /\ th[a].pc = "spawn" /\ th' = [th EXCEPT ![a] = r]
      /\ jobs' = [jobs EXCEPT ![j].child = "running", ![j].dir = TRUE]
      /\ UNCHANGED <<procs, done, counter, stop, hears, main, extras>>
  BY DEF Spawn, Goto, Onward
<1>2. Starting(a)
  BY <1>1 DEF Starting
<1>3. /\ j \in Ids /\ Claimed(j) /\ jobs[j].child = "none" /\ ~jobs[j].dir /\ a \in Actors /\ a # Monitor
      /\ \A b \in Threads : b # a /\ Starting(b) => th[b].job # j
      /\ th[a].tell = <<>> /\ th[a].victim = 0 /\ ~main.last /\ main.pc # "gone" /\ j \notin Elems(procs)
      /\ jobs[j].tail = "none" /\ j \notin Born
  BY <1>1, <1>2, StartingIs
<1>4. /\ th[a] \in ThreadRecords /\ ThreadOK(a, th[a], Born)
      /\ jobs \in [Ids -> JobRecords] /\ Elems(procs) \subseteq Ids
  BY <1>3, ThreadIs, ElemsIn DEF RegistryInv, JobsTypeOK
<1>5. r \in ThreadRecords /\ r.pc = "register" /\ r.job = j /\ r.tell = <<>> /\ r.todo = th[a].todo
      /\ r.victim = 0 /\ r.op = th[a].op
  BY <1>3, <1>4 DEF ThreadRecords
<1> HIDE DEF j, r
<1>6. /\ th'[a] = r /\ \A b \in Actors : b # a => th'[b] = th[b]
  BY <1>1, <1>3 DEF RegistryInv, JobsTypeOK
<1>7. \A b \in Threads : /\ Starting(b)' <=> Starting(b)
                         /\ th'[b].job = th[b].job /\ th'[b].tell = th[b].tell
                         /\ b # a => th'[b] = th[b]
  BY <1>2, <1>3, <1>5, <1>6 DEF Starting, Actors, j
<1>8. \A k \in Ids : Claimed(k)' <=> Claimed(k)
  BY <1>7 DEF Claimed
<1>9. /\ jobs' \in [Ids -> JobRecords] /\ \A k \in Ids : k # j => jobs'[k] = jobs[k]
      /\ jobs'[j].child = "running" /\ jobs'[j].dir /\ jobs'[j].tail = jobs[j].tail
      /\ jobs'[j].told = jobs[j].told /\ jobs'[j].raced = jobs[j].raced /\ jobs'[j].out = jobs[j].out
  BY <1>1, <1>3, <1>4 DEF JobRecords
<1>10. Born \subseteq Born'
  BY <1>8, <1>9 DEF Born
<1>11. ThreadOK(a, r, Born')
  BY <1>3, <1>4, <1>5, <1>10, ShortElems DEF ThreadOK
<1>12. ThreadsOK' /\ th' \in [Actors -> ThreadRecords]
  BY <1>1, <1>3, <1>5, <1>10, <1>11, ThreadMoves
<1>13. StartsOK'
  <2>0. j <= counter
    BY <1>3 DEF RegistryInv, StartsOK, JobsTypeOK, Ids
  <2>1. \A k \in Ids : k > counter' => jobs'[k].child = "none" /\ ~jobs'[k].dir /\ ~Claimed(k)'
    BY <1>1, <1>3, <1>8, <1>9 DEF RegistryInv, StartsOK
  <2>2. \A k \in Ids : jobs'[k].child = "none" => jobs'[k].tail = "none"
    BY <1>9 DEF RegistryInv, StartsOK
  <2>3. \A b, c \in Threads : Starting(b)' /\ Starting(c)' /\ th'[b].job = th'[c].job => b = c
    BY <1>7 DEF RegistryInv, StartsOK
  <2>4. ASSUME NEW b \in Threads, Starting(b)'
        PROVE  /\ th'[b].job \in Ids /\ jobs'[th'[b].job].tail = "none"
               /\ IF th'[b].pc = "spawn" THEN jobs'[th'[b].job].child = "none" /\ ~jobs'[th'[b].job].dir
                  ELSE jobs'[th'[b].job].child # "none" /\ jobs'[th'[b].job].dir
    <3>1. CASE b = a
      BY <1>3, <1>5, <1>6, <1>9, <3>1
    <3>2. CASE b # a
      <4>1. th[b].job # j /\ th'[b] = th[b] /\ Starting(b)
        BY <1>3, <1>7, <2>4, <3>2
      <4> QED
        BY <1>9, <4>1 DEF RegistryInv, StartsOK
    <3> QED
      BY <3>1, <3>2
  <2> QED
    BY <2>1, <2>2, <2>3, <2>4 DEF StartsOK
<1>14. RegistryOK'
  <2>0. RegistryOK
    BY DEF RegistryInv
  <2>1. \A k \in Ids : ChildRuns(k)' \/ (jobs'[k].dir /\ jobs'[k].child # "none") => k \in Elems(procs') \/ Claimed(k)'
    BY <1>1, <1>3, <1>8, <1>9, <2>0 DEF RegistryOK, ChildRuns
  <2>2. Elems(procs') \subseteq Born'
    BY <1>1, <1>10, <2>0 DEF RegistryOK
  <2>3. \A k \in Elems(procs) : jobs'[k] = jobs[k]
    BY <1>3, <1>4, <1>9
  <2>4. \A k \in Ids : jobs'[k].tail # "none" => jobs'[k].child = "exited" /\ ~jobs'[k].dir
    BY <1>3, <1>9, <2>0 DEF RegistryOK
  <2> QED
    BY <1>1, <2>0, <2>1, <2>2, <2>3, <2>4 DEF RegistryOK
<1>15. TellOK'
  <2>1. \A b \in Actors : th'[b].tell = th[b].tell
    BY <1>3, <1>5, <1>6
  <2>2. \A k \in Ids : jobs'[k].told = jobs[k].told /\ jobs'[k].tail = jobs[k].tail
    BY <1>9
  <2> QED
    BY <1>1, <2>1, <2>2, SameTell
<1>16. SlotsOK'
  <2>1. Slots' \subseteq Slots
    BY <1>3, <1>8, <1>9 DEF Slots, ChildRuns
  <2> QED
    BY <2>1, FewerSlots
<1>17. EndOK'
  <2>1. Elems(main'.todo) \subseteq Born'
    BY <1>1, <1>10 DEF RegistryInv, EndOK
  <2> QED
    BY <1>1, <1>3, <2>1 DEF RegistryInv, EndOK
<1>18. OutputKept' /\ NothingLeft'
  <2>1. \A k \in Elems(procs) : jobs'[k] = jobs[k]
    BY <1>3, <1>4, <1>9
  <2> QED
    BY <1>1, <1>3, <2>1 DEF RegistryInv, OutputKept, NothingLeft
<1>19. JobsTypeOK'
  BY <1>1, <1>9, <1>12 DEF RegistryInv, JobsTypeOK
<1> QED
  BY <1>12, <1>13, <1>14, <1>15, <1>16, <1>17, <1>18, <1>19 DEF RegistryInv

LEMMA RegisterStep ==
  ASSUME RegistryInv, NEW a \in Threads, Register(a)
  PROVE  RegistryInv'
<1> DEFINE j == th[a].job
<1>1. /\ th[a].pc = "register" /\ procs' = Append(procs, j)
      /\ UNCHANGED <<jobs, done, counter, hears, main, extras>>
  BY DEF Register
<1>2. Starting(a)
  BY <1>1 DEF Starting
<1>3. /\ j \in Ids /\ Claimed(j) /\ jobs[j].child # "none" /\ jobs[j].dir /\ a \in Actors /\ a # Monitor
      /\ \A b \in Threads : b # a /\ Starting(b) => th[b].job # j
      /\ th[a].tell = <<>> /\ th[a].victim = 0 /\ ~main.last /\ main.pc # "gone" /\ j \notin Elems(procs)
      /\ jobs[j].tail = "none" /\ j \notin Born
  BY <1>1, <1>2, StartingIs
<1>4. /\ procs \in Seq(Ids) /\ th \in [Actors -> ThreadRecords] /\ Monitor \in Actors
      /\ th[Monitor] \in ThreadRecords /\ ThreadOK(Monitor, th[Monitor], Born) /\ jobs \in [Ids -> JobRecords]
  BY ThreadIs DEF RegistryInv, JobsTypeOK, Actors
<1>5. /\ procs' \in Seq(Ids) /\ Elems(procs') = Elems(procs) \cup {j} /\ NoRepeats(procs')
  BY <1>1, <1>3, <1>4, AppendElems DEF RegistryInv, RegistryOK
<1> DEFINE m == IF th[Monitor].pc = "dead" THEN [th[Monitor] EXCEPT !.pc = "wait"] ELSE th[Monitor]
<1>6. /\ th' \in [Actors -> ThreadRecords] /\ stop' \in BOOLEAN
      /\ th'[a] = NoCall /\ th'[Monitor] = m
      /\ \A b \in Actors : b # a /\ b # Monitor => th'[b] = th[b]
  <2> DEFINE i == [th EXCEPT ![a] = NoCall]
  <2>1. i \in [Actors -> ThreadRecords] /\ i[a] = NoCall /\ \A b \in Actors : b # a => i[b] = th[b]
    BY <1>3, <1>4, NoCallIs
  <2>2. CASE th[Monitor].pc = "dead"
    <3>1. th' = [i EXCEPT ![Monitor].pc = "wait"] /\ stop' = FALSE
      BY <2>2 DEF Register
    <3> HIDE DEF i
    <3>2. th' = [i EXCEPT ![Monitor] = m]
      BY <1>3, <1>4, <2>1, <2>2, <3>1 DEF ThreadRecords
    <3>3. m \in ThreadRecords
      BY <1>4, <2>2 DEF ThreadRecords
    <3> HIDE DEF m
    <3> QED
      BY <1>3, <1>4, <2>1, <3>1, <3>2, <3>3
  <2>3. CASE th[Monitor].pc # "dead"
    <3>1. th' = i /\ UNCHANGED stop
      BY <2>3 DEF Register
    <3>2. stop \in BOOLEAN
      BY DEF RegistryInv, JobsTypeOK
    <3> HIDE DEF i
    <3> QED
      BY <1>3, <1>4, <2>1, <2>3, <3>1, <3>2
  <2> QED
    BY <2>2, <2>3
<1>7. ThreadOK(Monitor, m, Born) /\ m.tell = th[Monitor].tell
  <2>1. CASE th[Monitor].pc = "dead"
    <3>1. m.pc = "wait" /\ m.tell = th[Monitor].tell /\ m.victim = th[Monitor].victim /\ m.todo = th[Monitor].todo
      BY <1>4, <2>1 DEF ThreadRecords
    <3> HIDE DEF m
    <3> QED
      BY <1>4, <2>1, <3>1 DEF ThreadOK
  <2>2. CASE th[Monitor].pc # "dead"
    BY <1>4, <2>2
  <2> QED
    BY <2>1, <2>2
<1> HIDE DEF j, m
<1>8. /\ ~Starting(a)' /\ \A b \in Threads : b # a => (Starting(b)' <=> Starting(b)) /\ th'[b] = th[b]
  <2>1. \A b \in Threads : b \in Actors /\ b # Monitor
    BY BackgroundAssumption DEF Actors
  <2> QED
    BY <1>6, <2>1, NoCallIs DEF Starting
<1>9. /\ \A k \in Ids : Claimed(k)' => Claimed(k)
      /\ \A k \in Ids : Claimed(k) /\ k # j => Claimed(k)'
      /\ \A k \in Ids : k = j => ~Claimed(k)'
  BY <1>3, <1>8 DEF Claimed, j
<1>10. Born \subseteq Born' /\ j \in Born'
  BY <1>1, <1>3, <1>9 DEF Born
<1>11. ThreadsOK'
  <2>1. \A b \in Actors : ThreadOK(b, th'[b], Born)
    <3>1. \A b \in Actors : ThreadOK(b, th[b], Born)
      BY DEF RegistryInv, ThreadsOK
    <3> QED
      BY <1>3, <1>6, <1>7, <3>1, NoCallIs
  <2>2. \A b \in Actors : ThreadOK(b, th'[b], Born')
    BY <1>10, <2>1, ThreadOKGrows
  <2> QED
    BY <2>2 DEF ThreadsOK
<1>12. StartsOK'
  <2>1. \A k \in Ids : k > counter' => jobs'[k].child = "none" /\ ~jobs'[k].dir /\ ~Claimed(k)'
    BY <1>1, <1>9 DEF RegistryInv, StartsOK
  <2>2. \A b \in Threads : Starting(b)' => b # a
    BY <1>8
  <2>3. \A b, c \in Threads : Starting(b)' /\ Starting(c)' /\ th'[b].job = th'[c].job => b = c
    BY <1>8, <2>2 DEF RegistryInv, StartsOK
  <2>4. \A b \in Threads : Starting(b)' =>
          /\ th'[b].job \in Ids /\ jobs'[th'[b].job].tail = "none"
          /\ IF th'[b].pc = "spawn" THEN jobs'[th'[b].job].child = "none" /\ ~jobs'[th'[b].job].dir
             ELSE jobs'[th'[b].job].child # "none" /\ jobs'[th'[b].job].dir
    BY <1>1, <1>8, <2>2 DEF RegistryInv, StartsOK
  <2>5. \A k \in Ids : jobs'[k].child = "none" => jobs'[k].tail = "none"
    BY <1>1 DEF RegistryInv, StartsOK
  <2> QED
    BY <2>1, <2>3, <2>4, <2>5 DEF StartsOK
<1>13. RegistryOK'
  <2>0. RegistryOK /\ Elems(done) \subseteq Elems(procs)
    BY DEF RegistryInv, JobsTypeOK
  <2>1. \A k \in Ids : ChildRuns(k)' \/ (jobs'[k].dir /\ jobs'[k].child # "none") => k \in Elems(procs') \/ Claimed(k)'
    BY <1>1, <1>5, <1>9, <2>0 DEF RegistryOK, ChildRuns
  <2>2. Elems(procs') \subseteq Born'
    BY <1>5, <1>10, <2>0 DEF RegistryOK
  <2>3. \A k \in Elems(procs') : jobs'[k].tail # "none" <=> k \in Elems(done')
    BY <1>1, <1>3, <1>5, <2>0 DEF RegistryOK
  <2>4. main'.pc = "up" => \A k \in Elems(procs') : jobs'[k].tail = "none" => jobs'[k].dir
    BY <1>1, <1>3, <1>5, <2>0 DEF RegistryOK
  <2> QED
    BY <1>1, <1>5, <2>0, <2>1, <2>2, <2>3, <2>4 DEF RegistryOK
<1>14. TellOK'
  <2>1. \A b \in Actors : th'[b].tell = th[b].tell
    BY <1>3, <1>6, <1>7, NoCallIs
  <2> QED
    BY <1>1, <2>1, SameTell
<1>15. SlotsOK'
  <2>1. Slots' \subseteq Slots
    BY <1>1, <1>9 DEF Slots, ChildRuns
  <2> QED
    BY <2>1, FewerSlots
<1>16. EndOK'
  <2>1. Elems(main'.todo) \subseteq Born'
    BY <1>1, <1>10 DEF RegistryInv, EndOK
  <2> QED
    BY <1>1, <1>3, <2>1 DEF RegistryInv, EndOK
<1>17. OutputKept' /\ NothingLeft'
  BY <1>1, <1>3, <1>5 DEF RegistryInv, OutputKept, NothingLeft
<1>18. JobsTypeOK'
  BY <1>1, <1>5, <1>6 DEF RegistryInv, JobsTypeOK
<1> QED
  BY <1>11, <1>12, <1>13, <1>14, <1>15, <1>16, <1>17, <1>18 DEF RegistryInv

LEMMA CountStep ==
  ASSUME RegistryInv, NEW a \in Threads, CountSlots(a)
  PROVE  RegistryInv'
<1>0. a \in Actors /\ th[a].pc = "count" /\ UNCHANGED <<procs, done, stop, hears, main, extras>>
  BY DEF CountSlots, Actors
<1>1. /\ th[a] \in ThreadRecords /\ ThreadOK(a, th[a], Born) /\ a # Monitor /\ jobs \in [Ids -> JobRecords]
      /\ th \in [Actors -> ThreadRecords] /\ extras \in 0 .. MaxExtras /\ counter \in 0 .. MaxStarts
      /\ procs \in Seq(Ids) /\ Elems(procs) \subseteq Ids
  BY <1>0, ThreadIs, ElemsIn DEF RegistryInv, JobsTypeOK
<1>2. th[a].tell = <<>> /\ th[a].victim = 0
  BY <1>0, <1>1 DEF ThreadOK
<1>3. CASE SlotsFull \/ counter = MaxStarts
  <2>1. th' = [th EXCEPT ![a] = NoCall] /\ UNCHANGED <<counter, jobs>>
    BY <1>3 DEF CountSlots, Goto, Onward
  <2> QED
    BY <1>0, <1>1, <1>2, <2>1, NoCallIs, SameJobs, ThreadOnly
<1>4. CASE ~(SlotsFull \/ counter = MaxStarts)
  <2>0. PICK j \in Ids : j = counter + 1
    <3>1. counter + 1 \in Ids
      BY <1>1, <1>4, BackgroundAssumption DEF Ids
    <3> QED
      BY <3>1
  <2> DEFINE other == \E b \in Threads : th[b].pc \in {"spawn", "register"}
             r == [th[a] EXCEPT !.pc = "spawn", !.job = j]
  <2>1. /\ counter' = j /\ th' = [th EXCEPT ![a].pc = "spawn", ![a].job = j]
        /\ jobs' = [jobs EXCEPT ![j].raced = other]
    BY <1>4, <2>0 DEF CountSlots
  <2>2. th' = [th EXCEPT ![a] = r]
    BY <1>0, <1>1, <2>1 DEF ThreadRecords
  <2>3. /\ r \in ThreadRecords /\ r.pc = "spawn" /\ r.job = j /\ r.tell = <<>> /\ r.victim = 0
        /\ r.todo = th[a].todo /\ r.op = th[a].op
    <3>1. j \in 0 .. MaxStarts
      BY BackgroundAssumption DEF Ids
    <3> QED
      BY <1>1, <1>2, <3>1 DEF ThreadRecords
  <2>4. other \in BOOLEAN
    OBVIOUS
  <2>5. other <=> \E b \in Threads : Starting(b)
    BY DEF Starting
  <2> HIDE DEF r, other
  <2>6. /\ jobs' \in [Ids -> JobRecords] /\ \A k \in Ids : k # j => jobs'[k] = jobs[k]
        /\ jobs'[j].child = jobs[j].child /\ jobs'[j].dir = jobs[j].dir /\ jobs'[j].tail = jobs[j].tail
        /\ jobs'[j].told = jobs[j].told /\ jobs'[j].out = jobs[j].out
    BY <1>1, <2>1, <2>4 DEF JobRecords
  <2>7. jobs'[j].raced = other
    BY <1>1, <2>1 DEF JobRecords
  <2>8. jobs[j].child = "none" /\ ~Claimed(j) /\ ~jobs[j].dir /\ jobs[j].tail = "none" /\ j \notin Elems(procs)
    <3>1. j > counter
      BY <1>1, <2>0
    <3>2. jobs[j].child = "none" /\ ~jobs[j].dir /\ ~Claimed(j)
      BY <3>1 DEF RegistryInv, StartsOK
    <3> QED
      BY <3>2 DEF RegistryInv, StartsOK, RegistryOK, Born
  <2>9. th'[a] = r /\ \A b \in Actors : b # a => th'[b] = th[b]
    BY <1>0, <1>1, <2>2
  <2>10. /\ Starting(a)' /\ ~Starting(a)
         /\ \A b \in Threads : b # a => (Starting(b)' <=> Starting(b)) /\ th'[b] = th[b]
    BY <1>0, <2>3, <2>9 DEF Starting, Actors
  <2>11. /\ Claimed(j)' /\ \A k \in Ids : k # j => (Claimed(k)' <=> Claimed(k))
    BY <2>3, <2>9, <2>10 DEF Claimed
  <2>12. Born \subseteq Born'
    BY <2>6, <2>8, <2>11 DEF Born
  <2>13. ThreadOK(a, r, Born')
    BY <1>0, <1>1, <2>3, <2>12, ShortElems DEF ThreadOK
  <2>14. ThreadsOK' /\ th' \in [Actors -> ThreadRecords]
    BY <1>0, <2>2, <2>3, <2>12, <2>13, ThreadMoves
  <2>15. StartsOK'
    <3>1. \A k \in Ids : k > counter' => jobs'[k].child = "none" /\ ~jobs'[k].dir /\ ~Claimed(k)'
      <4>1. \A k \in Ids : k > j => k > counter /\ k # j
        BY <1>1, <2>0 DEF Ids
      <4> QED
        BY <2>1, <2>6, <2>11, <4>1 DEF RegistryInv, StartsOK
    <3>2. \A k \in Ids : jobs'[k].child = "none" => jobs'[k].tail = "none"
      BY <2>6 DEF RegistryInv, StartsOK
    <3>3. \A b \in Threads : b # a /\ Starting(b) => th[b].job # j
      BY <2>8 DEF Claimed
    <3>4. \A b, c \in Threads : Starting(b)' /\ Starting(c)' /\ th'[b].job = th'[c].job => b = c
      BY <2>3, <2>9, <2>10, <3>3 DEF RegistryInv, StartsOK
    <3>5. ASSUME NEW b \in Threads, Starting(b)'
          PROVE  /\ th'[b].job \in Ids /\ jobs'[th'[b].job].tail = "none"
                 /\ IF th'[b].pc = "spawn" THEN jobs'[th'[b].job].child = "none" /\ ~jobs'[th'[b].job].dir
                    ELSE jobs'[th'[b].job].child # "none" /\ jobs'[th'[b].job].dir
      <4>1. CASE b = a
        BY <2>3, <2>6, <2>8, <2>9, <4>1
      <4>2. CASE b # a
        <5>1. th[b].job # j /\ th'[b] = th[b] /\ Starting(b)
          BY <2>10, <3>3, <3>5, <4>2
        <5> QED
          BY <2>6, <5>1 DEF RegistryInv, StartsOK
      <4> QED
        BY <4>1, <4>2
    <3> QED
      BY <3>1, <3>2, <3>4, <3>5 DEF StartsOK
  <2>16. RegistryOK'
    <3>0. RegistryOK
      BY DEF RegistryInv
    <3>1. \A k \in Ids : ChildRuns(k)' \/ (jobs'[k].dir /\ jobs'[k].child # "none") => k \in Elems(procs') \/ Claimed(k)'
      BY <1>0, <2>6, <2>11, <3>0 DEF RegistryOK, ChildRuns
    <3>2. Elems(procs') \subseteq Born'
      BY <1>0, <2>12, <3>0 DEF RegistryOK
    <3>3. \A k \in Elems(procs) : jobs'[k] = jobs[k]
      BY <1>1, <2>6, <2>8
    <3>4. \A k \in Ids : jobs'[k].tail # "none" => jobs'[k].child = "exited" /\ ~jobs'[k].dir
      BY <2>6, <3>0 DEF RegistryOK
    <3> QED
      BY <1>0, <3>0, <3>1, <3>2, <3>3, <3>4 DEF RegistryOK
  <2>17. TellOK'
    <3>1. \A b \in Actors : th'[b].tell = th[b].tell
      BY <1>2, <2>3, <2>9
    <3>2. \A k \in Ids : jobs'[k].told = jobs[k].told /\ jobs'[k].tail = jobs[k].tail
      BY <2>6
    <3> QED
      BY <1>0, <3>1, <3>2, SameTell
  <2>18. SlotsOK'
    <3>1. CASE other
      <4>1. Slots' \subseteq Slots
        BY <2>6, <2>7, <2>11, <3>1 DEF Slots, ChildRuns
      <4> QED
        BY <4>1, FewerSlots
    <3>2. CASE ~other
      <4> DEFINE R == {k \in Elems(procs) : ChildRuns(k)}
      <4>1. \A k \in Ids : ~Claimed(k)
        BY <2>5, <3>2 DEF Claimed
      <4>2. Slots' \subseteq R \cup {j}
        BY <2>6, <2>11, <4>1 DEF Slots, ChildRuns, RegistryInv, RegistryOK
      <4>3. IsFiniteSet(R)
        <5>1. IsFiniteSet(Ids)
          BY BackgroundAssumption, FS_Interval DEF Ids
        <5>2. R \in SUBSET Ids
          BY <1>1
        <5> QED
          BY <5>1, <5>2, FS_Subset
      <4>4. ~(Cardinality(R) >= MaxConcurrent)
        BY <1>4 DEF SlotsFull, Alive
      <4> HIDE DEF R
      <4>5. /\ IsFiniteSet(R \cup {j}) /\ Cardinality(R \cup {j}) <= Cardinality(R) + 1
            /\ Cardinality(R) \in Nat /\ Cardinality(R \cup {j}) \in Nat
        <5>1. IsFiniteSet(R \cup {j}) /\ Cardinality(R) \in Nat
          BY <4>3, FS_AddElement, FS_CardinalityType
        <5>2. Cardinality(R \cup {j}) = IF j \in R THEN Cardinality(R) ELSE Cardinality(R) + 1
          BY <4>3, FS_AddElement
        <5>3. Cardinality(R \cup {j}) \in Nat
          BY <5>1, FS_CardinalityType
        <5> QED
          BY <5>1, <5>2, <5>3
      <4>6. Cardinality(Slots') <= Cardinality(R \cup {j}) /\ Cardinality(Slots') \in Nat
        BY <4>2, <4>5, FS_Subset, FS_CardinalityType
      <4>7. Cardinality(Slots') <= MaxConcurrent
        BY <4>4, <4>5, <4>6, BackgroundAssumption
      <4> QED
        BY <4>7 DEF SlotsOK, Slots
    <3> QED
      BY <3>1, <3>2
  <2>19. EndOK'
    <3>1. Elems(main'.todo) \subseteq Born'
      BY <1>0, <2>12 DEF RegistryInv, EndOK
    <3>2. ~main.last /\ main.pc # "gone"
      BY <1>0 DEF RegistryInv, EndOK
    <3> QED
      BY <1>0, <3>1, <3>2 DEF RegistryInv, EndOK
  <2>20. OutputKept' /\ NothingLeft'
    <3>1. \A k \in Elems(procs) : jobs'[k] = jobs[k]
      BY <1>1, <2>6, <2>8
    <3>2. main.pc # "gone"
      BY <1>0 DEF RegistryInv, EndOK
    <3> QED
      BY <1>0, <3>1, <3>2 DEF RegistryInv, OutputKept, NothingLeft
  <2>21. JobsTypeOK'
    <3>1. counter' \in 0 .. MaxStarts
      BY <2>1, BackgroundAssumption DEF Ids
    <3> QED
      BY <1>0, <2>6, <2>14, <3>1 DEF RegistryInv, JobsTypeOK
  <2> QED
    BY <2>14, <2>15, <2>16, <2>17, <2>18, <2>19, <2>20, <2>21 DEF RegistryInv
<1> QED
  BY <1>3, <1>4

-----------------------------------------------------------------------------
(* Reaping and announcing *)

LEMMA AfterTellIs ==
  ASSUME NEW a \in Actors, ThreadOK(a, th[a], Born), th[a].pc \in {"prune", "notify", "tell"}
  PROVE  /\ AfterTell(a) \in {"count", "limits"}
         /\ a = Monitor => AfterTell(a) = "limits" /\ th[a].op = "sweep"
  BY DEF AfterTell, ThreadOK

LEMMA NotifyNobody ==
  ASSUME RegistryInv, NEW a \in Actors, Notify(a), ~hears
  PROVE  RegistryInv'
<1> DEFINE r == [th[a] EXCEPT !.tell = <<>>, !.pc = AfterTell(a)]
<1>1. /\ th[a] \in ThreadRecords /\ ThreadOK(a, th[a], Born) /\ th \in [Actors -> ThreadRecords]
      /\ th[a].pc = "notify" /\ UNCHANGED <<jobs, procs, done, counter, stop, hears, main, extras>>
  BY ThreadIs DEF RegistryInv, JobsTypeOK, Notify
<1>2. AfterTell(a) \in {"count", "limits"} /\ (a = Monitor => AfterTell(a) = "limits" /\ th[a].op = "sweep")
  BY <1>1, AfterTellIs
<1>3. th' = [th EXCEPT ![a] = r]
  BY <1>1 DEF Notify, ThreadRecords
<1>4. /\ r \in ThreadRecords /\ r.pc = AfterTell(a) /\ r.tell = <<>> /\ r.todo = th[a].todo
      /\ r.victim = th[a].victim /\ r.op = th[a].op
  <2>1. <<>> \in Seq(Ids)
    OBVIOUS
  <2> QED
    BY <1>1, <1>2, <2>1 DEF ThreadRecords
<1> HIDE DEF r
<1>5. ThreadOK(a, r, Born)
  BY <1>1, <1>2, <1>4, ShortElems DEF ThreadOK
<1>6. th'[a] = r /\ \A b \in Actors : b # a => th'[b] = th[b]
  BY <1>1, <1>3
<1>7. StartsKept
  BY <1>1, <1>2, <1>4, <1>6 DEF StartsKept, Actors
<1>8. /\ Born \subseteq Born'
      /\ StartsOK' /\ RegistryOK' /\ SlotsOK' /\ EndOK' /\ OutputKept' /\ NothingLeft'
  BY <1>1, <1>7, SameJobs, SameRegistry
<1>9. ThreadsOK' /\ th' \in [Actors -> ThreadRecords]
  BY <1>3, <1>4, <1>5, <1>8, ThreadOKGrows, ThreadMoves
<1>10. TellOK'
  <2>1. \A b \in Actors : Elems(th'[b].tell) \subseteq Elems(th[b].tell)
    BY <1>4, <1>6, ShortElems
  <2> QED
    BY <1>1, <2>1 DEF RegistryInv, TellOK
<1>11. JobsTypeOK'
  BY <1>1, <1>9 DEF RegistryInv, JobsTypeOK
<1> QED
  BY <1>8, <1>9, <1>10, <1>11 DEF RegistryInv

LEMMA TellStep ==
  ASSUME RegistryInv, NEW a \in Actors, Tell(a)
  PROVE  RegistryInv'
<1>1. /\ th[a] \in ThreadRecords /\ ThreadOK(a, th[a], Born) /\ th \in [Actors -> ThreadRecords]
      /\ jobs \in [Ids -> JobRecords]
      /\ th[a].pc = "tell" /\ UNCHANGED <<procs, done, counter, stop, hears, main, extras>>
  BY ThreadIs DEF RegistryInv, JobsTypeOK, Tell
<1>2. th[a].tell \in Seq(Ids) /\ th[a].tell # <<>> /\ NoRepeats(th[a].tell)
  BY <1>1 DEF ThreadRecords, ThreadOK
<1>3. PICK j \in Ids : j = Head(th[a].tell)
  BY <1>2, TailElems
<1> DEFINE t == Tail(th[a].tell)
           next == IF Len(th[a].tell) = 1 THEN AfterTell(a) ELSE "tell"
           r == [th[a] EXCEPT !.tell = t, !.pc = next]
<1>4. /\ t \in Seq(Ids) /\ NoRepeats(t) /\ Elems(th[a].tell) = {j} \cup Elems(t) /\ j \notin Elems(t)
      /\ Len(th[a].tell) = 1 <=> t = <<>>
  BY <1>2, <1>3, TailElems
<1>5. AfterTell(a) \in {"count", "limits"} /\ (a = Monitor => AfterTell(a) = "limits" /\ th[a].op = "sweep")
  BY <1>1, AfterTellIs
<1>6. /\ next \in {"tell", "count", "limits"} /\ (next = "tell" <=> t # <<>>)
      /\ (a = Monitor => next # "count" /\ th[a].op = "sweep")
  BY <1>4, <1>5
<1>7. jobs' = [jobs EXCEPT ![j].told = @ + 1] /\ th' = [th EXCEPT ![a].tell = t, ![a].pc = next]
  BY <1>3 DEF Tell
<1>8. jobs[j].told = 0 /\ jobs[j].tail # "none"
  BY <1>4 DEF RegistryInv, TellOK
<1> HIDE DEF t, next
<1>9. th' = [th EXCEPT ![a] = r]
  BY <1>1, <1>7 DEF ThreadRecords
<1>10. /\ r \in ThreadRecords /\ r.pc = next /\ r.tell = t /\ r.todo = th[a].todo
       /\ r.victim = th[a].victim /\ r.op = th[a].op
  BY <1>1, <1>4, <1>6 DEF ThreadRecords
<1> HIDE DEF r
<1>11. ThreadOK(a, r, Born)
  BY <1>1, <1>4, <1>6, <1>10 DEF ThreadOK
<1>12. /\ jobs' \in [Ids -> JobRecords] /\ jobs'[j].told = 1 /\ JobsKept
       /\ \A k \in Ids : jobs'[k].tail = jobs[k].tail /\ (k # j => jobs'[k].told = jobs[k].told)
  <2>1. jobs' = [jobs EXCEPT ![j].told = 1]
    BY <1>1, <1>7, <1>8 DEF JobRecords
  <2>2. jobs' \in [Ids -> JobRecords]
    BY <1>1, <2>1 DEF JobRecords
  <2>3. /\ jobs'[j].told = 1 /\ JobsKept
        /\ \A k \in Ids : jobs'[k].tail = jobs[k].tail /\ (k # j => jobs'[k].told = jobs[k].told)
    BY <1>1, <2>1 DEF JobRecords, JobsKept
  <2> QED
    BY <2>2, <2>3
<1>13. th'[a] = r /\ \A b \in Actors : b # a => th'[b] = th[b]
  BY <1>1, <1>9
<1>14. StartsKept
  BY <1>1, <1>6, <1>10, <1>13 DEF StartsKept, Actors
<1>15. /\ Born \subseteq Born'
       /\ StartsOK' /\ RegistryOK' /\ SlotsOK' /\ EndOK' /\ OutputKept' /\ NothingLeft'
  BY <1>1, <1>12, <1>14, SameRegistry
<1>16. ThreadsOK' /\ th' \in [Actors -> ThreadRecords]
  BY <1>9, <1>10, <1>11, <1>15, ThreadOKGrows, ThreadMoves
<1>17. TellOK'
  <2>0. TellOK
    BY DEF RegistryInv
  <2>1. \A b \in Actors : /\ Elems(th'[b].tell) \subseteq Elems(th[b].tell) /\ j \notin Elems(th'[b].tell)
                          /\ Elems(th[b].tell) \subseteq Ids
                          /\ Elems(th[b].tell) \subseteq {j} \cup Elems(th'[b].tell)
    <3>1. TAKE b \in Actors
    <3>2. Elems(th[b].tell) \subseteq Ids
      BY <1>1, ElemsIn DEF ThreadRecords
    <3>3. CASE b = a
      BY <1>4, <1>10, <1>13, <3>2, <3>3
    <3>4. CASE b # a
      <4>1. j \notin Elems(th[b].tell)
        BY <1>4, <2>0, <3>4 DEF TellOK
      <4> QED
        BY <1>13, <3>2, <3>4, <4>1
    <3> QED
      BY <3>3, <3>4
  <2>2. \A k \in Ids : jobs'[k].told = 1 => jobs'[k].tail # "none"
    BY <1>8, <1>12, <2>0 DEF TellOK
  <2>3. \A b \in Actors : \A k \in Elems(th'[b].tell) : jobs'[k].tail # "none" /\ jobs'[k].told = 0
    BY <1>12, <2>0, <2>1 DEF TellOK
  <2>4. \A b, c \in Actors : b # c => Elems(th'[b].tell) \cap Elems(th'[c].tell) = {}
    BY <2>0, <2>1 DEF TellOK
  <2>5. \A k \in Ids : jobs'[k].tail # "none" =>
          jobs'[k].told = 1 \/ ~hears' \/ \E b \in Actors : k \in Elems(th'[b].tell)
    BY <1>1, <1>12, <2>0, <2>1 DEF TellOK
  <2> QED
    BY <2>2, <2>3, <2>4, <2>5 DEF TellOK
<1>18. JobsTypeOK'
  BY <1>1, <1>12, <1>16 DEF RegistryInv, JobsTypeOK
<1> QED
  BY <1>15, <1>16, <1>17, <1>18 DEF RegistryInv

\* A sweep reaps the registered jobs that have exited and are not finished yet, and forgets only
\* finished ones.
LEMMA SweepIs ==
  ASSUME RegistryInv
  PROVE  LET newly == Newly
             fin == done \o newly
             gone == Retired(fin) IN
         /\ newly \in Seq(Ids) /\ NoRepeats(newly)
         /\ Elems(newly) = {k \in Elems(procs) : jobs[k].child = "exited" /\ k \notin Elems(done)}
         /\ gone \subseteq Elems(done) \cup Elems(newly)
         /\ Without(procs, gone) \in Seq(Ids) /\ NoRepeats(Without(procs, gone))
         /\ Elems(Without(procs, gone)) = Elems(procs) \ gone
         /\ Without(fin, gone) \in Seq(Ids) /\ NoRepeats(Without(fin, gone))
         /\ Elems(Without(fin, gone)) = (Elems(done) \cup Elems(newly)) \ gone
<1> DEFINE newly == Newly
           fin == done \o newly
           gone == Retired(fin)
<1>0. /\ procs \in Seq(Ids) /\ done \in Seq(Ids) /\ NoRepeats(procs) /\ NoRepeats(done)
      /\ Elems(procs) \subseteq Ids
  <2>1. procs \in Seq(Ids) /\ done \in Seq(Ids) /\ NoRepeats(procs) /\ NoRepeats(done)
    BY DEF RegistryInv, JobsTypeOK, RegistryOK
  <2> QED
    BY <2>1, ElemsIn
<1>1. /\ newly \in Seq(Ids) /\ NoRepeats(newly)
      /\ Elems(newly) = {k \in Elems(procs) : jobs[k].child = "exited" /\ k \notin Elems(done)}
  <2> DEFINE S == {k \in Ids : jobs[k].child = "exited" /\ k \notin Elems(done)}
  <2>1. newly = Within(procs, S)
    BY DEF Newly
  <2>2. Elems(procs) \cap S = {k \in Elems(procs) : jobs[k].child = "exited" /\ k \notin Elems(done)}
    BY <1>0
  <2> HIDE DEF S, newly
  <2>3. newly \in Seq(Ids) /\ NoRepeats(newly) /\ Elems(newly) = Elems(procs) \cap S
    BY <1>0, <2>1, WithinIs
  <2> QED
    BY <2>2, <2>3
<1> HIDE DEF newly
<1>2. /\ fin \in Seq(Ids) /\ NoRepeats(fin) /\ Elems(fin) = Elems(done) \cup Elems(newly)
  <2>1. Elems(done) \cap Elems(newly) = {}
    BY <1>1
  <2> QED
    BY <1>0, <1>1, <2>1, ConcatElems
<1> HIDE DEF fin
<1>3. gone \subseteq Elems(fin)
  <2>1. Len(fin) \in Nat /\ RetainMax \in Nat
    BY <1>2, BackgroundAssumption
  <2>2. 1 .. Excess(fin) \subseteq 1 .. Len(fin)
    BY <2>1 DEF Excess
  <2> QED
    BY <2>2 DEF Retired, Elems
<1>4. Elems(fin) \subseteq Ids
  BY <1>2, ElemsIn
<1> HIDE DEF gone
<1>5. /\ Without(procs, gone) \in Seq(Ids) /\ NoRepeats(Without(procs, gone))
      /\ Elems(Without(procs, gone)) = Elems(procs) \cap (Ids \ gone)
  BY <1>0, WithinIs DEF Without
<1>6. /\ Without(fin, gone) \in Seq(Ids) /\ NoRepeats(Without(fin, gone))
      /\ Elems(Without(fin, gone)) = Elems(fin) \cap (Ids \ gone)
  BY <1>2, WithinIs DEF Without
<1>7. /\ Elems(Without(procs, gone)) = Elems(procs) \ gone
      /\ Elems(Without(fin, gone)) = (Elems(done) \cup Elems(newly)) \ gone
  BY <1>0, <1>2, <1>4, <1>5, <1>6
<1> QED
  BY <1>1, <1>2, <1>3, <1>5, <1>6, <1>7 DEF newly, fin, gone

LEMMA PruneStep ==
  ASSUME RegistryInv, NEW a \in Actors, Prune(a)
  PROVE  RegistryInv'
<1> DEFINE newly == Newly
           gone == Retired(done \o newly)
           todo == IF th[a].op = "start" THEN <<>> ELSE Without(procs, gone)
           next == IF newly = <<>> THEN AfterTell(a) ELSE "notify"
           r == [th[a] EXCEPT !.tell = newly, !.pc = next, !.todo = todo]
<1>1. /\ th[a] \in ThreadRecords /\ ThreadOK(a, th[a], Born) /\ th \in [Actors -> ThreadRecords]
      /\ jobs \in [Ids -> JobRecords] /\ procs \in Seq(Ids) /\ Elems(procs) \subseteq Ids
      /\ th[a].pc = "prune" /\ UNCHANGED <<counter, stop, hears, main, extras>>
  <2>1. procs \in Seq(Ids) /\ th \in [Actors -> ThreadRecords]
    BY DEF RegistryInv, JobsTypeOK
  <2> QED
    BY <2>1, ThreadIs, ElemsIn DEF Prune
<1>2. /\ newly \in Seq(Ids) /\ NoRepeats(newly)
      /\ Elems(newly) = {k \in Elems(procs) : jobs[k].child = "exited" /\ k \notin Elems(done)}
      /\ gone \subseteq Elems(done) \cup Elems(newly)
      /\ Without(procs, gone) \in Seq(Ids) /\ NoRepeats(Without(procs, gone))
      /\ Elems(Without(procs, gone)) = Elems(procs) \ gone
      /\ Without(done \o newly, gone) \in Seq(Ids) /\ NoRepeats(Without(done \o newly, gone))
      /\ Elems(Without(done \o newly, gone)) = (Elems(done) \cup Elems(newly)) \ gone
  BY SweepIs
<1>3. /\ jobs' = [j \in Ids |-> IF j \in Elems(newly) THEN Reaped(j) ELSE jobs[j]]
      /\ procs' = Without(procs, gone) /\ done' = Without(done \o newly, gone)
      /\ th' = [th EXCEPT ![a].tell = newly, ![a].pc = next, ![a].todo = todo]
  BY DEF Prune
<1>4. /\ procs' \in Seq(Ids) /\ NoRepeats(procs') /\ Elems(procs') = Elems(procs) \ gone
      /\ done' \in Seq(Ids) /\ NoRepeats(done') /\ Elems(done') = (Elems(done) \cup Elems(newly)) \ gone
  BY <1>2, <1>3
<1>5. AfterTell(a) \in {"count", "limits"} /\ (a = Monitor => AfterTell(a) = "limits" /\ th[a].op = "sweep")
  BY <1>1, AfterTellIs
<1>6. /\ next \in {"notify", "count", "limits"} /\ (next = "notify" <=> newly # <<>>)
      /\ (a = Monitor => next # "count" /\ th[a].op = "sweep")
  BY <1>5
<1>7. todo \in Seq(Ids) /\ Elems(todo) \subseteq Elems(procs)
  BY <1>2, ShortElems
<1> HIDE DEF newly, gone, todo, next
<1>8. th' = [th EXCEPT ![a] = r]
  BY <1>1, <1>3 DEF ThreadRecords
<1>9. /\ r \in ThreadRecords /\ r.pc = next /\ r.tell = newly /\ r.todo = todo
      /\ r.victim = th[a].victim /\ r.op = th[a].op
  BY <1>1, <1>2, <1>6, <1>7 DEF ThreadRecords
<1> HIDE DEF r
<1>10. th'[a] = r /\ \A b \in Actors : b # a => th'[b] = th[b]
  BY <1>1, <1>8
<1>11. ThreadOK(a, r, Born)
  <2>1. Elems(todo) \subseteq Born
    BY <1>7 DEF RegistryInv, RegistryOK
  <2> QED
    BY <1>1, <1>2, <1>6, <1>9, <2>1 DEF ThreadOK
<1>12. /\ jobs' \in [Ids -> JobRecords]
       /\ \A k \in Ids : k \notin Elems(newly) => jobs'[k] = jobs[k]
       /\ \A k \in Elems(newly) : /\ jobs'[k].tail = IF jobs[k].out /\ jobs[k].dir THEN "output" ELSE "empty"
                                  /\ ~jobs'[k].dir
       /\ \A k \in Ids : /\ jobs'[k].child = jobs[k].child /\ jobs'[k].raced = jobs[k].raced
                         /\ jobs'[k].told = jobs[k].told /\ jobs'[k].out = jobs[k].out
  <2>1. Elems(newly) \subseteq Ids
    BY <1>1, <1>2
  <2>2. \A k \in Ids : /\ jobs'[k] \in JobRecords
                       /\ k \notin Elems(newly) => jobs'[k] = jobs[k]
                       /\ k \in Elems(newly) =>
                            /\ jobs'[k].tail = IF jobs[k].out /\ jobs[k].dir THEN "output" ELSE "empty"
                            /\ ~jobs'[k].dir
                       /\ jobs'[k].child = jobs[k].child /\ jobs'[k].raced = jobs[k].raced
                       /\ jobs'[k].told = jobs[k].told /\ jobs'[k].out = jobs[k].out
    <3>1. TAKE k \in Ids
    <3>2. CASE k \in Elems(newly)
      <4>1. jobs'[k] = Reaped(k) /\ jobs[k] \in JobRecords
        BY <1>1, <1>3, <3>2
      <4>2. (IF jobs[k].out /\ jobs[k].dir THEN "output" ELSE "empty") \in {"none", "output", "empty"}
        OBVIOUS
      <4> QED
        BY <3>2, <4>1, <4>2 DEF Reaped, JobRecords
    <3>3. CASE k \notin Elems(newly)
      BY <1>1, <1>3, <3>3
    <3> QED
      BY <3>2, <3>3
  <2>3. jobs' \in [Ids -> JobRecords]
    BY <1>3, <2>2
  <2> QED
    BY <2>1, <2>2, <2>3
<1>13. StartsKept
  BY <1>1, <1>6, <1>9, <1>10 DEF StartsKept, Actors
<1>14. /\ \A b \in Threads : Starting(b)' <=> Starting(b)
       /\ \A b \in Threads : Starting(b) => th'[b] = th[b]
  <2>1. \A b \in Threads : b \in Actors
    BY DEF Actors
  <2>2. ~Starting(a) /\ ~Starting(a)'
    BY <1>1, <1>6, <1>9, <1>10 DEF Starting
  <2> QED
    BY <1>10, <2>1, <2>2 DEF Starting
<1>15. \A k \in Ids : Claimed(k)' <=> Claimed(k)
  BY <1>14 DEF Claimed
<1>16. Born' = Born
  BY <1>12, <1>15 DEF Born
<1>17. ThreadsOK' /\ th' \in [Actors -> ThreadRecords]
  BY <1>8, <1>9, <1>11, <1>16, ThreadMoves
<1>18. /\ RegistryOK /\ StartsOK /\ TellOK /\ JobsTypeOK /\ OutputKept
  BY DEF RegistryInv
<1>19. \A k \in Elems(newly) : /\ k \in Ids /\ k \in Elems(procs) /\ jobs[k].child = "exited" /\ k \in Born
                               /\ jobs[k].tail = "none" /\ k \notin Elems(done) /\ ~Claimed(k)
  BY <1>1, <1>2, <1>18 DEF RegistryOK, Born
<1>20. StartsOK'
  <2>1. \A k \in Ids : k > counter' => jobs'[k].child = "none" /\ ~jobs'[k].dir /\ ~Claimed(k)'
    BY <1>1, <1>12, <1>15, <1>18 DEF StartsOK
  <2>2. \A k \in Ids : jobs'[k].child = "none" => jobs'[k].tail = "none"
    BY <1>12, <1>18, <1>19 DEF StartsOK
  <2>3. \A b, c \in Threads : Starting(b)' /\ Starting(c)' /\ th'[b].job = th'[c].job => b = c
    BY <1>14, <1>18 DEF StartsOK
  <2>4. ASSUME NEW b \in Threads, Starting(b)'
        PROVE  /\ th'[b].job \in Ids /\ jobs'[th'[b].job].tail = "none"
               /\ IF th'[b].pc = "spawn" THEN jobs'[th'[b].job].child = "none" /\ ~jobs'[th'[b].job].dir
                  ELSE jobs'[th'[b].job].child # "none" /\ jobs'[th'[b].job].dir
    <3>1. Starting(b) /\ th'[b] = th[b] /\ th[b].job \in Ids
      BY <1>14, <1>18, <2>4 DEF StartsOK
    <3>2. Claimed(th[b].job)
      BY <3>1 DEF Claimed
    <3>3. jobs'[th[b].job] = jobs[th[b].job]
      BY <1>12, <1>19, <3>1, <3>2
    <3> QED
      BY <1>18, <3>1, <3>3 DEF StartsOK
  <2> QED
    BY <2>1, <2>2, <2>3, <2>4 DEF StartsOK
<1>21. \A k \in gone : jobs'[k].child = "exited" /\ ~jobs'[k].dir /\ k \in Ids
  <2>1. \A k \in Elems(done) : k \in Elems(procs) /\ k \in Ids
    BY <1>1, <1>18 DEF JobsTypeOK
  <2>2. \A k \in Elems(done) : jobs[k].child = "exited" /\ ~jobs[k].dir
    BY <1>18, <2>1 DEF RegistryOK
  <2> QED
    BY <1>2, <1>12, <1>19, <2>1, <2>2
<1>22. RegistryOK'
  <2>1. Elems(procs') \subseteq Born'
    BY <1>4, <1>16, <1>18 DEF RegistryOK
  <2>2. \A k \in Ids : jobs'[k].tail # "none" => jobs'[k].child = "exited" /\ ~jobs'[k].dir
    BY <1>12, <1>18, <1>19 DEF RegistryOK
  <2>3. \A k \in Elems(procs') : jobs'[k].tail # "none" <=> k \in Elems(done')
    BY <1>1, <1>4, <1>12, <1>18 DEF RegistryOK
  <2>4. \A k \in Ids : ChildRuns(k)' \/ (jobs'[k].dir /\ jobs'[k].child # "none") => k \in Elems(procs') \/ Claimed(k)'
    <3>1. TAKE k \in Ids
    <3>2. HAVE ChildRuns(k)' \/ (jobs'[k].dir /\ jobs'[k].child # "none")
    <3>3. k \notin gone
      BY <1>21, <3>2 DEF ChildRuns
    <3>4. ChildRuns(k) \/ (jobs[k].dir /\ jobs[k].child # "none")
      <4>1. CASE ChildRuns(k)'
        BY <1>12, <4>1 DEF ChildRuns
      <4>2. CASE jobs'[k].dir /\ jobs'[k].child # "none"
        BY <1>12, <4>2
      <4> QED
        BY <3>2, <4>1, <4>2
    <3> QED
      BY <1>4, <1>15, <1>18, <3>3, <3>4 DEF RegistryOK
  <2>5. main'.pc = "up" => \A k \in Elems(procs') : jobs'[k].tail = "none" => jobs'[k].dir
    BY <1>1, <1>4, <1>12, <1>18 DEF RegistryOK
  <2> QED
    BY <1>4, <2>1, <2>2, <2>3, <2>4, <2>5 DEF RegistryOK
<1>23. TellOK'
  <2>0. th[a].tell = <<>>
    BY <1>1 DEF ThreadOK
  <2>1. \A k \in Ids : jobs[k].tail # "none" => jobs'[k] = jobs[k]
    BY <1>12, <1>19
  <2>2. \A k \in Elems(newly) : jobs[k].told = 0
    <3>1. \A k \in Elems(newly) : jobs[k].told # 1 /\ jobs[k].told \in 0 .. 1
      BY <1>1, <1>18, <1>19 DEF TellOK, JobRecords
    <3> QED
      BY <3>1
  <2>3. \A b \in Actors : Elems(th[b].tell) \subseteq Ids
    BY <1>1, ElemsIn DEF ThreadRecords
  <2>4. \A k \in Ids : jobs'[k].told = 1 => jobs'[k].tail # "none"
    BY <1>12, <1>18, <2>1 DEF TellOK
  <2>5. \A b \in Actors : \A k \in Elems(th'[b].tell) : jobs'[k].tail # "none" /\ jobs'[k].told = 0
    <3>1. TAKE b \in Actors
    <3>2. CASE b = a
      BY <1>9, <1>10, <1>12, <1>19, <2>2, <3>2
    <3>3. CASE b # a
      BY <1>10, <1>12, <1>18, <2>1, <2>3, <3>3 DEF TellOK
    <3> QED
      BY <3>2, <3>3
  <2>6. \A b \in Actors : b # a => Elems(th[b].tell) \cap Elems(newly) = {}
    BY <1>18, <1>19 DEF TellOK
  <2>7. \A b, c \in Actors : b # c => Elems(th'[b].tell) \cap Elems(th'[c].tell) = {}
    BY <1>9, <1>10, <1>18, <2>6 DEF TellOK
  <2>8. \A k \in Ids : jobs'[k].tail # "none" =>
          jobs'[k].told = 1 \/ ~hears' \/ \E b \in Actors : k \in Elems(th'[b].tell)
    <3>1. TAKE k \in Ids
    <3>2. HAVE jobs'[k].tail # "none"
    <3>3. CASE k \in Elems(newly)
      BY <1>9, <1>10, <3>3
    <3>4. CASE k \notin Elems(newly)
      <4>1. jobs'[k] = jobs[k]
        BY <1>12, <3>4
      <4>2. jobs[k].told = 1 \/ ~hears \/ \E b \in Actors : k \in Elems(th[b].tell)
        BY <1>18, <3>2, <4>1 DEF TellOK
      <4>3. \A b \in Actors : k \in Elems(th[b].tell) => b # a
        BY <2>0, ShortElems
      <4> QED
        BY <1>1, <1>10, <4>1, <4>2, <4>3
    <3> QED
      BY <3>3, <3>4
  <2> QED
    BY <2>4, <2>5, <2>7, <2>8 DEF TellOK
<1>24. SlotsOK'
  <2>1. Slots' \subseteq Slots
    BY <1>12, <1>15 DEF Slots, ChildRuns
  <2> QED
    BY <2>1, FewerSlots
<1>25. \A k \in Ids : ChildRuns(k)' \/ (jobs'[k].dir /\ jobs'[k].child # "none") =>
         ChildRuns(k) \/ (jobs[k].dir /\ jobs[k].child # "none")
  BY <1>12 DEF ChildRuns
<1>26. EndOK'
  <2>0. EndOK
    BY DEF RegistryInv
  <2>1. main'.last => main'.pc \in {"join", "kill", "gone"} /\ \A b \in Threads : th'[b].pc = "idle"
    BY <1>1, <1>13, <2>0 DEF EndOK, StartsKept
  <2>2. Elems(main'.todo) \subseteq Born'
    BY <1>1, <1>16, <2>0 DEF EndOK
  <2>3. main'.last /\ main'.pc = "kill" =>
          \A k \in Ids : ChildRuns(k)' \/ (jobs'[k].dir /\ jobs'[k].child # "none") => k \in Elems(main'.todo)
    BY <1>1, <1>25, <2>0 DEF EndOK
  <2> QED
    BY <1>1, <2>0, <2>1, <2>2, <2>3 DEF EndOK
<1>27. OutputKept'
  <2>1. SUFFICES ASSUME main.pc = "up", NEW k \in Elems(procs'), jobs'[k].out
                 PROVE  jobs'[k].dir \/ jobs'[k].tail = "output"
    BY <1>1 DEF OutputKept
  <2>2. k \in Elems(procs) /\ k \in Ids /\ jobs[k].out
    BY <1>1, <1>4, <1>12, <2>1
  <2>3. CASE k \in Elems(newly)
    <3>1. jobs[k].dir
      BY <1>18, <1>19, <2>1, <2>3 DEF RegistryOK
    <3> QED
      BY <1>12, <2>2, <2>3, <3>1
  <2>4. CASE k \notin Elems(newly)
    BY <1>12, <1>18, <2>1, <2>2, <2>4 DEF OutputKept
  <2> QED
    BY <2>3, <2>4
<1>28. NothingLeft'
  <2>1. \A k \in Ids : ChildRuns(k)' \in BOOLEAN /\ jobs'[k].dir \in BOOLEAN
    BY <1>12 DEF JobRecords, ChildRuns
  <2> QED
    BY <1>1, <1>12, <1>25, <2>1 DEF RegistryInv, NothingLeft
<1>29. JobsTypeOK'
  <2>1. Elems(done') \subseteq Elems(procs')
    BY <1>2, <1>4, <1>18 DEF JobsTypeOK
  <2> QED
    BY <1>1, <1>4, <1>12, <1>17, <1>18, <2>1 DEF JobsTypeOK
<1> QED
  BY <1>17, <1>20, <1>22, <1>23, <1>24, <1>26, <1>27, <1>28, <1>29 DEF RegistryInv

-----------------------------------------------------------------------------
(* The end of the session *)

\* The main thread moves on; the registry and the threads stay as they are.
LEMMA MainOnly ==
  ASSUME RegistryInv, UNCHANGED <<jobs, procs, done, counter, th>>, stop' \in BOOLEAN,
         extras' \in 0 .. MaxExtras, hears' \in BOOLEAN, hears' => hears,
         main' \in [pc : {"up", "leaving", "join", "kill", "gone"}, last : BOOLEAN, todo : Seq(Ids)],
         main'.pc # "up", EndOK', NothingLeft'
  PROVE  RegistryInv'
<1>1. \A j \in Ids : Claimed(j)' <=> Claimed(j)
  BY DEF Claimed, Starting
<1>2. Born' = Born
  BY <1>1 DEF Born
<1>3. ThreadsOK'
  BY <1>2 DEF RegistryInv, ThreadsOK
<1>4. StartsOK'
  BY <1>1 DEF RegistryInv, StartsOK, Starting
<1>5. RegistryOK'
  BY <1>1, <1>2 DEF RegistryInv, RegistryOK, ChildRuns
<1>6. TellOK'
  BY DEF RegistryInv, TellOK
<1>7. SlotsOK'
  <2>1. Slots' \subseteq Slots
    BY <1>1 DEF Slots, ChildRuns
  <2> QED
    BY <2>1, FewerSlots
<1>8. JobsTypeOK'
  BY DEF RegistryInv, JobsTypeOK
<1>9. OutputKept'
  BY DEF OutputKept
<1> QED
  BY <1>3, <1>4, <1>5, <1>6, <1>7, <1>8, <1>9 DEF RegistryInv

LEMMA EndSteps ==
  ASSUME RegistryInv, SigTerm \/ Quit \/ AtExit \/ JoinMonitor
  PROVE  RegistryInv'
<1>0. /\ main \in [pc : {"up", "leaving", "join", "kill", "gone"}, last : BOOLEAN, todo : Seq(Ids)]
      /\ EndOK /\ NothingLeft /\ stop \in BOOLEAN /\ hears \in BOOLEAN /\ extras \in 0 .. MaxExtras
      /\ procs \in Seq(Ids) /\ Elems(procs) \subseteq Born
  BY DEF RegistryInv, JobsTypeOK, RegistryOK
<1>1. UNCHANGED <<jobs, procs, done, counter, th>>
  BY DEF SigTerm, Quit, AtExit, JoinMonitor, MainVars
<1>2. Born' = Born
  BY <1>1 DEF Born, Claimed, Starting
<1>3. CASE SigTerm
  <2>1. /\ main.pc = "up" /\ main' = [main EXCEPT !.pc = "join"] /\ stop' = TRUE /\ hears' = hears
        /\ extras < MaxExtras /\ extras' = extras + 1
    BY <1>3 DEF SigTerm, MainVars
  <2>2. main'.pc = "join" /\ main'.last = main.last /\ main'.todo = main.todo
    BY <1>0, <2>1
  <2>3. ~main.last
    BY <1>0, <2>1 DEF EndOK
  <2>4. EndOK'
    BY <1>0, <1>2, <2>2, <2>3 DEF EndOK
  <2>5. NothingLeft'
    BY <2>2 DEF NothingLeft
  <2>6. main' \in [pc : {"up", "leaving", "join", "kill", "gone"}, last : BOOLEAN, todo : Seq(Ids)]
    BY <1>0, <2>1
  <2> QED
    BY <1>0, <1>1, <2>1, <2>2, <2>4, <2>5, <2>6, ExtrasGrow, MainOnly
<1>4. CASE Quit
  <2>1. main.pc = "up" /\ main' = [main EXCEPT !.pc = "leaving"] /\ UNCHANGED <<stop, extras, hears>>
    BY <1>4 DEF Quit, MainVars
  <2>2. main'.pc = "leaving" /\ main'.last = main.last /\ main'.todo = main.todo
    BY <1>0, <2>1
  <2>3. ~main.last
    BY <1>0, <2>1 DEF EndOK
  <2>4. EndOK'
    BY <1>0, <1>2, <2>2, <2>3 DEF EndOK
  <2>5. NothingLeft'
    BY <2>2 DEF NothingLeft
  <2>6. main' \in [pc : {"up", "leaving", "join", "kill", "gone"}, last : BOOLEAN, todo : Seq(Ids)]
    BY <1>0, <2>1
  <2> QED
    BY <1>0, <1>1, <2>1, <2>2, <2>4, <2>5, <2>6, MainOnly
<1>5. CASE AtExit
  <2>1. /\ main.pc = "leaving" /\ main' = [main EXCEPT !.pc = "join", !.last = TRUE]
        /\ stop' = TRUE /\ UNCHANGED <<extras, hears>> /\ \A a \in Threads : th[a].pc = "idle"
    BY <1>5 DEF AtExit, MainVars
  <2>2. main'.pc = "join" /\ main'.last = TRUE /\ main'.todo = main.todo
    BY <1>0, <2>1
  <2>4. EndOK'
    BY <1>0, <1>1, <1>2, <2>1, <2>2 DEF EndOK
  <2>5. NothingLeft'
    BY <2>2 DEF NothingLeft
  <2>6. main' \in [pc : {"up", "leaving", "join", "kill", "gone"}, last : BOOLEAN, todo : Seq(Ids)]
    BY <1>0, <2>1
  <2> QED
    BY <1>0, <1>1, <2>1, <2>2, <2>4, <2>5, <2>6, MainOnly
<1>6. CASE JoinMonitor
  <2>1. /\ main.pc = "join" /\ main' = [main EXCEPT !.pc = "kill", !.todo = procs]
        /\ hears' = FALSE /\ UNCHANGED <<stop, extras>>
    BY <1>6 DEF JoinMonitor
  <2>2. main'.pc = "kill" /\ main'.last = main.last /\ main'.todo = procs
    BY <1>0, <2>1
  <2>3. main.last => \A j \in Ids : ~Claimed(j)
    BY <1>0 DEF EndOK, Claimed, Starting
  <2>4. main.last => \A j \in Ids : ChildRuns(j)' \/ (jobs'[j].dir /\ jobs'[j].child # "none") => j \in Elems(procs)
    BY <1>1, <2>3 DEF RegistryInv, RegistryOK, ChildRuns
  <2>5. EndOK'
    BY <1>0, <1>1, <1>2, <2>1, <2>2, <2>4 DEF EndOK
  <2>6. NothingLeft'
    BY <2>2 DEF NothingLeft
  <2>7. main' \in [pc : {"up", "leaving", "join", "kill", "gone"}, last : BOOLEAN, todo : Seq(Ids)]
    BY <1>0, <2>1
  <2> QED
    BY <1>0, <1>1, <2>1, <2>2, <2>5, <2>6, <2>7, MainOnly
<1> QED
  BY <1>3, <1>4, <1>5, <1>6

LEMMA ShutdownEndsStep ==
  ASSUME RegistryInv, ShutdownEnds
  PROVE  RegistryInv'
<1> DEFINE d == [NoCall EXCEPT !.pc = "dead"]
<1>0. /\ main \in [pc : {"up", "leaving", "join", "kill", "gone"}, last : BOOLEAN, todo : Seq(Ids)]
      /\ EndOK /\ stop \in BOOLEAN /\ hears \in BOOLEAN /\ extras \in 0 .. MaxExtras
      /\ th \in [Actors -> ThreadRecords] /\ Monitor \in Actors /\ jobs \in [Ids -> JobRecords]
      /\ ThreadsOK
  BY DEF RegistryInv, JobsTypeOK, Actors
<1>1. /\ main.pc = "kill" /\ main.todo = <<>> /\ UNCHANGED <<jobs, procs, done, counter, stop, hears, extras>>
      /\ main' = [main EXCEPT !.pc = IF main.last THEN "gone" ELSE "leaving"]
      /\ th' = IF main.last THEN [th EXCEPT ![Monitor] = d] ELSE th
  BY DEF ShutdownEnds
<1>2. /\ main'.pc = (IF main.last THEN "gone" ELSE "leaving") /\ main'.last = main.last /\ main'.todo = <<>>
      /\ main' \in [pc : {"up", "leaving", "join", "kill", "gone"}, last : BOOLEAN, todo : Seq(Ids)]
  BY <1>0, <1>1
<1>3. d \in ThreadRecords /\ d.pc = "dead" /\ d.tell = <<>> /\ d.todo = <<>> /\ d.victim = 0
  BY NoCallIs DEF ThreadRecords, NoCall
<1>4. \A B : ThreadOK(Monitor, d, B)
  BY <1>3, ShortElems DEF ThreadOK
<1> HIDE DEF d
<1>5. \A a \in Threads : th'[a] = th[a]
  BY <1>0, <1>1, BackgroundAssumption DEF Actors
<1>6. th' \in [Actors -> ThreadRecords] /\ \A a \in Actors : ThreadOK(a, th'[a], Born)
  <2>1. CASE main.last
    BY <1>0, <1>1, <1>3, <1>4, <2>1 DEF ThreadsOK
  <2>2. CASE ~main.last
    BY <1>0, <1>1, <2>2 DEF ThreadsOK
  <2> QED
    BY <2>1, <2>2
<1>7. \A j \in Ids : Claimed(j)' <=> Claimed(j)
  BY <1>5 DEF Claimed, Starting
<1>8. Born' = Born
  BY <1>1, <1>7 DEF Born
<1>9. ThreadsOK'
  BY <1>6, <1>8 DEF ThreadsOK
<1>10. StartsOK'
  <2>1. \A a \in Threads : Starting(a)' <=> Starting(a)
    BY <1>5 DEF Starting
  <2> QED
    BY <1>1, <1>5, <1>7, <2>1 DEF RegistryInv, StartsOK
<1>11. RegistryOK'
  BY <1>1, <1>2, <1>7, <1>8 DEF RegistryInv, RegistryOK, ChildRuns
<1>12. TellOK'
  <2>1. \A a \in Actors : Elems(th'[a].tell) \subseteq Elems(th[a].tell)
    BY <1>0, <1>1, <1>3, ShortElems
  <2>2. ~hears'
    BY <1>0, <1>1 DEF EndOK
  <2> QED
    BY <1>1, <2>1, <2>2 DEF RegistryInv, TellOK
<1>13. SlotsOK'
  <2>1. Slots' \subseteq Slots
    BY <1>1, <1>7 DEF Slots, ChildRuns
  <2> QED
    BY <2>1, FewerSlots
<1>14. main.last => \A j \in Ids : ~ChildRuns(j) /\ (jobs[j].dir => jobs[j].child = "none")
  BY <1>0, <1>1, ShortElems DEF EndOK
<1>15. NothingLeft'
  BY <1>1, <1>2, <1>14 DEF NothingLeft, ChildRuns
<1>16. EndOK'
  BY <1>0, <1>1, <1>2, <1>5, ShortElems DEF EndOK
<1>17. OutputKept'
  BY <1>2 DEF OutputKept
<1>18. JobsTypeOK'
  BY <1>1, <1>2, <1>6 DEF RegistryInv, JobsTypeOK
<1> QED
  BY <1>9, <1>10, <1>11, <1>12, <1>13, <1>15, <1>16, <1>17, <1>18 DEF RegistryInv

LEMMA KillNextStep ==
  ASSUME RegistryInv, KillNext
  PROVE  RegistryInv'
<1>0. /\ main \in [pc : {"up", "leaving", "join", "kill", "gone"}, last : BOOLEAN, todo : Seq(Ids)]
      /\ EndOK /\ jobs \in [Ids -> JobRecords] /\ Elems(procs) \subseteq Ids
  BY ElemsIn DEF RegistryInv, JobsTypeOK
<1>1. main.pc = "kill" /\ main.todo # <<>> /\ UNCHANGED <<procs, done, counter, th, stop, hears, extras>>
  BY DEF KillNext
<1>2. main.todo \in Seq(Ids) /\ Tail(main.todo) \in Seq(Ids)
  BY <1>0, <1>1
<1>3. PICK j \in Ids : j = Head(main.todo)
  BY <1>1, <1>2, TailElems
<1>4. j \in Elems(main.todo) /\ Elems(main.todo) = {j} \cup Elems(Tail(main.todo))
  BY <1>1, <1>2, <1>3, TailElems
<1>5. j \in Born /\ jobs[j].child # "none" /\ ~Claimed(j)
  BY <1>0, <1>4 DEF EndOK, Born
<1>6. /\ jobs' = [jobs EXCEPT ![j] = [Dead(j) EXCEPT !.dir = FALSE]]
      /\ main' = [main EXCEPT !.todo = Tail(main.todo)]
  BY <1>3 DEF KillNext
<1>7. /\ main'.pc = "kill" /\ main'.last = main.last /\ main'.todo = Tail(main.todo)
      /\ main' \in [pc : {"up", "leaving", "join", "kill", "gone"}, last : BOOLEAN, todo : Seq(Ids)]
  BY <1>0, <1>1, <1>2, <1>6
<1>8. /\ jobs' \in [Ids -> JobRecords] /\ \A k \in Ids : k # j => jobs'[k] = jobs[k]
      /\ jobs'[j].child = "exited" /\ ~jobs'[j].dir
      /\ jobs'[j].tail = jobs[j].tail /\ jobs'[j].told = jobs[j].told /\ jobs'[j].raced = jobs[j].raced
  <2>1. jobs[j] \in JobRecords
    BY <1>0
  <2>2. [Dead(j) EXCEPT !.dir = FALSE] \in JobRecords
    BY <2>1 DEF Dead, JobRecords
  <2> QED
    BY <1>0, <1>6, <2>1, <2>2 DEF Dead, JobRecords
<1>9. \A k \in Ids : Claimed(k)' <=> Claimed(k)
  BY <1>1 DEF Claimed, Starting
<1>10. Born \subseteq Born'
  BY <1>5, <1>8, <1>9 DEF Born
<1>11. ThreadsOK'
  <2>1. \A a \in Actors : ThreadOK(a, th[a], Born')
    BY <1>10, ThreadOKGrows DEF RegistryInv, ThreadsOK
  <2> QED
    BY <1>1, <2>1 DEF ThreadsOK
<1>12. StartsOK'
  <2>0. StartsOK
    BY DEF RegistryInv
  <2>1. \A k \in Ids : k > counter' => jobs'[k].child = "none" /\ ~jobs'[k].dir /\ ~Claimed(k)'
    BY <1>1, <1>5, <1>8, <1>9, <2>0 DEF StartsOK
  <2>2. \A k \in Ids : jobs'[k].child = "none" => jobs'[k].tail = "none"
    BY <1>8, <2>0 DEF StartsOK
  <2>3. \A a \in Threads : Starting(a) => th[a].job \in Ids /\ jobs'[th[a].job] = jobs[th[a].job]
    BY <1>5, <1>8, <2>0 DEF StartsOK, Claimed
  <2> QED
    BY <1>1, <2>0, <2>1, <2>2, <2>3 DEF StartsOK, Starting
<1>13. RegistryOK'
  <2>0. RegistryOK
    BY DEF RegistryInv
  <2>1. Elems(procs') \subseteq Born'
    BY <1>1, <1>10, <2>0 DEF RegistryOK
  <2>2. \A k \in Ids : jobs'[k].tail # "none" => jobs'[k].child = "exited" /\ ~jobs'[k].dir
    BY <1>8, <2>0 DEF RegistryOK
  <2>3. \A k \in Elems(procs') : jobs'[k].tail # "none" <=> k \in Elems(done')
    BY <1>0, <1>1, <1>8, <2>0 DEF RegistryOK
  <2>4. \A k \in Ids : ChildRuns(k)' \/ (jobs'[k].dir /\ jobs'[k].child # "none") => k \in Elems(procs') \/ Claimed(k)'
    BY <1>1, <1>8, <1>9, <2>0 DEF RegistryOK, ChildRuns
  <2> QED
    BY <1>1, <1>7, <2>0, <2>1, <2>2, <2>3, <2>4 DEF RegistryOK
<1>14. TellOK'
  <2>1. \A k \in Ids : jobs'[k].told = jobs[k].told /\ jobs'[k].tail = jobs[k].tail
    BY <1>8
  <2> QED
    BY <1>1, <2>1, SameTell
<1>15. SlotsOK'
  <2>1. Slots' \subseteq Slots
    BY <1>5, <1>8, <1>9 DEF Slots, ChildRuns
  <2> QED
    BY <2>1, FewerSlots
<1>16. EndOK'
  <2>1. Elems(main'.todo) \subseteq Born'
    BY <1>0, <1>4, <1>7, <1>10 DEF EndOK
  <2>2. main'.last /\ main'.pc = "kill" =>
          \A k \in Ids : ChildRuns(k)' \/ (jobs'[k].dir /\ jobs'[k].child # "none") => k \in Elems(main'.todo)
    BY <1>0, <1>1, <1>4, <1>7, <1>8 DEF EndOK, ChildRuns
  <2> QED
    BY <1>0, <1>1, <1>7, <2>1, <2>2 DEF EndOK
<1>17. OutputKept' /\ NothingLeft'
  BY <1>7 DEF OutputKept, NothingLeft
<1>18. JobsTypeOK'
  BY <1>1, <1>7, <1>8 DEF RegistryInv, JobsTypeOK
<1> QED
  BY <1>11, <1>12, <1>13, <1>14, <1>15, <1>16, <1>17, <1>18 DEF RegistryInv

-----------------------------------------------------------------------------
(* The theorems *)

LEMMA SweepSteps ==
  ASSUME RegistryInv, NEW a \in Actors, Sweeps(a)
  PROVE  RegistryInv'
<1>1. CASE Notify(a)
  BY <1>1, NotifyStep, NotifyNobody
<1> QED
  BY <1>1, PruneStep, TellStep, CheckLimitsStep, CondemnStep, TerminateStep DEF Sweeps

LEMMA RegistryInit ==
  ASSUME JobsInit
  PROVE  RegistryInv
<1>0. /\ jobs = [j \in Ids |-> NoJob] /\ procs = <<>> /\ done = <<>> /\ counter = 0
      /\ th = [a \in Actors |-> [NoCall EXCEPT !.pc = IF a = Monitor THEN "dead" ELSE "idle"]]
      /\ stop = FALSE /\ hears = TRUE /\ main = [pc |-> "up", last |-> FALSE, todo |-> <<>>] /\ extras = 0
  BY DEF JobsInit
<1>1. \A a \in Actors : /\ th[a] \in ThreadRecords /\ th[a].pc = (IF a = Monitor THEN "dead" ELSE "idle")
                        /\ th[a].tell = <<>> /\ th[a].todo = <<>> /\ th[a].victim = 0 /\ th[a].op = "none"
  BY <1>0, NoCallIs DEF ThreadRecords, NoCall
<1>2. \A j \in Ids : /\ jobs[j] \in JobRecords /\ jobs[j].child = "none" /\ ~jobs[j].dir /\ jobs[j].tail = "none"
                     /\ jobs[j].told = 0
  BY <1>0 DEF NoJob, JobRecords
<1>3. \A a \in Threads : ~Starting(a)
  <2>1. \A a \in Threads : a \in Actors
    BY DEF Actors
  <2> QED
    BY <1>1, <2>1 DEF Starting
<1>4. \A j \in Ids : ~Claimed(j)
  BY <1>3 DEF Claimed
<1>5. th \in [Actors -> ThreadRecords] /\ jobs \in [Ids -> JobRecords]
  BY <1>0, <1>1, <1>2
<1>6. JobsTypeOK
  <2>1. counter \in 0 .. MaxStarts /\ extras \in 0 .. MaxExtras
    BY <1>0, BackgroundAssumption
  <2>2. <<>> \in Seq(Ids)
    OBVIOUS
  <2>3. main \in [pc : {"up", "leaving", "join", "kill", "gone"}, last : BOOLEAN, todo : Seq(Ids)]
    BY <1>0, <2>2
  <2>4. stop \in BOOLEAN /\ hears \in BOOLEAN
    BY <1>0
  <2> QED
    BY <1>0, <1>5, <2>1, <2>2, <2>3, <2>4, ShortElems DEF JobsTypeOK
<1>7. ThreadsOK
  BY <1>1, ShortElems DEF ThreadsOK, ThreadOK
<1>8. StartsOK
  BY <1>2, <1>3, <1>4 DEF StartsOK
<1>9. RegistryOK
  BY <1>0, <1>2, ShortElems DEF RegistryOK, ChildRuns
<1>10. TellOK
  BY <1>1, <1>2, ShortElems DEF TellOK
<1>11. SlotsOK
  <2>1. Slots = {}
    BY <1>2, <1>4 DEF Slots, ChildRuns
  <2>2. Cardinality(Slots) = 0
    BY <2>1, FS_EmptySet
  <2>3. Cardinality(Slots) <= MaxConcurrent
    BY <2>2, BackgroundAssumption
  <2> QED
    BY <2>3 DEF SlotsOK, Slots
<1>12. EndOK /\ OutputKept /\ NothingLeft
  BY <1>0, ShortElems DEF EndOK, OutputKept, NothingLeft
<1> QED
  BY <1>6, <1>7, <1>8, <1>9, <1>10, <1>11, <1>12 DEF RegistryInv

LEMMA RegistryNext ==
  ASSUME RegistryInv, [JobsNext]_jobsVars
  PROVE  RegistryInv'
<1>1. ASSUME NEW a \in Threads, ToolStep(a)
      PROVE  RegistryInv'
  <2>1. a \in Actors
    BY DEF Actors
  <2> QED
    BY <1>1, <2>1, SweepSteps, CountStep, SpawnStep, SpawnFailsStep, RegisterStep, LookSteps DEF ToolStep
<1>2. ASSUME NEW a \in Threads, ToolCalls(a)
      PROVE  RegistryInv'
  BY <1>2, CallSteps
<1>3. CASE MonitorStep
  <2>1. Monitor \in Actors
    BY DEF Actors
  <2> QED
    BY <1>3, <2>1, SweepSteps, MonitorWakesStep DEF MonitorStep
<1>4. CASE MainStep \/ SigTerm \/ Quit
  BY <1>4, EndSteps, KillNextStep, ShutdownEndsStep DEF MainStep
<1>5. ASSUME NEW j \in Ids, ChildStep(j)
      PROVE  RegistryInv'
  BY <1>5, ChildSteps
<1>6. CASE UNCHANGED jobsVars
  <2>1. UNCHANGED <<jobs, procs, done, counter, th, stop, hears, main, extras>>
    BY <1>6 DEF jobsVars
  <2>2. extras' \in 0 .. MaxExtras
    BY <2>1 DEF RegistryInv, JobsTypeOK
  <2> QED
    BY <2>1, <2>2, SameJobs, ChildOnly
<1> QED
  BY <1>1, <1>2, <1>3, <1>4, <1>5, <1>6 DEF JobsNext

\* The invariant behind the properties of the registry: a job is claimed by one thread, registered,
\* finished and forgotten in this order, whoever runs in between (agent/background.py).
THEOREM RegistryInvariant == JobsSpec => []RegistryInv
<1>1. JobsInit => RegistryInv
  BY RegistryInit
<1>2. RegistryInv /\ [JobsNext]_jobsVars => RegistryInv'
  BY RegistryNext
<1> QED
  BY <1>1, <1>2, PTL DEF JobsSpec

\* What a slot bound, a forgotten record and a kept output promise, and that no exit is announced
\* twice, for any number of threads and jobs.
THEOREM RegistryIsSound == JobsSpec => []JobsInv
<1>1. RegistryInv => JobsInv
  <2>1. SUFFICES ASSUME RegistryInv PROVE JobsInv
    OBVIOUS
  <2>2. SlotsBounded
    <3> DEFINE R == {j \in Ids : ChildRuns(j) /\ ~jobs[j].raced}
    <3>1. IsFiniteSet(Slots) /\ R \in SUBSET Slots
      BY BackgroundAssumption, FS_Interval, FS_Subset DEF Ids, Slots
    <3>2. Cardinality(R) <= Cardinality(Slots) /\ Cardinality(R) \in Nat /\ Cardinality(Slots) \in Nat
      BY <3>1, FS_Subset, FS_CardinalityType
    <3>3. Cardinality(Slots) <= MaxConcurrent
      BY <2>1 DEF RegistryInv, SlotsOK, Slots
    <3>4. Cardinality(R) <= MaxConcurrent
      BY <3>2, <3>3, BackgroundAssumption
    <3> QED
      BY <3>4 DEF SlotsBounded
  <2>3. ForgottenIsTold
    BY <2>1 DEF RegistryInv, TellOK, ForgottenIsTold
  <2> QED
    BY <2>1, <2>2, <2>3 DEF RegistryInv, JobsInv
<1> QED
  BY <1>1, RegistryInvariant, PTL

\* At the end of the process no child runs and no job that was started has its log directory left,
\* although the shutdown at SIGTERM may miss a job whose start is under way (background.shutdown).
THEOREM NothingOutlives == JobsSpec => []NothingLeft
<1>1. RegistryInv => NothingLeft
  BY DEF RegistryInv
<1> QED
  BY <1>1, RegistryInvariant, PTL
=============================================================================
