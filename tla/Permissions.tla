---------------------------- MODULE Permissions ----------------------------
(***************************************************************************)
(* The permission decision and everything that feeds it: the engine        *)
(* (permissions/engine.py), the approval step of a turn                    *)
(* (agent/interrupts.py, agent/verify.py), the store of "always" rules     *)
(* (permissions/rule_store.py) and the trust boundary of a project         *)
(* (config/trust.py, the launch in cli.py, the reload in the controller).  *)
(*                                                                         *)
(* Several processes (Sessions) work on one project and share its          *)
(* config.yaml; a moved checkout, or one mounted in a container, is seen   *)
(* under another path and so is another workspace. A call is a record of   *)
(* what the checks read off its text: the texts it is matched by, the rule *)
(* an approval of it is remembered under, the verdict of the danger guard. *)
(* The gated part of config.yaml is its permissions.allow list; hooks,     *)
(* servers and the other gated keys are fingerprinted, stripped and loaded *)
(* together with it.                                                       *)
(***************************************************************************)
EXTENDS Naturals, FiniteSets

CONSTANTS
  Sessions,      \* processes
  Workspaces,
  Workspace,     \* the primary root a session resolves its scope to
  Tools,
  Texts,         \* targets and rule texts
  NoRule,        \* the empty rule text
  Covers,        \* the texts a rule text matches, as a name or as a glob
  Roots, Primary,
  Calls,
  GlobalAllow,   \* rule texts of the user's own config.yaml
  ConfigDeny,    \* deny texts of both tiers, kept for untrusted projects too
  RepoAllow,     \* an allow text somebody writes into the project's config.yaml
  MaxReplies,    \* bound: answers the user gives
  MaxRunning     \* bound: sessions past their launch at a time

Kinds == {"read", "write", "shell", "network"}
Levels == {"safe", "dangerous", "blocked"}
Modes == {"plan", "ask", "auto-edit", "yolo"}

ASSUME PermissionAssumption ==
  /\ Workspace \in [Sessions -> Workspaces]
  /\ NoRule \notin Texts
  /\ Covers \in [Texts -> SUBSET Texts]
  /\ \A t \in Texts : t \in Covers[t]
  /\ Primary \in Roots
  /\ Calls \subseteq [kind : Kinds, tool : Tools, targets : SUBSET Texts,
                      rule : Texts \cup {NoRule}, level : Levels, root : Roots,
                      store : BOOLEAN, sensitive : SUBSET Texts, lookup : BOOLEAN]
  /\ \A c \in Calls : c.rule # NoRule => c.rule \in c.targets
  /\ GlobalAllow \subseteq Texts /\ ConfigDeny \subseteq Texts /\ RepoAllow \in Texts
  /\ MaxReplies \in Nat /\ MaxRunning \in Nat

(* An entry of a rule list: written by hand it applies to every action,    *)
(* generated it carries the authority it was given for.                    *)
ByHand(text) == [kind |-> "any", tool |-> "any", workspace |-> "any", rule |-> text]
HandRules == {ByHand(t) : t \in Texts}
ScopedRules == [kind : Kinds, tool : Tools, workspace : Workspaces,
                rule : Texts \cup {NoRule}]
Entries == HandRules \cup ScopedRules

NoAsk == [none |-> TRUE]
Asks == [call : Calls, via : {"tool", "verify"}, blocked : BOOLEAN]
Grants == [by : Sessions, workspace : Workspaces, call : Calls,
           scope : {"session", "always"}, blocked : BOOLEAN]

VARIABLES
  disk,       \* permissions.allow of the project's config.yaml
  trust,      \* trust.yaml: for a workspace, a set holding the content trusted there
  phase,      \* of a session: off, boot (trust prompt), run, trust (/trust)
  raw,        \* the project tier a session has read
  trusted, mode, roots, projectAllow, sessionAllow, sessionDeny, asked,
  grants,     \* bookkeeping: approvals in force
  rejected,   \* bookkeeping: calls the user refused in this process
  accepted,   \* bookkeeping: entries the user was shown and trusted
  replies

engine == <<trusted, mode, roots, projectAllow, sessionAllow, sessionDeny>>
history == <<grants, rejected, accepted, replies>>
vars == <<disk, trust, phase, raw, engine, asked, history>>

---------------------------------------------------------------------------
(* The decision *)

\* The workspace of a generated rule ignored.
Applies_AnyWorkspace(e, kind, tool, w) ==
  \/ e \in HandRules
  \/ e.kind = kind /\ e.tool = tool /\ e.rule # NoRule

\* Which entries speak about an action: a generated one only when its kind,
\* tool and workspace are those of the action.
Applies(e, kind, tool, w) ==
  \/ e \in HandRules
  \/ e.kind = kind /\ e.tool = tool /\ e.workspace = w /\ e.rule # NoRule

\* Some applicable entry of the list matches one of the texts.
Matches(entries, kind, tool, w, texts) ==
  \E e \in entries : Applies(e, kind, tool, w) /\ e.rule \in Texts
                     /\ Covers[e.rule] \cap texts # {}

AllAllow(s) == {ByHand(t) : t \in GlobalAllow} \cup projectAllow[s] \cup sessionAllow[s]
AllDeny(s) == {ByHand(t) : t \in ConfigDeny} \cup sessionDeny[s]

InScope(s, c) == c.root \in roots[s]

GuardFor(s, c) ==
  IF c.kind = "write" /\ ~InScope(s, c) THEN "dangerous"
  ELSE IF c.kind \in {"shell", "write"} THEN c.level
  ELSE "safe"

ModeDecision(s, c) ==
  IF mode[s] = "plan" THEN "deny"
  ELSE IF \/ mode[s] = "yolo"
          \/ mode[s] = "auto-edit" /\ c.kind = "write" /\ InScope(s, c)
          \/ mode[s] = "auto-edit" /\ c.kind = "network" /\ c.lookup
  THEN "allow"
  ELSE "ask"

Denied(s, c) == Matches(AllDeny(s), c.kind, c.tool, Workspace[s], c.targets)
Allowed(s, c, texts) == Matches(AllAllow(s), c.kind, c.tool, Workspace[s], texts)

ReadDecision(s, c) ==
  IF \E t \in c.sensitive : ~Allowed(s, c, {t}) THEN "ask" ELSE "allow"

\* An allow rule looked up before the deny rules.
Evaluate_AllowFirst(s, c) ==
  IF GuardFor(s, c) = "blocked" \/ c.store THEN "deny"
  ELSE IF Allowed(s, c, c.targets) THEN "allow"
  ELSE IF Denied(s, c) THEN "deny"
  ELSE IF GuardFor(s, c) = "dangerous" THEN "ask"
  ELSE IF c.kind = "read" THEN ReadDecision(s, c)
  ELSE ModeDecision(s, c)

Evaluate(s, c) ==
  IF GuardFor(s, c) = "blocked" \/ c.store \/ Denied(s, c) THEN "deny"
  ELSE IF GuardFor(s, c) = "dangerous" THEN "ask"
  ELSE IF c.kind = "read" THEN ReadDecision(s, c)
  ELSE IF Allowed(s, c, c.targets) THEN "allow"
  ELSE ModeDecision(s, c)

\* What the result filter of the read tools asks about a path it has met in a
\* tool's output: a read that names no tool.
IsReadDeniedPath(s, path, inStore) ==
  inStore \/ Matches(AllDeny(s), "read", "none", Workspace[s], {path})

ScopedRuleFor(s, c) ==
  [kind |-> c.kind, tool |-> c.tool, workspace |-> Workspace[s], rule |-> c.rule]

---------------------------------------------------------------------------
(* Launch: _resolve_project_trust, load_config, resolve_effective_profile *)

Init ==
  /\ disk \in {{}, {ByHand(RepoAllow)}}
  /\ trust = [w \in Workspaces |-> {}]
  /\ phase = [s \in Sessions |-> "off"]
  /\ raw = [s \in Sessions |-> {}]
  /\ trusted = [s \in Sessions |-> FALSE]
  /\ mode = [s \in Sessions |-> "plan"]
  /\ roots = [s \in Sessions |-> {Primary}]
  /\ projectAllow = [s \in Sessions |-> {}]
  /\ sessionAllow = [s \in Sessions |-> {}]
  /\ sessionDeny = [s \in Sessions |-> {}]
  /\ asked = [s \in Sessions |-> NoAsk]
  /\ grants = {} /\ accepted = {} /\ replies = 0
  /\ rejected = [s \in Sessions |-> {}]

Running(s) == phase[s] \in {"run", "trust"}

\* load_config: an untrusted project's allow list is stripped.
Load(s, ok, content) ==
  projectAllow' = [projectAllow EXCEPT ![s] = IF ok THEN content ELSE {}]

\* No clamp.
Clamp_Never(ok, m) == m

\* Every place that sets a mode clamps it for an untrusted project.
Clamp(ok, m) == IF ok THEN m ELSE "plan"

\* The controller of a new process: session lists empty, mode from the
\* configuration or the command line, further roots from --add-dir.
Start(s, ok, content) ==
  /\ Cardinality({x \in Sessions : Running(x)}) < MaxRunning
  /\ phase' = [phase EXCEPT ![s] = "run"]
  /\ trusted' = [trusted EXCEPT ![s] = ok]
  /\ Load(s, ok, content)
  /\ \E m \in Modes : mode' = [mode EXCEPT ![s] = Clamp(ok, m)]
  /\ \E extra \in SUBSET Roots : roots' = [roots EXCEPT ![s] = {Primary} \cup extra]
  /\ UNCHANGED <<sessionAllow, sessionDeny>>

\* The project declares nothing gated, or exactly what was trusted before.
LaunchTrusted(s) ==
  /\ phase[s] = "off"
  /\ disk = {} \/ trust[Workspace[s]] = {disk}
  /\ Start(s, TRUE, disk)
  /\ UNCHANGED <<disk, trust, raw, asked, history>>

\* The prompt shows what was read; the file may change while it is open.
LaunchPrompt(s) ==
  /\ phase[s] = "off" /\ disk # {} /\ trust[Workspace[s]] # {disk}
  /\ phase' = [phase EXCEPT ![s] = "boot"]
  /\ raw' = [raw EXCEPT ![s] = disk]
  /\ UNCHANGED <<disk, trust, engine, asked, history>>

LaunchGranted(s) ==
  /\ phase[s] = "boot" /\ disk = raw[s]
  /\ trust' = [trust EXCEPT ![Workspace[s]] = {raw[s]}]
  /\ accepted' = accepted \cup raw[s]
  /\ Start(s, TRUE, raw[s])
  /\ raw' = [raw EXCEPT ![s] = {}]
  /\ UNCHANGED <<disk, asked, grants, rejected, replies>>

\* commit_trust_if_unchanged refuses and the launch ends.
LaunchAborted(s) ==
  /\ phase[s] = "boot" /\ disk # raw[s]
  /\ phase' = [phase EXCEPT ![s] = "off"]
  /\ raw' = [raw EXCEPT ![s] = {}]
  /\ UNCHANGED <<disk, trust, engine, asked, history>>

\* Declined, or there is no terminal to ask on.
LaunchDeclined(s) ==
  /\ phase[s] = "boot"
  /\ Start(s, FALSE, raw[s])
  /\ raw' = [raw EXCEPT ![s] = {}]
  /\ UNCHANGED <<disk, trust, asked, history>>

\* --ignore-project-config: an empty project tier, and no clamp.
LaunchIgnoring(s) ==
  /\ phase[s] = "off"
  /\ Start(s, TRUE, {})
  /\ UNCHANGED <<disk, trust, raw, asked, history>>

Exit(s) ==
  /\ phase[s] = "run"
  /\ phase' = [phase EXCEPT ![s] = "off"]
  /\ trusted' = [trusted EXCEPT ![s] = FALSE]
  /\ mode' = [mode EXCEPT ![s] = "plan"]
  /\ roots' = [roots EXCEPT ![s] = {Primary}]
  /\ projectAllow' = [projectAllow EXCEPT ![s] = {}]
  /\ sessionAllow' = [sessionAllow EXCEPT ![s] = {}]
  /\ sessionDeny' = [sessionDeny EXCEPT ![s] = {}]
  /\ asked' = [asked EXCEPT ![s] = NoAsk]
  /\ grants' = {g \in grants : g.by # s \/ g.scope = "always"}
  /\ rejected' = [rejected EXCEPT ![s] = {}]
  /\ UNCHANGED <<disk, trust, raw, accepted, replies>>

---------------------------------------------------------------------------
(* The approval step of a turn *)

Idle(s) == phase[s] = "run" /\ asked[s] = NoAsk

\* ALLOW and DENY answer the tool call at once and change nothing; ASK keeps
\* the result and waits for the user.
Gate(s, c) ==
  /\ Idle(s) /\ Evaluate(s, c) = "ask"
  /\ asked' = [asked EXCEPT ![s] =
       [call |-> c, via |-> "tool", blocked |-> GuardFor(s, c) = "dangerous"]]
  /\ UNCHANGED <<disk, trust, phase, raw, engine, history>>

\* A verification command is judged as an execute call.
VerifyGate(s, c) ==
  /\ Idle(s) /\ c.kind = "shell" /\ c.tool = "execute" /\ Evaluate(s, c) = "ask"
  /\ asked' = [asked EXCEPT ![s] =
       [call |-> c, via |-> "verify", blocked |-> GuardFor(s, c) = "dangerous"]]
  /\ UNCHANGED <<disk, trust, phase, raw, engine, history>>

\* The scopes an approver offers: "always" only for a rememberable action.
Offered(ask) == {"once", "session"} \cup (IF ask.blocked THEN {} ELSE {"always"})

\* The approval step of a tool call downgrades "always" once more; the one of
\* a verification command does not.
ScopeOf(ask, scope) ==
  IF ask.via = "tool" /\ ask.blocked /\ scope = "always" THEN "session" ELSE scope

\* remember: ONCE leaves nothing; ALWAYS is also written to the project's
\* config.yaml, and a failing write is only logged.
Remember(s, c, scope) ==
  LET rule == ScopedRuleFor(s, c) IN
  IF scope = "once" THEN UNCHANGED <<sessionAllow, disk>>
  ELSE /\ sessionAllow' = [sessionAllow EXCEPT ![s] = @ \cup {rule}]
       /\ disk' \in IF scope = "always" THEN {disk, disk \cup {rule}} ELSE {disk}

Approve(s) ==
  /\ phase[s] = "run" /\ asked[s] # NoAsk /\ replies < MaxReplies
  /\ \E offer \in Offered(asked[s]) :
       LET scope == ScopeOf(asked[s], offer) IN
       /\ Remember(s, asked[s].call, scope)
       /\ grants' = grants \cup
            (IF scope = "once" THEN {}
             ELSE {[by |-> s, workspace |-> Workspace[s], call |-> asked[s].call,
                    scope |-> scope, blocked |-> asked[s].blocked]})
  /\ asked' = [asked EXCEPT ![s] = NoAsk]
  /\ replies' = replies + 1
  /\ UNCHANGED <<trust, phase, raw, trusted, mode, roots, projectAllow, sessionDeny,
                 rejected, accepted>>

\* A rejected tool call is denied for the rest of the process; a refused
\* verification command is not.
Reject(s) ==
  /\ phase[s] = "run" /\ asked[s] # NoAsk /\ replies < MaxReplies
  /\ LET c == asked[s].call IN
     IF asked[s].via = "tool"
     THEN /\ sessionDeny' = [sessionDeny EXCEPT ![s] = @ \cup {ScopedRuleFor(s, c)}]
          /\ rejected' = [rejected EXCEPT ![s] = @ \cup {c}]
     ELSE UNCHANGED <<sessionDeny, rejected>>
  /\ asked' = [asked EXCEPT ![s] = NoAsk]
  /\ replies' = replies + 1
  /\ UNCHANGED <<disk, trust, phase, raw, trusted, mode, roots, projectAllow, sessionAllow,
                 grants, accepted>>

---------------------------------------------------------------------------
(* Commands of the user *)

\* /mode, the picker and Shift+Tab; the key works while an approval is open.
ApplyMode(s) ==
  /\ phase[s] = "run"
  /\ \E m \in Modes : mode' = [mode EXCEPT ![s] = Clamp(trusted[s], m)]
  /\ UNCHANGED <<disk, trust, phase, raw, trusted, roots, projectAllow, sessionAllow,
                 sessionDeny, asked, history>>

\* exit_plan_mode bypasses the engine; its approval escalates the mode.
ApprovePlan(s) ==
  /\ Idle(s)
  /\ \E m \in {"ask", "auto-edit"} : mode' = [mode EXCEPT ![s] = Clamp(trusted[s], m)]
  /\ UNCHANGED <<disk, trust, phase, raw, trusted, roots, projectAllow, sessionAllow,
                 sessionDeny, asked, history>>

\* /preset: the modes of the presets' table.
Preset(s) ==
  /\ Idle(s)
  /\ \E m \in {"ask", "plan", "yolo"} : mode' = [mode EXCEPT ![s] = Clamp(trusted[s], m)]
  /\ UNCHANGED <<disk, trust, phase, raw, trusted, roots, projectAllow, sessionAllow,
                 sessionDeny, asked, history>>

\* /config set: the merged configuration is read again from both files.
ConfigSet(s) ==
  /\ Idle(s)
  /\ Load(s, trusted[s], disk)
  /\ \E m \in Modes : mode' = [mode EXCEPT ![s] = Clamp(trusted[s], m)]
  /\ UNCHANGED <<disk, trust, phase, raw, trusted, roots, sessionAllow, sessionDeny,
                 asked, history>>

AddRoot(s) ==
  /\ Idle(s) /\ trusted[s]
  /\ \E r \in Roots \ roots[s] : roots' = [roots EXCEPT ![s] = @ \cup {r}]
  /\ UNCHANGED <<disk, trust, phase, raw, trusted, mode, projectAllow, sessionAllow,
                 sessionDeny, asked, history>>

\* /trust reads the file, fingerprints it and compares it with the file again.
TrustRead(s) ==
  /\ Idle(s) /\ ~trusted[s]
  /\ phase' = [phase EXCEPT ![s] = "trust"]
  /\ raw' = [raw EXCEPT ![s] = disk]
  /\ UNCHANGED <<disk, trust, engine, asked, history>>

TrustCommit(s) ==
  /\ phase[s] = "trust" /\ disk = raw[s]
  /\ trust' = [trust EXCEPT ![Workspace[s]] = {raw[s]}]
  /\ accepted' = accepted \cup raw[s]
  /\ phase' = [phase EXCEPT ![s] = "run"]
  /\ raw' = [raw EXCEPT ![s] = {}]
  /\ trusted' = [trusted EXCEPT ![s] = TRUE]
  /\ Load(s, TRUE, raw[s])
  /\ \E m \in Modes : mode' = [mode EXCEPT ![s] = Clamp(TRUE, m)]
  /\ UNCHANGED <<disk, roots, sessionAllow, sessionDeny, asked, grants, rejected, replies>>

TrustRefused(s) ==
  /\ phase[s] = "trust" /\ disk # raw[s]
  /\ phase' = [phase EXCEPT ![s] = "run"]
  /\ raw' = [raw EXCEPT ![s] = {}]
  /\ UNCHANGED <<disk, trust, engine, asked, history>>

\* jarn trust --remove: running sessions keep what they loaded.  (jarn trust
\* itself writes what a granted launch writes, and starts nothing.)
Untrust(w) ==
  /\ trust[w] # {}
  /\ trust' = [trust EXCEPT ![w] = {}]
  /\ UNCHANGED <<disk, phase, raw, engine, asked, history>>

\* Somebody edits the project's config.yaml, or pulls a version with a rule.
EditConfig ==
  /\ ByHand(RepoAllow) \notin disk
  /\ disk' = disk \cup {ByHand(RepoAllow)}
  /\ UNCHANGED <<trust, phase, raw, engine, asked, history>>

Next ==
  \/ EditConfig
  \/ \E w \in Workspaces : Untrust(w)
  \/ \E s \in Sessions :
       \/ LaunchTrusted(s) \/ LaunchPrompt(s) \/ LaunchGranted(s) \/ LaunchAborted(s)
       \/ LaunchDeclined(s) \/ LaunchIgnoring(s) \/ Exit(s)
       \/ Approve(s) \/ Reject(s)
       \/ ApplyMode(s) \/ ApprovePlan(s) \/ Preset(s) \/ ConfigSet(s) \/ AddRoot(s)
       \/ TrustRead(s) \/ TrustCommit(s) \/ TrustRefused(s)
       \/ \E c \in Calls : Gate(s, c) \/ VerifyGate(s, c)

Spec == Init /\ [][Next]_vars

---------------------------------------------------------------------------
(* Properties *)

TypeOK ==
  /\ disk \subseteq Entries
  /\ trust \in [Workspaces -> SUBSET SUBSET Entries]
  /\ phase \in [Sessions -> {"off", "boot", "run", "trust"}]
  /\ raw \in [Sessions -> SUBSET Entries]
  /\ trusted \in [Sessions -> BOOLEAN]
  /\ mode \in [Sessions -> Modes]
  /\ roots \in [Sessions -> SUBSET Roots]
  /\ projectAllow \in [Sessions -> SUBSET Entries]
  /\ sessionAllow \in [Sessions -> SUBSET ScopedRules]
  /\ sessionDeny \in [Sessions -> SUBSET ScopedRules]
  /\ asked \in [Sessions -> Asks \cup {NoAsk}]
  /\ grants \subseteq Grants
  /\ rejected \in [Sessions -> SUBSET Calls]
  /\ accepted \subseteq Entries
  /\ replies \in Nat

\* A session on an untrusted project stays in plan mode and never holds an
\* allow rule of that project, through launch, /mode, a preset, an approved
\* plan and every reload (controller/config_helpers.py _apply_reloaded_config,
\* core.py apply_mode, profiles.py _clamp_untrusted_floor).
UntrustedFloor ==
  \A s \in Sessions : Running(s) /\ ~trusted[s] => mode[s] = "plan" /\ projectAllow[s] = {}

\* A call the user rejected is denied for the rest of the process, whatever is
\* approved, loaded or switched later (interrupts.py deny_session, and the
\* order of the checks in PermissionEngine.evaluate).
RejectedStaysDenied ==
  \A s \in Sessions : Running(s) =>
    \A c \in rejected[s] : c.rule # NoRule => Evaluate(s, c) = "deny"

\* A rule written by hand, in the user's file or in a project list that the
\* session loaded, covers one of the texts.
HandRuleCovers(s, texts) ==
  \E t \in Texts : /\ ByHand(t) \in AllAllow(s)
                   /\ Covers[t] \cap texts # {}

\* The user gave an approval for the same kind of action, by the same tool, in
\* the same workspace, that is in force here and whose rule covers the texts.
GrantCovers(s, c, texts) ==
  \E g \in grants :
    /\ g.by = s \/ g.scope = "always"
    /\ g.workspace = Workspace[s] /\ g.call.kind = c.kind /\ g.call.tool = c.tool
    /\ g.call.rule # NoRule /\ Covers[g.call.rule] \cap texts # {}

Consented(s, c, texts) == HandRuleCovers(s, texts) \/ GrantCovers(s, c, texts)

\* What runs without a question was consented to: the mode allows it, or a
\* hand-written rule or an approval in force covers it, for a sensitive read
\* each sensitive path on its own; an approval never reaches another tool,
\* kind or workspace, nor, unless it is "always", another process
\* (engine.py remember, _applicable_patterns, _read_decision).
AllowIsConsented ==
  \A s \in Sessions, c \in Calls :
    Running(s) /\ Evaluate(s, c) = "allow" =>
      IF c.kind = "read" THEN \A t \in c.sensitive : Consented(s, c, {t})
      ELSE ModeDecision(s, c) = "allow" \/ Consented(s, c, c.targets)

\* The hand-written entries of a list apart, each comes from an "always"
\* approval of an action that was not guard-dangerous when it was judged.
AlwaysGranted(entries) ==
  \A e \in entries \ HandRules :
    \E g \in grants : /\ g.scope = "always" /\ ~g.blocked
                     /\ e.kind = g.call.kind /\ e.tool = g.call.tool
                     /\ e.rule = g.call.rule /\ e.workspace = g.workspace

\* A generated rule in the project's file comes from an "always" approval of
\* an action that was not dangerous, by whichever path the approval came
\* (interrupts.py, verify.py; engine.py: "never persist an ALWAYS rule for it").
PersistedIsSafe == AlwaysGranted(disk)

\* What a rejection leaves: the call's rule in the deny list of the process.
RejectsAreKept ==
  \A s \in Sessions : \A c \in rejected[s] : ScopedRuleFor(s, c) \in sessionDeny[s]

\* The allow list of a process holds nothing but its own approvals.
SessionRulesGranted ==
  \A s \in Sessions : \A e \in sessionAllow[s] :
    \E g \in grants : /\ g.by = s
                     /\ e.kind = g.call.kind /\ e.tool = g.call.tool
                     /\ e.rule = g.call.rule /\ e.workspace = g.workspace

\* Together, what every step preserves: each rule held anywhere - in a process,
\* in the file, in a copy of the file read earlier - goes back to an approval
\* that is in force (engine.py remember and deny_session, rule_store.py
\* add_allow, loader.py load_config).
PermissionInv ==
  /\ UntrustedFloor /\ RejectsAreKept /\ SessionRulesGranted /\ PersistedIsSafe
  /\ \A s \in Sessions : AlwaysGranted(raw[s]) /\ AlwaysGranted(projectAllow[s])

\* What docs/PERMISSIONS.md says of an untrusted project: the agent can read
\* and plan, but it cannot write or run shell. TLC refutes it: README, 6.
UntrustedNeverActs ==
  \A s \in Sessions, c \in Calls :
    Running(s) /\ ~trusted[s] /\ c.kind # "read" => Evaluate(s, c) # "allow"

\* What read_filter.py says: a runtime session deny of a path is honoured by
\* the result filter too. TLC refutes it: README, 6.
RejectedReadIsFiltered ==
  \A s \in Sessions : Running(s) =>
    \A c \in rejected[s] :
      c.kind = "read" /\ c.rule # NoRule => IsReadDeniedPath(s, c.rule, c.store)

\* What trust.py says: a project must be explicitly trusted before its allow
\* rules take effect, and a changed rule asks again. TLC refutes it: README, 6.
ProjectRulesTrusted ==
  \A s \in Sessions : Running(s) => projectAllow[s] \cap HandRules \subseteq accepted
============================================================================
