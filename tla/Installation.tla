------------------------------ MODULE Installation ------------------------------
(***************************************************************************)
(* The installed command and the programs that replace it: the installer  *)
(* (install.sh, started by hand with curl or by `jarn update`), `jarn      *)
(* rollback`, the setup-status write of `jarn setup` and `jarn uninstall`. *)
(*                                                                         *)
(* The state is what they share on disk: the executables of the install   *)
(* directory, the receipt install.json, the installer's lock directory,   *)
(* its transaction journal and the managed block of the shell profile. An  *)
(* installer may be killed (SIGKILL, power loss) between any two steps, or *)
(* fail or be signalled at any of them, which runs its exit trap. The      *)
(* installer takes install.lock, the Python commands the file lock of the  *)
(* receipt: nothing excludes one group from the other, and mishaps records *)
(* when they overlapped.                                                   *)
(***************************************************************************)
EXTENDS Integers, FiniteSets

CONSTANTS
  Runs,       \* process ids of installer runs
  Cmds,       \* process ids of Python commands
  NoOne,      \* neither
  MaxVersion, \* releases are 1 .. MaxVersion
  MaxKills,   \* bound on processes killed
  MaxFaults,  \* bound on failures and signals
  MaxCmds     \* bound on Python commands started

ASSUME InstallationAssumption ==
  /\ NoOne \notin Runs \cup Cmds /\ {"free", "bare"} \cap Runs = {}
  /\ Runs \cap Cmds = {}
  /\ MaxVersion \in Nat \ {0}
  /\ MaxKills \in Nat /\ MaxFaults \in Nat /\ MaxCmds \in Nat

VARIABLES
  dir,       \* path -> the version of the executable there, 0 when absent
  manifest,  \* the receipt install.json
  lock,      \* the lock directory install.lock
  journal,   \* install.transaction
  profile,   \* the managed PATH block is in the shell profile
  run,       \* the installer runs
  cmd,       \* the Python commands
  flock,     \* the command that holds the receipt's file lock
  kills, faults, cmds,
  mishaps    \* what happened that no single program can answer for

installVars == <<dir, manifest, lock, journal, profile, run, cmd, flock, kills, faults, cmds,
                 mishaps>>

Versions == 1 .. MaxVersion

\* BIN_PATH, the rollback and staging names of a run, the exchange name of a rollback.
Bin == <<"bin", NoOne>>
RollbackOf(p) == <<"rollback", p>>
StageOf(p) == <<"activate", p>>
ExchangeOf(c) == <<"exchange", c>>
NoPath == <<"none", NoOne>>

Rollbacks == {RollbackOf(p) : p \in Runs \cup {NoOne}}
Stages == {StageOf(p) : p \in Runs}
Paths == {Bin} \cup Rollbacks \cup Stages \cup {ExchangeOf(c) : c \in Cmds}

NoManifest == [there |-> FALSE, ver |-> 0, prev |-> NoPath, setup |-> "none", lines |-> TRUE]

\* A receipt; lines says that every field is on a line of its own.
Receipt(ver, prev, setup, lines) ==
  [there |-> TRUE, ver |-> ver, prev |-> prev, setup |-> setup, lines |-> lines]

NoJournal == [phase |-> "none", pid |-> NoOne, ver |-> 0, had |-> FALSE, prev |-> NoPath]

RunIdle == [pc |-> "idle", ver |-> 0, how |-> "none", tries |-> 0, had |-> FALSE, prev |-> NoPath,
            changed |-> FALSE, activating |-> FALSE, txn |-> FALSE, recovering |-> FALSE,
            saved |-> [manifest |-> NoManifest, profile |-> FALSE, bin |-> 0]]

CmdIdle == [pc |-> "idle", rec |-> NoManifest, locked |-> FALSE, swap |-> <<0, 0>>]

\* The pcs of an installer that holds the lock, as far as it knows.
Holding == {"reconcile", "restore", "clear", "choose", "begin", "keep", "stage", "prepare", "retain",
            "note", "swap", "smoke", "resolve", "record", "validate", "commit", "setup"}

Live(p) == run[p].pc \in Holding \cup {"lock", "wait", "stale", "publish"}

Present(d, path) == d[path] # 0

\* mv / os.replace of one path over another
Moved(d, from, to) == [d EXCEPT ![to] = d[from], ![from] = 0]

\* retain_interrupted_path, .jarn.failed.*: kept for diagnosis, never read again
Aside(d, path) == [d EXCEPT ![path] = 0]

----------------------------------------------------------------------------
(***************************************************************************)
(* The machine starts with nothing installed, with one release, or with a *)
(* release that replaced another one.                                      *)
(***************************************************************************)
Empty == [path \in Paths |-> 0]

InstallInit ==
  /\ \/ dir = Empty /\ manifest = NoManifest
     \/ \E v \in Versions :
          /\ dir = [Empty EXCEPT ![Bin] = v]
          /\ manifest = Receipt(v, NoPath, "complete", FALSE)
     \/ \E v, w \in Versions :
          /\ v # w
          /\ dir = [Empty EXCEPT ![Bin] = v, ![RollbackOf(NoOne)] = w]
          /\ manifest = Receipt(v, RollbackOf(NoOne), "skipped", TRUE)
  /\ profile = manifest.there
  /\ lock = "free"
  /\ journal = NoJournal
  /\ run = [p \in Runs |-> RunIdle]
  /\ cmd = [c \in Cmds |-> CmdIdle]
  /\ flock = NoOne
  /\ kills = 0 /\ faults = 0 /\ cmds = 0
  /\ mishaps = {}

----------------------------------------------------------------------------
(***************************************************************************)
(* Starting, and the lock directory.                                       *)
(***************************************************************************)
RunGoto(p, pc) == run' = [run EXCEPT ![p].pc = pc]

\* The process ends: "done", "failed" or "killed".
End(p, pc) == run' = [run EXCEPT ![p] = [RunIdle EXCEPT !.pc = pc]]

LockVars == <<dir, manifest, journal, profile, cmd, flock, kills, faults, cmds>>

\* The curl installer starts on any machine; `jarn update` refuses when the receipt and the
\* executable disagree and stops when the release is the installed one.
StartInstaller(p, v, how) ==
  /\ run[p].pc = "idle"
  /\ how = "update" => manifest.there /\ dir[Bin] = manifest.ver /\ v # manifest.ver
  /\ run' = [run EXCEPT ![p] = [RunIdle EXCEPT !.pc = "lock", !.ver = v, !.how = how]]
  /\ UNCHANGED <<lock, mishaps, LockVars>>

\* A mutant: mkdir -p, which succeeds on a directory that is there.
MakeLock_Parents(p) ==
  /\ run[p].pc = "lock"
  /\ lock' = IF lock = "free" THEN "bare" ELSE lock
  /\ RunGoto(p, "publish")
  /\ UNCHANGED <<mishaps, LockVars>>

\* mkdir of the lock directory, still without its pid file
MakeLock(p) ==
  /\ run[p].pc = "lock" /\ lock = "free"
  /\ lock' = "bare"
  /\ RunGoto(p, "publish")
  /\ UNCHANGED <<mishaps, LockVars>>

\* From here a command that is under way overlaps with the installer.
PublishLock(p) ==
  /\ run[p].pc = "publish"
  /\ IF lock = "free"
     THEN End(p, "failed") /\ UNCHANGED <<lock, mishaps>>
     ELSE /\ lock' = p /\ RunGoto(p, "reconcile")
          /\ mishaps' = mishaps \cup {m \in {"overlap"} : \E c \in Cmds : cmd[c].pc # "idle"}
  /\ UNCHANGED LockVars

\* Where a look at an occupied lock directory leads.
LockVerdict == IF lock = "free" THEN "lock"
               ELSE IF lock = "bare" THEN "wait"
               ELSE IF Live(lock) THEN "failed" ELSE "stale"

InspectLock(p) ==
  /\ run[p].pc = "lock" /\ lock # "free"
  /\ IF run[p].tries = 3 \/ LockVerdict = "failed"
     THEN End(p, "failed")
     ELSE run' = [run EXCEPT ![p].tries = @ + 1, ![p].pc = LockVerdict]
  /\ UNCHANGED <<lock, mishaps, LockVars>>

\* The pid file was missing: one second later it is there, or the directory counts as malformed.
WaitForPid(p) ==
  /\ run[p].pc = "wait"
  /\ IF lock # "bare" /\ LockVerdict = "failed" THEN End(p, "failed")
     ELSE RunGoto(p, IF lock = "bare" THEN "stale" ELSE LockVerdict)
  /\ UNCHANGED <<lock, mishaps, LockVars>>

\* The lock directory belongs to an installer that is running.
LockInUse ==
  \/ lock \in Runs /\ Live(lock)
  \/ lock = "bare" /\ \E q \in Runs : run[q].pc = "publish"

QuarantineLock(p) ==
  /\ run[p].pc = "stale"
  /\ IF lock = "free"
     THEN End(p, "failed") /\ UNCHANGED <<lock, mishaps>>
     ELSE /\ lock' = "free"
          /\ RunGoto(p, "lock")
          /\ mishaps' = IF LockInUse THEN mishaps \cup {"lock stolen"} ELSE mishaps
  /\ UNCHANGED LockVars

----------------------------------------------------------------------------
(***************************************************************************)
(* reconcile_interrupted_transaction, in the order of its renames.         *)
(***************************************************************************)
\* release_install_lock removes the directory only when its pid is the run's own.
Released(p) == IF lock = p THEN "free" ELSE lock

StepVars == <<lock, cmd, flock, kills, faults, cmds, mishaps>>

Die(p) == lock' = Released(p) /\ End(p, "failed")

OldRollbacks(d) == {path \in Rollbacks : Present(d, path)}

StagesAside(d) == [path \in Paths |-> IF path \in Stages THEN 0 ELSE d[path]]

\* The rollback that restore_single_orphan_rollback would put back.
SoleRollback(d) == CHOOSE path \in OldRollbacks(d) : TRUE

OrphansFatal(d) == ~Present(d, Bin) /\ Cardinality(OldRollbacks(d)) > 1

RestoreOrphan(d) ==
  IF Present(d, Bin) \/ OldRollbacks(d) = {} THEN d ELSE Moved(d, SoleRollback(d), Bin)

ActiveOk(d, j) == d[Bin] = j.ver

\* The contradictions at which the reconciliation of journal j refuses to go on.
JournalFatal(d, j) ==
  \/ /\ j.phase = "prepared" /\ j.had /\ ~Present(d, j.prev)
     /\ ActiveOk(d, j) \/ ~Present(d, Bin)
  \/ /\ j.phase = "prepared" /\ j.had /\ Present(d, j.prev)
     /\ ~ActiveOk(d, j) /\ Present(d, Bin)
  \/ j.phase = "prepared" /\ ~j.had /\ ~ActiveOk(d, j) /\ Present(d, Bin)

\* A mutant: with the prior executable still in place the candidate is taken to be there too.
BeforeRetain_OnlyFirst(d, j) == j.phase = "prepared" /\ ~j.had /\ ~ActiveOk(d, j)

\* Nothing was renamed before the interruption.
BeforeRetain(d, j) ==
  /\ j.phase = "prepared"
  /\ \/ j.had /\ ~Present(d, j.prev)
     \/ ~j.had /\ ~ActiveOk(d, j)

\* Adopting a verified candidate needs the prior executable the journal names.
AdoptFatal(p, d, j) ==
  ActiveOk(d, j) /\ j.ver = run[p].ver /\ j.had /\ ~Present(d, j.prev)

ReconcileOrphans(p) ==
  /\ run[p].pc = "reconcile" /\ journal = NoJournal
  /\ LET d == StagesAside(dir) IN
       IF OrphansFatal(d) THEN dir' = d /\ Die(p)
                          ELSE dir' = RestoreOrphan(d) /\ RunGoto(p, "choose") /\ UNCHANGED lock
  /\ UNCHANGED <<manifest, journal, profile, cmd, flock, kills, faults, cmds, mishaps>>

Recovering(p, pc) == run' = [run EXCEPT ![p].pc = pc, ![p].recovering = TRUE]

ReconcileJournal(p) ==
  /\ run[p].pc = "reconcile" /\ journal # NoJournal
  /\ IF \/ Live(journal.pid)
        \/ JournalFatal(dir, journal)
        \/ ~BeforeRetain(dir, journal) /\ AdoptFatal(p, dir, journal)
     THEN Die(p) /\ UNCHANGED dir
     ELSE IF BeforeRetain(dir, journal)
          THEN Recovering(p, "clear") /\ UNCHANGED <<lock, dir>>
     ELSE IF ActiveOk(dir, journal)
          THEN /\ run' = [run EXCEPT ![p].pc = "clear", ![p].recovering = TRUE,
                     ![p].had = @ \/ (journal.ver = run[p].ver /\ journal.had),
                     ![p].prev = IF journal.ver = run[p].ver /\ journal.had
                                 THEN journal.prev ELSE @]
               /\ UNCHANGED <<lock, dir>>
     ELSE dir' = Aside(dir, Bin) /\ Recovering(p, "restore") /\ UNCHANGED lock
  /\ UNCHANGED <<manifest, journal, profile, cmd, flock, kills, faults, cmds, mishaps>>

RestorePrior(p) ==
  /\ run[p].pc = "restore"
  /\ IF ~journal.had THEN RunGoto(p, "clear") /\ UNCHANGED <<lock, dir>>
     ELSE IF Present(dir, journal.prev)
          THEN dir' = Moved(dir, journal.prev, Bin) /\ RunGoto(p, "clear") /\ UNCHANGED lock
     ELSE Die(p) /\ UNCHANGED dir
  /\ UNCHANGED <<manifest, journal, profile, cmd, flock, kills, faults, cmds, mishaps>>

ClearJournal(p) ==
  /\ run[p].pc = "clear"
  /\ dir' = StagesAside(dir)
  /\ journal' = NoJournal
  /\ RunGoto(p, "choose")
  /\ UNCHANGED <<manifest, profile, StepVars>>

\* adopt_manifest_previous_path reads the receipt line by line.
AdoptedPrevious(p) ==
  IF manifest.there /\ manifest.lines /\ manifest.prev # NoPath /\ Present(dir, manifest.prev)
  THEN manifest.prev ELSE run[p].prev

\* A healthy command of the target version is kept; anything else is replaced.
ChooseTarget(p) ==
  /\ run[p].pc = "choose"
  /\ IF dir[Bin] = run[p].ver
     THEN run' = [run EXCEPT ![p].pc = "keep", ![p].prev = AdoptedPrevious(p),
                             ![p].had = AdoptedPrevious(p) # NoPath]
     ELSE RunGoto(p, "begin")
  /\ UNCHANGED <<dir, manifest, journal, profile, StepVars>>

\* begin_install_transaction and ensure_shell_profiles
BeginTransaction(p) ==
  /\ run[p].pc \in {"begin", "keep"}
  /\ run' = [run EXCEPT ![p].txn = TRUE,
       ![p].saved = [manifest |-> manifest, profile |-> profile, bin |-> dir[Bin]],
       ![p].pc = IF @ = "keep" THEN "resolve" ELSE "stage"]
  /\ profile' = TRUE
  /\ UNCHANGED <<dir, manifest, journal, StepVars>>

StageCandidate(p) ==
  /\ run[p].pc = "stage"
  /\ dir' = [dir EXCEPT ![StageOf(p)] = run[p].ver]
  /\ RunGoto(p, "prepare")
  /\ UNCHANGED <<manifest, journal, profile, StepVars>>

\* write_transaction_journal: published whole by a rename
Journal(p, phase) ==
  [phase |-> phase, pid |-> p, ver |-> run[p].ver, had |-> run'[p].had, prev |-> run'[p].prev]

PrepareActivation(p) ==
  /\ run[p].pc = "prepare"
  /\ run' = [run EXCEPT ![p].pc = "retain", ![p].activating = TRUE,
       ![p].had = Present(dir, Bin),
       ![p].prev = IF Present(dir, Bin) THEN RollbackOf(p) ELSE NoPath]
  /\ journal' = Journal(p, "prepared")
  /\ UNCHANGED <<dir, manifest, profile, StepVars>>

RetainPrevious(p) ==
  /\ run[p].pc = "retain"
  /\ run[p].had => Present(dir, Bin)
  /\ dir' = IF run[p].had THEN Moved(dir, Bin, RollbackOf(p)) ELSE dir
  /\ RunGoto(p, "note")
  /\ UNCHANGED <<manifest, journal, profile, StepVars>>

NoteRetained(p) ==
  /\ run[p].pc = "note"
  /\ RunGoto(p, "swap")
  /\ journal' = Journal(p, "activating")
  /\ UNCHANGED <<dir, manifest, profile, StepVars>>

SwapCandidate(p) ==
  /\ run[p].pc = "swap"
  /\ Present(dir, StageOf(p))
  /\ dir' = Moved(dir, StageOf(p), Bin)
  /\ run' = [run EXCEPT ![p].pc = "smoke", ![p].changed = TRUE]
  /\ UNCHANGED <<manifest, journal, profile, StepVars>>

\* The second smoke test, and the journal's last phase.
SmokeActivated(p) ==
  /\ run[p].pc = "smoke"
  /\ dir[Bin] = run[p].ver
  /\ run' = [run EXCEPT ![p].pc = "resolve", ![p].activating = FALSE]
  /\ journal' = Journal(p, "activated")
  /\ UNCHANGED <<dir, manifest, profile, StepVars>>

ResolveInShell(p) ==
  /\ run[p].pc = "resolve"
  /\ RunGoto(p, "record")
  /\ UNCHANGED <<dir, manifest, journal, profile, StepVars>>

\* A mutant: the receipt keeps naming the rollback it named before.
WriteMetadata_OldRollback(p) ==
  /\ run[p].pc = "record"
  /\ \E setup \in IF run[p].how = "update" THEN {"skipped"} ELSE {"pending", "required"} :
       /\ manifest' = Receipt(run[p].ver, manifest.prev, setup, TRUE)
       /\ run' = [run EXCEPT ![p].pc = "validate", ![p].how = setup, ![p].prev = manifest.prev]
  /\ UNCHANGED <<dir, journal, profile, StepVars>>

WriteMetadata(p) ==
  /\ run[p].pc = "record"
  /\ \E setup \in IF run[p].how = "update" THEN {"skipped"} ELSE {"pending", "required"} :
       /\ manifest' = Receipt(run[p].ver, run[p].prev, setup, TRUE)
       /\ run' = [run EXCEPT ![p].pc = "validate", ![p].how = setup]
  /\ UNCHANGED <<dir, journal, profile, StepVars>>

ReceiptValid(p) ==
  /\ manifest.there /\ manifest.lines
  /\ manifest.ver = run[p].ver /\ manifest.prev = run[p].prev
  /\ dir[Bin] = run[p].ver

ValidateReceipt(p) ==
  /\ run[p].pc = "validate"
  /\ ReceiptValid(p)
  /\ RunGoto(p, "commit")
  /\ UNCHANGED <<dir, manifest, journal, profile, StepVars>>

CommitTransaction(p) ==
  /\ run[p].pc = "commit"
  /\ journal.pid \in {NoOne, p}
  /\ journal' = NoJournal
  /\ run' = [run EXCEPT ![p].pc = "setup", ![p].txn = FALSE, ![p].recovering = FALSE]
  /\ UNCHANGED <<dir, manifest, profile, lock, cmd, flock, kills, faults, cmds, mishaps>>

\* update_setup_status rewrites the receipt on one line.
Marked(m) == [m EXCEPT !.setup = "complete", !.lines = FALSE]

\* run_setup: nothing to do, the readiness check that writes the receipt once more, or the setup
\* of the new command, which marks the receipt in its own compact layout; then the exit trap.
FinishSetup(p) ==
  /\ run[p].pc = "setup"
  /\ \/ run[p].how # "pending" /\ UNCHANGED manifest
     \/ /\ run[p].how = "pending"
        /\ \E setup \in {"existing", "failed"} :
             manifest' = Receipt(run[p].ver, run[p].prev, setup, TRUE)
     \/ /\ run[p].how = "pending" /\ flock = NoOne /\ manifest.there
        /\ manifest' = Marked(manifest)
  /\ lock' = Released(p)
  /\ End(p, "done")
  /\ UNCHANGED <<dir, journal, profile, cmd, flock, kills, faults, cmds, mishaps>>

----------------------------------------------------------------------------
(***************************************************************************)
(* Failures, signals and kills of an installer.                            *)
(***************************************************************************)
\* A mutant: only an interrupted activation is taken back, not a later failure.
TrapRestores_Activating(r, d) ==
  IF r.activating /\ r.had /\ Present(d, r.prev) THEN Moved(d, r.prev, Bin)
  ELSE IF r.activating /\ ~r.had THEN Aside(d, Bin) ELSE d

\* The exit trap puts the prior executable back: at once during activation, else when the
\* transaction changed the command and did not commit.
TrapRestores(r, d) ==
  IF r.activating /\ r.had /\ Present(d, r.prev) THEN Moved(d, r.prev, Bin)
  ELSE IF r.activating /\ ~r.had THEN Aside(d, Bin)
  ELSE IF r.txn /\ ~r.activating /\ r.changed
       THEN IF r.prev # NoPath /\ Present(d, r.prev) THEN Moved(d, r.prev, Bin) ELSE Aside(d, Bin)
  ELSE d

\* The recovery has put the prior executable back and its journal still tells of the activation:
\* the next recovery would take the restored command for a bad candidate, move it aside and find
\* no prior executable.
Unrepeatable(p) ==
  run[p].pc = "clear" /\ journal.phase # "prepared" /\ journal.had /\ ~Present(dir, journal.prev)

\* A run stops that was recovering an interrupted one: between the rename that cannot be repeated
\* and the removal of the journal, or before the receipt names the command it adopted.
Stopped(p) ==
  mishaps \cup {m \in {"recovery interrupted"} : Unrepeatable(p)}
          \cup {m \in {"recovery unrecorded"} : run[p].recovering}

\* cleanup on exit: executable, profile, receipt, own journal, staged candidate, lock
Trap(p) ==
  LET r == run[p] IN
  /\ dir' = Aside(TrapRestores(r, dir), StageOf(p))
  /\ profile' = IF r.txn THEN r.saved.profile ELSE profile
  /\ manifest' = IF r.txn THEN r.saved.manifest ELSE manifest
  /\ journal' = IF r.txn /\ journal.pid = p THEN NoJournal ELSE journal
  /\ lock' = Released(p)
  /\ End(p, "failed")
  /\ mishaps' = Stopped(p)
  /\ UNCHANGED <<cmd, flock, kills, cmds>>

\* A step fails or a signal arrives; after the commit nothing is taken back.
Fails(p) ==
  /\ run[p].pc \in Holding /\ faults < MaxFaults
  /\ faults' = faults + 1
  /\ Trap(p)

\* The step's own check fails: no fault of the machine is needed.
Refuses(p) ==
  /\ \/ run[p].pc = "retain" /\ run[p].had /\ ~Present(dir, Bin)
     \/ run[p].pc = "swap" /\ ~Present(dir, StageOf(p))
     \/ run[p].pc = "smoke" /\ dir[Bin] # run[p].ver
     \/ run[p].pc = "validate" /\ ~ReceiptValid(p)
     \/ run[p].pc = "commit" /\ journal.pid \notin {NoOne, p}
  /\ UNCHANGED faults
  /\ Trap(p)

Killed(p) ==
  /\ Live(p) /\ kills < MaxKills
  /\ kills' = kills + 1
  /\ End(p, "killed")
  /\ mishaps' = Stopped(p)
  /\ UNCHANGED <<dir, manifest, journal, profile, lock, cmd, flock, faults, cmds>>

----------------------------------------------------------------------------
(***************************************************************************)
(* The Python commands: rollback, the setup status, uninstall.             *)
(***************************************************************************)
CmdVars == <<lock, journal, profile, run, faults, kills>>

\* They are subcommands of the installed executable; one overlaps with an installer that holds
\* its lock or was interrupted with its transaction open.
Enter(c, pc, rec) ==
  /\ Present(dir, Bin)
  /\ cmds < MaxCmds
  /\ cmds' = cmds + 1
  /\ cmd[c].pc = "idle"
  /\ cmd' = [cmd EXCEPT ![c] = [CmdIdle EXCEPT !.pc = pc, !.rec = rec,
                                             !.locked = (lock # "free")]]
  /\ mishaps' = mishaps \cup {m \in {"overlap"} :
                  journal # NoJournal \/ \E p \in Runs : run[p].pc \in Holding}

CmdGoto(c, pc) == cmd' = [cmd EXCEPT ![c].pc = pc]

\* The command ends; the file lock goes with the process.
Leave(c) ==
  /\ cmd' = [cmd EXCEPT ![c] = CmdIdle]
  /\ flock' = IF flock = c THEN NoOne ELSE flock

\* run_rollback reads the receipt and smoke-tests the candidate before it takes the lock.
RollbackLoad(c) ==
  /\ manifest.there /\ manifest.prev # NoPath /\ Present(dir, manifest.prev)
  /\ Enter(c, "locking", manifest)
  /\ UNCHANGED <<dir, manifest, flock, CmdVars>>

RollbackLock(c) ==
  /\ cmd[c].pc = "locking" /\ flock = NoOne
  /\ flock' = c
  /\ cmd' = [cmd EXCEPT ![c].pc = "out", ![c].swap = <<dir[Bin], dir[cmd[c].rec.prev]>>]
  /\ UNCHANGED <<dir, manifest, cmds, mishaps, CmdVars>>

RollbackOut(c) ==
  /\ cmd[c].pc = "out"
  /\ IF Present(dir, Bin)
     THEN dir' = Moved(dir, Bin, ExchangeOf(c)) /\ CmdGoto(c, "in") /\ UNCHANGED flock
     ELSE Leave(c) /\ UNCHANGED dir
  /\ UNCHANGED <<manifest, cmds, mishaps, CmdVars>>

RollbackIn(c) ==
  /\ cmd[c].pc = "in"
  /\ IF Present(dir, cmd[c].rec.prev)
     THEN dir' = Moved(dir, cmd[c].rec.prev, Bin) /\ CmdGoto(c, "keep") /\ UNCHANGED flock
     ELSE dir' = Moved(dir, ExchangeOf(c), Bin) /\ Leave(c)
  /\ UNCHANGED <<manifest, cmds, mishaps, CmdVars>>

RollbackKeep(c) ==
  /\ cmd[c].pc = "keep"
  /\ dir' = Moved(dir, ExchangeOf(c), cmd[c].rec.prev)
  /\ CmdGoto(c, "commit")
  /\ UNCHANGED <<manifest, flock, cmds, mishaps, CmdVars>>

RollbackRecord(c) ==
  /\ cmd[c].pc = "commit"
  /\ manifest' = [cmd[c].rec EXCEPT !.ver = dir[Bin], !.lines = TRUE]
  /\ Leave(c)
  /\ UNCHANGED <<dir, cmds, mishaps, CmdVars>>

\* A mutant: the prior command is always taken from the exchange name.
RollbackFails_FromExchange(c) ==
  /\ cmd[c].pc \in {"keep", "commit"} /\ faults < MaxFaults
  /\ faults' = faults + 1
  /\ dir' = [dir EXCEPT ![ExchangeOf(c)] = 0, ![cmd[c].rec.prev] = dir[Bin],
                        ![Bin] = dir[ExchangeOf(c)]]
  /\ Leave(c)
  /\ UNCHANGED <<manifest, cmds, lock, journal, profile, run, kills, mishaps>>

\* A failed verification or write exchanges the executables back.
RollbackFails(c) ==
  /\ cmd[c].pc \in {"keep", "commit"} /\ faults < MaxFaults
  /\ faults' = faults + 1
  /\ LET prev == cmd[c].rec.prev
         old == IF cmd[c].pc = "keep" THEN ExchangeOf(c) ELSE prev IN
       dir' = [dir EXCEPT ![ExchangeOf(c)] = 0, ![prev] = dir[Bin], ![Bin] = dir[old]]
  /\ Leave(c)
  /\ UNCHANGED <<manifest, cmds, lock, journal, profile, run, kills, mishaps>>

\* update_setup_status, from its read of the receipt to the publication
SetupLoad(c) ==
  /\ manifest.there /\ flock = NoOne
  /\ Enter(c, "mark", manifest)
  /\ flock' = c
  /\ UNCHANGED <<dir, manifest, CmdVars>>

SetupPublish(c) ==
  /\ cmd[c].pc = "mark"
  /\ manifest' = Marked(cmd[c].rec)
  /\ Leave(c)
  /\ UNCHANGED <<dir, cmds, mishaps, CmdVars>>

\* build_uninstall_plan lists what exists, and the removal comes after the prompts: the command,
\* the rollback the receipt names, the receipt and the installer's lock; not the journal, not
\* older rollbacks.
UninstallPlan(c) ==
  /\ manifest.there
  /\ Enter(c, "remove",
           [manifest EXCEPT !.prev = IF @ # NoPath /\ Present(dir, @) THEN @ ELSE NoPath])
  /\ UNCHANGED <<dir, manifest, flock, CmdVars>>

UninstallRemove(c) ==
  /\ cmd[c].pc = "remove"
  /\ dir' = [path \in Paths |-> IF path \in {Bin, cmd[c].rec.prev} THEN 0 ELSE dir[path]]
  /\ manifest' = NoManifest
  /\ lock' = IF cmd[c].locked THEN "free" ELSE lock
  /\ mishaps' = mishaps \cup {"uninstalled"}
                  \cup {m \in {"lock stolen"} : cmd[c].locked /\ LockInUse}
  /\ Leave(c)
  /\ UNCHANGED <<cmds, journal, profile, run, faults, kills>>

CmdKilled(c) ==
  /\ cmd[c].pc # "idle" /\ kills < MaxKills
  /\ kills' = kills + 1
  /\ mishaps' = IF cmd[c].pc \in {"in", "keep", "commit"} THEN mishaps \cup {"rollback killed"}
                                                         ELSE mishaps
  /\ Leave(c)
  /\ UNCHANGED <<dir, manifest, cmds, lock, journal, profile, run, faults>>

----------------------------------------------------------------------------
InstallerStep(p) ==
  \/ \E v \in Versions, how \in {"curl", "update"} : StartInstaller(p, v, how)
  \/ MakeLock(p) \/ PublishLock(p) \/ InspectLock(p) \/ WaitForPid(p) \/ QuarantineLock(p)
  \/ ReconcileOrphans(p) \/ ReconcileJournal(p) \/ RestorePrior(p) \/ ClearJournal(p)
  \/ ChooseTarget(p) \/ BeginTransaction(p) \/ StageCandidate(p) \/ PrepareActivation(p)
  \/ RetainPrevious(p) \/ NoteRetained(p) \/ SwapCandidate(p) \/ SmokeActivated(p)
  \/ ResolveInShell(p) \/ WriteMetadata(p) \/ ValidateReceipt(p) \/ CommitTransaction(p)
  \/ FinishSetup(p) \/ Fails(p) \/ Refuses(p) \/ Killed(p)

CommandStep(c) ==
  \/ RollbackLoad(c) \/ RollbackLock(c) \/ RollbackOut(c) \/ RollbackIn(c) \/ RollbackKeep(c)
  \/ RollbackRecord(c) \/ RollbackFails(c) \/ SetupLoad(c) \/ SetupPublish(c)
  \/ UninstallPlan(c) \/ UninstallRemove(c) \/ CmdKilled(c)

InstallNext == (\E p \in Runs : InstallerStep(p)) \/ (\E c \in Cmds : CommandStep(c))

InstallSpec == InstallInit /\ [][InstallNext]_installVars

----------------------------------------------------------------------------
(***************************************************************************)
(* Properties.                                                             *)
(***************************************************************************)
RunPcs == Holding \cup {"idle", "lock", "wait", "stale", "publish", "done", "failed", "killed"}

Receipts == [there : BOOLEAN, ver : 0 .. MaxVersion, prev : Rollbacks \cup {NoPath},
             setup : {"none", "complete", "skipped", "pending", "required", "existing", "failed"},
             lines : BOOLEAN]

Journals == [phase : {"none", "prepared", "activating", "activated"}, pid : Runs \cup {NoOne},
             ver : 0 .. MaxVersion, had : BOOLEAN, prev : Rollbacks \cup {NoPath}]

RunRecords == [pc : RunPcs, ver : 0 .. MaxVersion,
               how : {"none", "curl", "update", "skipped", "pending", "required"},
               tries : 0 .. 3, had : BOOLEAN, prev : Rollbacks \cup {NoPath},
               changed : BOOLEAN, activating : BOOLEAN, txn : BOOLEAN, recovering : BOOLEAN,
               saved : [manifest : Receipts, profile : BOOLEAN, bin : 0 .. MaxVersion]]

CmdRecords == [pc : {"idle", "locking", "out", "in", "keep", "commit", "mark", "remove"},
               rec : Receipts, locked : BOOLEAN, swap : (0 .. MaxVersion) \X (0 .. MaxVersion)]

\* Type invariant of the installer's and the commands' shared files and of their own variables.
InstallTypeOK ==
  /\ dir \in [Paths -> 0 .. MaxVersion]
  /\ manifest \in Receipts
  /\ lock \in {"free", "bare"} \cup Runs
  /\ journal \in Journals
  /\ profile \in BOOLEAN
  /\ run \in [Runs -> RunRecords]
  /\ cmd \in [Cmds -> CmdRecords]
  /\ flock \in Cmds \cup {NoOne}
  /\ kills \in 0 .. MaxKills /\ faults \in 0 .. MaxFaults /\ cmds \in 0 .. MaxCmds
  /\ mishaps \subseteq {"lock stolen", "overlap", "uninstalled", "rollback killed",
                 "recovery interrupted", "recovery unrecorded"}

\* Two installers are inside the lock only when a recovery of a crashed one's lock raced with a
\* new owner (install.sh acquire_lock, recover_existing_lock).
OneInstaller ==
  \A p, q \in Runs :
    p # q /\ run[p].pc \in Holding /\ run[q].pc \in Holding => "lock stolen" \in mishaps

Undisturbed == mishaps \subseteq {"recovery unrecorded"}

\* No program is running.
Quiet == (\A p \in Runs : ~Live(p)) /\ (\A c \in Cmds : cmd[c].pc = "idle")

\* What a next installer's reconciliation would do with the files as they are.
WouldDie ==
  IF journal = NoJournal THEN OrphansFatal(dir)
  ELSE \/ JournalFatal(dir, journal)
       \/ ~BeforeRetain(dir, journal) /\ journal.had /\ ~Present(dir, journal.prev)

WouldRestore ==
  IF journal = NoJournal THEN OldRollbacks(dir) # {}
  ELSE journal.had /\ Present(dir, journal.prev)

\* The command the receipt promises is there, or the next installer brings it back.
Survives == ~WouldDie /\ (manifest.there => Present(dir, Bin) \/ WouldRestore)

\* Installers killed or failed at any step, recoveries of interrupted installers included, leave the
\* command in place or the next installer brings it back, and that installer is not refused for
\* good.  Excepted are the disturbances mishaps names: a stolen lock, a command that overlaps with
\* an installer, an uninstall, a killed rollback, and a recovery that stops between the rename of
\* the prior executable and the removal of the journal (install.sh
\* reconcile_interrupted_transaction).
CommandSurvives == Quiet /\ Undisturbed => Survives

\* The same without the last exception: docs/GOAL_GENERAL_AVAILABILITY.md AC-INSTALL-011, "Failure
\* at any step MUST preserve or restore the previous working executable."  TLC refutes it:
\* README, 6.
AnyFailureSurvives ==
  Quiet /\ mishaps \subseteq {"recovery unrecorded", "recovery interrupted"} => Survives

\* With no transaction open, the receipt tells the truth: its version is the command's, and the
\* rollback it offers exists (install.sh write_metadata, update.py run_rollback).
ReceiptTrue ==
  Quiet /\ mishaps = {} /\ journal = NoJournal /\ manifest.there =>
    /\ manifest.ver = dir[Bin]
    /\ manifest.prev # NoPath => Present(dir, manifest.prev)

\* A transaction that fails or is interrupted by a signal leaves the command, the receipt and the
\* shell profile as they were when it began (install.sh cleanup, rollback_install_transaction).
FailureRestores ==
  [][\A p \in Runs :
       run[p].txn /\ run'[p].pc = "failed" /\ Undisturbed' =>
         [manifest |-> manifest', profile |-> profile', bin |-> dir'[Bin]] = run[p].saved]_installVars

\* A rollback that ends exchanges the command and the retained executable or leaves both in place
\* (update.py run_rollback).
RollbackExchanges ==
  [][\A c \in Cmds :
       cmd[c].pc \in {"out", "in", "keep", "commit"} /\ cmd'[c].pc = "idle" /\ Undisturbed' =>
         LET now == <<dir'[Bin], dir'[cmd[c].rec.prev]>>
             was == cmd[c].swap IN
         \/ now = was
         \/ now = <<was[2], was[1]>> /\ manifest'.ver = now[1]]_installVars

----------------------------------------------------------------------------
(***************************************************************************)
(* The inductive invariant: what an installer, a command and the files    *)
(* they leave behind look like at every step, as long as nothing happened *)
(* that no single program can answer for.                                  *)
(***************************************************************************)
\* The lock directory names its owner, or waits for the one that made it.
LockOK ==
  "lock stolen" \notin mishaps =>
    /\ \A p \in Runs : run[p].pc = "publish" => lock = "bare"
    /\ \A p \in Runs : run[p].pc \in Holding => lock = p
    /\ \A p, q \in Runs : run[p].pc = "publish" /\ run[q].pc = "publish" => p = q

\* A rollback between its two moves and its receipt, and any rollback that read the receipt.
MidSwap == {"in", "keep", "commit"}
Swapping == MidSwap \cup {"locking", "out"}

\* A prior executable has a name.
HadOK ==
  /\ journal.had => journal.prev # NoPath
  /\ \A p \in Runs : run[p].had => run[p].prev # NoPath
  /\ \A c \in Cmds : cmd[c].pc \in Swapping => cmd[c].rec.prev # NoPath

BeforeLock == {"lock", "wait", "stale", "publish"}

\* A run that does not hold the lock has nothing to take back.
Blank(r) ==
  /\ r.prev = NoPath /\ ~r.had /\ ~r.changed /\ ~r.activating /\ ~r.txn /\ ~r.recovering
  /\ r.pc \in BeforeLock => r.ver \in Versions

BlankOK == \A p \in Runs : run[p].pc \notin Holding => Blank(run[p])

\* The rollbacks that exist or that a file or a process names
Named ==
  {x \in Rollbacks :
     \/ Present(dir, x) \/ manifest.prev = x \/ journal.prev = x
     \/ \E q \in Runs : run[q].prev = x \/ run[q].saved.manifest.prev = x
     \/ \E c \in Cmds : cmd[c].rec.prev = x}

Early == {"idle", "lock", "wait", "stale", "publish", "reconcile", "restore", "clear", "choose",
          "begin", "keep", "stage", "prepare"}

\* The rollback name of a run is unused until its own activation.
FreshOK == \A p \in Runs : run[p].pc \in Early => RollbackOf(p) \notin Named

\* Without a command nothing is installed at all.
AllOrNothing(d, m) == Present(d, Bin) \/ (OldRollbacks(d) = {} /\ ~m.there)

\* The receipt speaks of the files.
Truthful(m, v, d) ==
  m.there => m.ver = v /\ (m.prev # NoPath => Present(d, m.prev))

\* What the reconciliation may find under journal j.
JournalOK(j, d, m) ==
  /\ j.pid \in Runs /\ j.ver \in Versions /\ j.phase # "none"
  /\ j.prev = IF j.had THEN RollbackOf(j.pid) ELSE NoPath
  /\ ~j.had => AllOrNothing(d, m)
  /\ j.phase = "prepared" =>
       IF ~j.had THEN ~Present(d, Bin)
       ELSE \/ Present(d, Bin) /\ d[Bin] # j.ver /\ ~Present(d, j.prev)
            \/ ~Present(d, Bin) /\ Present(d, j.prev) /\ d[j.prev] # j.ver
  /\ j.phase # "prepared" => /\ j.had => Present(d, j.prev)
                             /\ d[Bin] = j.ver \/ (~Present(d, Bin) /\ j.phase = "activating")

\* The files while no program changes them; told: no recovery ended without a receipt.
RestOK(d, m, j, told) ==
  IF j = NoJournal THEN AllOrNothing(d, m) /\ (told => Truthful(m, d[Bin], d))
                   ELSE JournalOK(j, d, m)

InTransaction == {"stage", "prepare", "retain", "note", "swap", "smoke", "resolve", "record",
                  "validate", "commit"}

Activating == {"retain", "note", "swap", "smoke"}

\* The journal of the run's own transaction, r being the run.
OwnJournal(p, r, phase) ==
  [phase |-> phase, pid |-> p, ver |-> r.ver, had |-> r.had, prev |-> r.prev]

PrevThere(r, d) == r.prev # NoPath => Present(d, r.prev)

\* The files as the transaction found them, or as its recovery of an earlier one left them.
Settled(r, d, m, j, told) ==
  j = NoJournal /\ AllOrNothing(d, m) /\ (told /\ ~r.recovering => Truthful(m, d[Bin], d))

\* What the exit trap would put back.
SavedOK(p, r, d, told) ==
  /\ r.saved.manifest.prev # RollbackOf(p)
  /\ r.saved.bin = 0 => OldRollbacks(d) = {} /\ ~r.saved.manifest.there
  /\ told /\ ~r.recovering => Truthful(r.saved.manifest, r.saved.bin, d)

\* The prior executable is under the run's rollback name, if there was one.
Retained(p, r, d) ==
  /\ r.had <=> r.saved.bin # 0
  /\ r.prev = IF r.had THEN RollbackOf(p) ELSE NoPath
  /\ r.had => d[RollbackOf(p)] = r.saved.bin

Recorded(r, m) == m.there /\ m.ver = r.ver /\ m.prev = r.prev

\* The files at each step of the installer p that holds the lock, r being its variables.
AtStep(p, r, d, m, j, told) ==
  /\ r.pc = "reconcile" => RestOK(d, m, j, told) /\ r.prev = NoPath
  /\ r.pc = "restore" =>
       j # NoJournal /\ JournalOK(j, d, m) /\ ~Present(d, Bin) /\ r.prev = NoPath
  /\ r.pc = "clear" =>
       /\ AllOrNothing(d, m) /\ PrevThere(r, d) /\ j # NoJournal
       /\ JournalOK(j, d, m) \/ (j.phase # "prepared" /\ j.had /\ ~Present(d, j.prev))
  /\ r.pc = "choose" => Settled(r, d, m, j, told) /\ PrevThere(r, d)
  /\ r.pc = "begin" => Settled(r, d, m, j, told) /\ d[Bin] # r.ver
  /\ r.pc = "keep" => Settled(r, d, m, j, told) /\ d[Bin] = r.ver /\ PrevThere(r, d)
  /\ r.pc \in {"stage", "prepare"} =>
       /\ Settled(r, d, m, j, told) /\ SavedOK(p, r, d, told)
       /\ d[Bin] # r.ver /\ r.saved.bin = d[Bin]
       /\ r.pc = "prepare" => d[StageOf(p)] = r.ver
  /\ r.pc = "retain" =>
       /\ j = OwnJournal(p, r, "prepared") /\ JournalOK(j, d, m) /\ SavedOK(p, r, d, told)
       /\ r.saved.bin = d[Bin] /\ (r.had <=> r.saved.bin # 0) /\ d[StageOf(p)] = r.ver
  /\ r.pc \in {"note", "swap"} =>
       /\ j = OwnJournal(p, r, IF r.pc = "note" THEN "prepared" ELSE "activating")
       /\ JournalOK(j, d, m) /\ SavedOK(p, r, d, told) /\ Retained(p, r, d)
       /\ ~Present(d, Bin) /\ d[StageOf(p)] = r.ver
  /\ r.pc = "smoke" =>
       /\ j = OwnJournal(p, r, "activating")
       /\ JournalOK(j, d, m) /\ SavedOK(p, r, d, told) /\ Retained(p, r, d)
       /\ d[Bin] = r.ver
  /\ r.pc \in {"resolve", "record", "validate", "commit"} =>
       /\ d[Bin] = r.ver /\ PrevThere(r, d) /\ SavedOK(p, r, d, told)
       /\ r.pc \in {"validate", "commit"} => Recorded(r, m)
       /\ IF r.changed
            THEN j = OwnJournal(p, r, "activated") /\ JournalOK(j, d, m) /\ Retained(p, r, d)
            ELSE r.saved.bin = d[Bin] /\ Settled(r, d, m, j, told)
  /\ r.pc = "setup" =>
       j = NoJournal /\ d[Bin] = r.ver /\ PrevThere(r, d) /\ Truthful(m, d[Bin], d)

HolderOK(p, r, d, m, j, told) ==
  /\ r.ver \in Versions
  /\ r.txn <=> r.pc \in InTransaction
  /\ r.activating <=> r.pc \in Activating
  /\ r.pc \notin {"smoke", "resolve", "record", "validate", "commit", "setup"} => ~r.changed
  /\ r.pc = "smoke" => r.changed
  /\ r.pc \in {"reconcile", "setup"} => ~r.recovering
  /\ r.pc \in {"restore", "clear"} => r.recovering
  /\ AtStep(p, r, d, m, j, told)

\* The executables at each step of a rollback, and what a command remembers; k is the
\* command, f the holder of the file lock.
CmdOK(c, k, d, m, f, told) ==
  k.pc # "idle" =>
    /\ m.there
    /\ k.pc \in MidSwap \cup {"out", "mark"} => f = c
    /\ k.pc \in Swapping => k.rec.there /\ k.rec.prev = m.prev
    /\ k.pc = "mark" => k.rec = m
    /\ k.pc \in MidSwap => k.swap[1] # 0 /\ (told => m.ver = k.swap[1] /\ k.swap[2] # 0)
    /\ k.pc = "out" => k.swap = <<d[Bin], d[m.prev]>>
    /\ k.pc = "in" => ~Present(d, Bin) /\ k.swap = <<d[ExchangeOf(c)], d[m.prev]>>
    /\ k.pc = "keep" => Present(d, Bin) /\ k.swap = <<d[ExchangeOf(c)], d[Bin]>>
    /\ k.pc = "commit" => Present(d, Bin) /\ k.swap = <<d[m.prev], d[Bin]>>

HolderInv ==
  \A p \in Runs : run[p].pc \in Holding =>
    /\ HolderOK(p, run[p], dir, manifest, journal, mishaps = {})
    /\ \A c \in Cmds : cmd[c].pc = "idle"

NoHolder == \A p \in Runs : run[p].pc \notin Holding

RestInv ==
  NoHolder =>
    /\ (\A c \in Cmds : cmd[c].pc \notin MidSwap) => RestOK(dir, manifest, journal, mishaps = {})
    /\ journal # NoJournal => \A c \in Cmds : cmd[c].pc = "idle"
    /\ \A c \in Cmds : CmdOK(c, cmd[c], dir, manifest, flock, mishaps = {})

\* What every step preserves: the lock has one owner, no name is used twice, and as long as nothing
\* disturbed the programs the files are as the program at work or its crash left them.
InstallInv ==
  /\ InstallTypeOK /\ HadOK /\ LockOK /\ BlankOK /\ FreshOK
  /\ Undisturbed => HolderInv /\ RestInv
=============================================================================
