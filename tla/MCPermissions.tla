--------------------------- MODULE MCPermissions ---------------------------
(* A small instance: two processes that see the project under two paths, for *)
(* instance before and after the checkout was moved; an ordinary command and *)
(* a dangerous one under the same rule, a write outside the project, a       *)
(* sensitive read.                                                           *)
EXTENDS Permissions, TLC

CONSTANTS s1, s2, wRoot, wSub, execute, write, read, top, other

MCWorkspace == s1 :> wRoot @@ s2 :> wSub
MCTexts == {"test", "test all", "push", "notes", "env"}
MCCovers == [t \in MCTexts |-> IF t = "test" THEN {"test", "test all"} ELSE {t}]

Command(target, rule, level) ==
  [kind |-> "shell", tool |-> execute, targets |-> {target, rule}, rule |-> rule,
   level |-> level, root |-> top, store |-> FALSE, sensitive |-> {}, lookup |-> FALSE]

WriteOutside ==
  [kind |-> "write", tool |-> write, targets |-> {"notes"}, rule |-> "notes",
   level |-> "safe", root |-> other, store |-> FALSE, sensitive |-> {}, lookup |-> FALSE]

ReadEnv ==
  [kind |-> "read", tool |-> read, targets |-> {"env"}, rule |-> "env",
   level |-> "safe", root |-> top, store |-> FALSE, sensitive |-> {"env"}, lookup |-> FALSE]

MCCalls == {Command("test all", "test", "safe"), Command("push", "test", "dangerous"),
            WriteOutside, ReadEnv}
============================================================================
