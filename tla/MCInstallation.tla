---------------------------- MODULE MCInstallation ----------------------------
EXTENDS Installation, TLC

Symmetric == Permutations(Runs) \cup Permutations(Cmds)

\* Past an overlap or a stolen lock no property says anything: such a state is only followed
\* when nothing else happened, with one command and one installer, or with installers alone.
Excused ==
  /\ mishaps \cap {"overlap", "lock stolen"} # {} => kills = 0 /\ faults = 0
  /\ "overlap" \in mishaps => cmds = 1 /\ Cardinality({p \in Runs : run[p].pc # "idle"}) = 1
  /\ "lock stolen" \in mishaps => cmds = 0
=============================================================================
