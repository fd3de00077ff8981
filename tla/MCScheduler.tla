----------------------------- MODULE MCScheduler -----------------------------
(* Two crons in a calendar of two-minute days: one fires on every minute of
   the first day of the month or of any weekday 1, the other on one minute of
   the year only, and the search does not look as far as the next year. *)
EXTENDS Scheduler, TLC

CronExprs ==
  {[minute |-> {0, 1}, hour |-> {0}, day |-> {1}, month |-> {1, 2}, dow |-> {1}],
   [minute |-> {1}, hour |-> {0}, day |-> {1}, month |-> {1}, dow |-> 0 .. 3]}

Interchangeable == Permutations(Chats) \cup Permutations(JobIds)
=============================================================================
