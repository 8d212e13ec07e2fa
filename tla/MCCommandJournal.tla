---------------------------- MODULE MCCommandJournal ----------------------------
(***************************************************************************)
(* Small instances of CommandJournal: two processes that may share a host  *)
(* or not, two commands that either may launch, two pids, a Linux host and *)
(* one without /proc.                                                      *)
(***************************************************************************)
EXTENDS CommandJournal, TLC

CONSTANTS a, b, x, y, lin, mac, d1, d2

\* Nothing tells two of our processes, two commands or two pids apart.
Interchangeable ==
  Permutations(Procs \ Foreign) \cup Permutations(Cmds) \cup Permutations(Pids)
=============================================================================
