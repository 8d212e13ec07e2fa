----------------------------- MODULE CommandLife -----------------------------
(***************************************************************************)
(* What the command journal promises a reader of the sidecar, with no      *)
(* word on how: a background command is recorded before its process        *)
(* starts, the process that recorded it is the one that reports how it     *)
(* ended, and only the loss of that process lets anyone else write, and    *)
(* then nothing but "interrupted" (docs/specs/                             *)
(* 2026-08-15-durable-state-and-daemon.md, invariants 2 and 4).            *)
(* CommandJournal implements this specification.                           *)
(***************************************************************************)
CONSTANTS Cmds,   \* background commands
          Procs,  \* coding-agent processes
          None    \* no process

VARIABLES journal, \* what the sidecar says of each command
          proc,    \* what became of the operating system's process of each
          owner,   \* who recorded it
          gone     \* the coding-agent processes that have died

vars == <<journal, proc, owner, gone>>

Ended == {"zero", "nonzero", "signal"}

Init ==
  /\ journal = [c \in Cmds |-> "absent"]
  /\ proc = [c \in Cmds |-> "unstarted"]
  /\ owner = [c \in Cmds |-> None]
  /\ gone = {}

Mine(c) == journal[c] = "pending" /\ owner[c] \in Procs \ gone

Report(c, outcome) ==
  /\ journal' = [journal EXCEPT ![c] = outcome]
  /\ UNCHANGED <<proc, owner, gone>>

Record(c, p) ==
  /\ journal[c] = "absent" /\ p \notin gone
  /\ journal' = [journal EXCEPT ![c] = "pending"]
  /\ owner' = [owner EXCEPT ![c] = p]
  /\ UNCHANGED <<proc, gone>>

\* Journal before execution.
Start(c) ==
  /\ Mine(c) /\ proc[c] = "unstarted"
  /\ proc' = [proc EXCEPT ![c] = "live"]
  /\ UNCHANGED <<journal, owner, gone>>

Complete(c) == Mine(c) /\ proc[c] = "zero" /\ Report(c, "completed")

\* A command that was killed is reported as failed whatever its exit code.
Fail(c) == Mine(c) /\ proc[c] # "live" /\ Report(c, "failed")

\* One recovery interrupts every command it found lost, all at once.
Interrupt(C) ==
  /\ \A c \in C : journal[c] = "pending" /\ owner[c] \in gone
  /\ journal' = [c \in Cmds |-> IF c \in C THEN "interrupted" ELSE journal[c]]
  /\ UNCHANGED <<proc, owner, gone>>

\* Processes end and are lost at any time, a whole machine's at once.
World ==
  /\ gone \subseteq gone' /\ gone' \subseteq Procs
  /\ \A c \in Cmds : proc'[c] # proc[c] => proc[c] = "live" /\ proc'[c] \in Ended
  /\ proc' \in [Cmds -> {"unstarted", "live"} \cup Ended]
  /\ UNCHANGED <<journal, owner>>

Next ==
  \/ \E c \in Cmds : Start(c) \/ Complete(c) \/ Fail(c)
  \/ \E c \in Cmds, p \in Procs : Record(c, p)
  \/ \E C \in SUBSET Cmds : Interrupt(C)
  \/ World

Spec == Init /\ [][Next]_vars
=============================================================================
