---------------------------- MODULE CommandJournal ----------------------------
(***************************************************************************)
(* Background shell commands and their durable journal: the SQLite sidecar *)
(* that several coding-agent processes share, the recorder that each       *)
(* process writes it with, the registry of running commands, and the       *)
(* recovery every session start runs over the rows of lost processes.      *)
(*                                                                         *)
(* A store operation is synchronous: while a process is in one it does     *)
(* nothing else, but other processes do.  transitionCommand is a SELECT    *)
(* and a later UPDATE that does not repeat the check, so another process   *)
(* may write in between; recoverOrphanedCommands holds the write lock      *)
(* from its SELECT to its COMMIT.  Any store operation may throw: the lock *)
(* stays busy for five seconds, or the disk fails.                         *)
(***************************************************************************)
EXTENDS Naturals, FiniteSets

CONSTANTS
  Procs,    \* processes that run at one time or another
  Foreign,  \* those of other users and programs, which only hold a pid
  Cmds,     \* background commands
  Hosts,    \* machines that share the agent directory
  Linux,    \* the hosts with /proc: a boot id and start tokens
  Pids,     \* the pids a host hands out, reused once free
  None,     \* no process, host, pid or command
  MaxBoots  \* bound on the reboots of a host

ASSUME JournalAssumption ==
  /\ Foreign \subseteq Procs /\ Linux \subseteq Hosts /\ MaxBoots \in Nat
  /\ None \notin Procs \cup Cmds \cup Hosts \cup Pids

VARIABLES
  boot,     \* boot[h]: which boot host h is in
  stage,    \* stage[p]: how far process p's session start got
  host,     \* host[p], pid[p], born[p]: where, as what and in which boot p runs;
  pid,      \* kept after p's death, as in the rows it owns
  born,
  disposed, \* disposed[p]: p's session was disposed
  cur,      \* cur[p]: the command whose store operation p is inside
  checked,  \* checked[p]: that operation has read the row and found it may write
  lock,     \* the process that holds the write lock across its recovery
  todo,     \* recovery: rows read and not judged yet
  doomed,   \* recovery: rows whose owner was found gone
  probe,    \* recovery: the row whose pid was found live and whose token is next
  owed,     \* rows that were lost when the recovery under way read the journal
  row,      \* row[c]: the state column
  owner,    \* owner[c]: the owner columns
  job,      \* job[c]: where the bash tool and the registry are with c
  killed,   \* killed[c]: entry.killed
  proc      \* proc[c]: c's operating-system process

worldVars == <<boot, host, pid, born>>
recoveryVars == <<lock, todo, doomed, probe, owed>>
opVars == <<cur, checked>>
cmdVars == <<row, owner, job, killed, proc>>
vars == <<worldVars, stage, disposed, recoveryVars, opVars, cmdVars>>

Unfinished == {"created", "running"}
Ended == {"zero", "nonzero", "signal"}
Ready == {"recovered", "blind"}

Up(p) == stage[p] \notin {"unborn", "dead"}

\* p's event loop is free: its session started and no store operation is under way.
Free(p) == stage[p] \in Ready /\ cur[p] = None

TypeOK ==
  /\ boot \in [Hosts -> 0..MaxBoots]
  /\ stage \in [Procs -> {"unborn", "foreign", "opening", "recovering", "dead"} \cup Ready]
  /\ host \in [Procs -> Hosts \cup {None}]
  /\ pid \in [Procs -> Pids \cup {None}]
  /\ born \in [Procs -> 0..MaxBoots]
  /\ disposed \in [Procs -> BOOLEAN]
  /\ cur \in [Procs -> Cmds \cup {None}]
  /\ checked \in [Procs -> BOOLEAN]
  /\ lock \in Procs \cup {None}
  /\ todo \subseteq Cmds /\ doomed \subseteq Cmds /\ owed \subseteq Cmds
  /\ probe \in Cmds \cup {None}
  /\ row \in [Cmds -> {"absent", "completed", "failed", "interrupted"} \cup Unfinished]
  /\ owner \in [Cmds -> Procs \cup {None}]
  /\ job \in [Cmds -> {"idle", "begin", "launching", "failing", "running",
                       "finishing", "over", "refused"}]
  /\ killed \in [Cmds -> BOOLEAN]
  /\ proc \in [Cmds -> {"unstarted", "live"} \cup Ended]

Init ==
  /\ boot = [h \in Hosts |-> 0]
  /\ stage = [p \in Procs |-> "unborn"]
  /\ host = [p \in Procs |-> None]
  /\ pid = [p \in Procs |-> None]
  /\ born = [p \in Procs |-> 0]
  /\ disposed = [p \in Procs |-> FALSE]
  /\ cur = [p \in Procs |-> None]
  /\ checked = [p \in Procs |-> FALSE]
  /\ lock = None /\ probe = None
  /\ todo = {} /\ doomed = {} /\ owed = {}
  /\ row = [c \in Cmds |-> "absent"]
  /\ owner = [c \in Cmds |-> None]
  /\ job = [c \in Cmds |-> "idle"]
  /\ killed = [c \in Cmds |-> FALSE]
  /\ proc = [c \in Cmds |-> "unstarted"]

-----------------------------------------------------------------------------
(* Processes come and go. *)

\* The live processes that have pid d on host h: at most one.
Holders(h, d) == {q \in Procs : Up(q) /\ host[q] = h /\ pid[q] = d}

\* A process starts.  One of ours goes on to recover the journal before its
\* session exists.
Start(p, h, d) ==
  /\ stage[p] = "unborn"
  /\ Holders(h, d) = {}
  /\ stage' = [stage EXCEPT ![p] = IF p \in Foreign THEN "foreign" ELSE "opening"]
  /\ host' = [host EXCEPT ![p] = h]
  /\ pid' = [pid EXCEPT ![p] = d]
  /\ born' = [born EXCEPT ![p] = boot[h]]
  /\ UNCHANGED <<boot, disposed, recoveryVars, opVars, cmdVars>>

\* SQLite rolls back what a lost process had not committed.
Unlock == lock' = None /\ todo' = {} /\ doomed' = {} /\ probe' = None /\ owed' = {}

UnlockIf(lost) == IF lost THEN Unlock ELSE UNCHANGED recoveryVars

\* A process exits or is killed at any point, inside a store operation too.  Its
\* background commands are detached and may go on without it.
Die(p) ==
  /\ Up(p)
  /\ stage' = [stage EXCEPT ![p] = "dead"]
  /\ UnlockIf(lock = p)
  /\ UNCHANGED <<worldVars, disposed, opVars, cmdVars>>

\* A host reboots: its processes and their commands are gone.
Reboot(h) ==
  /\ boot[h] < MaxBoots
  /\ boot' = [boot EXCEPT ![h] = @ + 1]
  /\ stage' = [p \in Procs |-> IF Up(p) /\ host[p] = h THEN "dead" ELSE stage[p]]
  /\ proc' = [c \in Cmds |->
       IF proc[c] = "live" /\ \E p \in Procs : owner[c] = p /\ host[p] = h
       THEN "signal" ELSE proc[c]]
  /\ UnlockIf(\E p \in Procs : lock = p /\ host[p] = h)
  /\ UNCHANGED <<host, pid, born, disposed, opVars, row, owner, job, killed>>

-----------------------------------------------------------------------------
(* Recovery at session start: recoverOrphans and recoverOrphanedCommands. *)

\* BEGIN IMMEDIATE, then the SELECT of every unfinished row.
RecoverLock(p) ==
  /\ stage[p] = "opening" /\ lock = None
  /\ stage' = [stage EXCEPT ![p] = "recovering"]
  /\ lock' = p
  /\ todo' = {c \in Cmds : row[c] \in Unfinished}
  /\ owed' = {c \in Cmds : /\ row[c] \in Unfinished
                           /\ ~Up(owner[c]) /\ host[owner[c]] = host[p]}
  /\ UNCHANGED <<worldVars, disposed, doomed, probe, opVars, cmdVars>>

\* Opening, locking or committing throws: rolled back, and the session starts
\* all the same.
RecoverFails(p) ==
  /\ stage[p] \in {"opening", "recovering"}
  /\ stage' = [stage EXCEPT ![p] = "blind"]
  /\ UnlockIf(lock = p)
  /\ UNCHANGED <<worldVars, disposed, opVars, cmdVars>>

\* A changed form: the row's host is not compared.
JudgementAnyHost(p, o) ==
  IF \/ host[p] \in Linux /\ born[o] # born[p]
     \/ Holders(host[p], pid[o]) = {}
  THEN "gone" ELSE "token"

\* ownerIsAlive up to process.kill(pid, 0): what p concludes of o, or that it has
\* to read the start token of whoever has o's pid now.
Judgement(p, o) ==
  LET holders == Holders(host[p], pid[o]) IN
  IF host[o] # host[p] THEN "alive"
  ELSE IF (host[p] \in Linux /\ born[o] # born[p]) \/ holders = {} THEN "gone"
  ELSE IF host[p] \notin Linux \/ holders \subseteq Foreign THEN "alive"
  ELSE "token"

Judge(p, c) ==
  /\ lock = p /\ probe = None /\ c \in todo
  /\ LET verdict == Judgement(p, owner[c]) IN
       /\ todo' = todo \ {c}
       /\ doomed' = IF verdict = "gone" THEN doomed \cup {c} ELSE doomed
       /\ probe' = IF verdict = "token" THEN c ELSE None
  /\ UNCHANGED <<worldVars, stage, disposed, lock, owed, opVars, cmdVars>>

ReusedUnread(o) == FALSE   \* a changed form: a live pid counts as the owner
\* The token of a pid that has vanished since cannot be read, which counts as
\* alive; a token that differs proves the pid was reused.
Reused(o) ==
  LET holders == Holders(host[o], pid[o]) IN holders # {} /\ o \notin holders

ReadToken(p) ==
  /\ lock = p /\ probe # None
  /\ doomed' = IF Reused(owner[probe]) THEN doomed \cup {probe} ELSE doomed
  /\ probe' = None
  /\ UNCHANGED <<worldVars, stage, disposed, lock, todo, owed, opVars, cmdVars>>

\* A changed form: the verdict is recorded as the state.
RecoverCommitVerdict(p) ==
  /\ lock = p /\ probe = None /\ todo = {}
  /\ row' = [c \in Cmds |-> IF c \in doomed THEN "gone" ELSE row[c]]
  /\ stage' = [stage EXCEPT ![p] = "recovered"]
  /\ Unlock
  /\ UNCHANGED <<worldVars, disposed, opVars, owner, job, killed, proc>>
\* Every lost row becomes interrupted in one transaction.
RecoverCommit(p) ==
  /\ lock = p /\ probe = None /\ todo = {}
  /\ row' = [c \in Cmds |-> IF c \in doomed THEN "interrupted" ELSE row[c]]
  /\ stage' = [stage EXCEPT ![p] = "recovered"]
  /\ Unlock
  /\ UNCHANGED <<worldVars, disposed, opVars, owner, job, killed, proc>>

-----------------------------------------------------------------------------
(* The recorder's writes. *)

OutcomeUnlessKilled(c) == IF killed[c] THEN "failed" ELSE "completed"   \* a changed form
\* What finish records: killing wins over the exit code.
Outcome(c) == IF ~killed[c] /\ proc[c] = "zero" THEN "completed" ELSE "failed"

\* The state the operation under way for c means to write.
Target(c) ==
  IF job[c] = "begin" THEN "running"
  ELSE IF job[c] = "failing" THEN "failed" ELSE Outcome(c)

\* COMMAND_TRANSITIONS.
Allowed(from, to) ==
  \/ from = "created" /\ to \in {"running", "failed", "interrupted"}
  \/ from = "running" /\ to \in {"completed", "failed", "interrupted"}

\* begin: the row is inserted as created; moving it to running follows.  An
\* aborted agent, as a disposed session's is, starts no tool call.
Begin(p, c) ==
  /\ Free(p) /\ ~disposed[p] /\ job[c] = "idle" /\ lock = None
  /\ row' = [row EXCEPT ![c] = "created"]
  /\ owner' = [owner EXCEPT ![c] = p]
  /\ job' = [job EXCEPT ![c] = "begin"]
  /\ cur' = [cur EXCEPT ![p] = c]
  /\ UNCHANGED <<worldVars, stage, disposed, recoveryVars, checked, killed, proc>>

\* A command that cannot be recorded is not started.
BeginFails(p, c) ==
  /\ Free(p) /\ ~disposed[p] /\ job[c] = "idle"
  /\ job' = [job EXCEPT ![c] = "refused"]
  /\ UNCHANGED <<worldVars, stage, disposed, recoveryVars, opVars, row, owner, killed, proc>>

\* p's transitionCommand: the SELECT and the check.
Check(p) ==
  /\ Up(p) /\ cur[p] # None /\ ~checked[p]
  /\ Allowed(row[cur[p]], Target(cur[p]))
  /\ checked' = [checked EXCEPT ![p] = TRUE]
  /\ UNCHANGED <<worldVars, stage, disposed, recoveryVars, cur, cmdVars>>

Return(p) == cur' = [cur EXCEPT ![p] = None] /\ checked' = [checked EXCEPT ![p] = FALSE]

\* Where an operation's return leads: the tool goes on to spawn the process,
\* reports the launch error, or the registry is done with the command.
Returned(j) ==
  IF j = "begin" THEN "launching" ELSE IF j = "failing" THEN "refused" ELSE "over"

ThrownLogged(j) == Returned(j)   \* a changed form: logged, and on as if it had returned
\* begin lets an error out and the command is refused; finish and fail swallow it.
Thrown(j) == IF j \in {"begin", "failing"} THEN "refused" ELSE "over"

\* The UPDATE.
Write(p) ==
  /\ Up(p) /\ cur[p] # None /\ checked[p] /\ lock = None
  /\ row' = [row EXCEPT ![cur[p]] = Target(cur[p])]
  /\ job' = [job EXCEPT ![cur[p]] = Returned(@)]
  /\ Return(p)
  /\ UNCHANGED <<worldVars, stage, disposed, recoveryVars, owner, killed, proc>>

\* The operation throws, on an illegal transition or a store that fails.
Throws(p) ==
  /\ Up(p) /\ cur[p] # None
  /\ job' = [job EXCEPT ![cur[p]] = Thrown(@)]
  /\ Return(p)
  /\ UNCHANGED <<worldVars, stage, disposed, recoveryVars, row, owner, killed, proc>>

-----------------------------------------------------------------------------
(* The bash tool's background branch and the registry. *)

\* spawnBackground returns: the process runs and the registry tracks it.
Launched(p, c) ==
  /\ Free(p) /\ owner[c] = p /\ job[c] = "launching"
  /\ job' = [job EXCEPT ![c] = "running"]
  /\ proc' = [proc EXCEPT ![c] = "live"]
  /\ UNCHANGED <<worldVars, stage, disposed, recoveryVars, opVars, row, owner, killed>>

\* spawnBackground throws, and failJournal records that nothing was started.
LaunchFails(p, c) ==
  /\ Free(p) /\ owner[c] = p /\ job[c] = "launching"
  /\ job' = [job EXCEPT ![c] = "failing"]
  /\ cur' = [cur EXCEPT ![p] = c]
  /\ UNCHANGED <<worldVars, stage, disposed, recoveryVars, checked, row, owner, killed, proc>>

\* The operating system ends the command, by SIGKILL once it was killed live.
CommandExits(c) ==
  /\ proc[c] = "live"
  /\ \E e \in Ended : /\ killed[c] => e = "signal"
                      /\ proc' = [proc EXCEPT ![c] = e]
  /\ UNCHANGED <<worldVars, stage, disposed, recoveryVars, opVars, row, owner, job, killed>>

\* The exit reaches the event loop, and finish records the outcome.
ExitNoticed(p, c) ==
  /\ Free(p) /\ owner[c] = p /\ job[c] = "running" /\ proc[c] \in Ended
  /\ job' = [job EXCEPT ![c] = "finishing"]
  /\ cur' = [cur EXCEPT ![p] = c]
  /\ UNCHANGED <<worldVars, stage, disposed, recoveryVars, checked, row, owner, killed, proc>>

\* kill marks an entry whose exit has not been noticed, exited or not.
Kill(p, c) ==
  /\ Free(p) /\ owner[c] = p /\ job[c] = "running"
  /\ killed' = [killed EXCEPT ![c] = TRUE]
  /\ UNCHANGED <<worldVars, stage, disposed, recoveryVars, opVars, row, owner, job, proc>>

\* The session is disposed: everything the registry tracks is killed.
Dispose(p) ==
  /\ Free(p) /\ ~disposed[p]
  /\ disposed' = [disposed EXCEPT ![p] = TRUE]
  /\ killed' = [c \in Cmds |-> killed[c] \/ (owner[c] = p /\ job[c] = "running")]
  /\ UNCHANGED <<worldVars, stage, recoveryVars, opVars, row, owner, job, proc>>

-----------------------------------------------------------------------------
Operation(p) ==
  \/ RecoverLock(p) \/ RecoverFails(p) \/ ReadToken(p) \/ RecoverCommit(p)
  \/ Check(p) \/ Write(p) \/ Throws(p) \/ Dispose(p) \/ Die(p)

CommandOperation(p, c) ==
  \/ Judge(p, c) \/ Begin(p, c) \/ BeginFails(p, c) \/ Launched(p, c)
  \/ LaunchFails(p, c) \/ ExitNoticed(p, c) \/ Kill(p, c)

Next ==
  \/ \E p \in Procs, h \in Hosts, d \in Pids : Start(p, h, d)
  \/ \E h \in Hosts : Reboot(h)
  \/ \E p \in Procs : Operation(p)
  \/ \E p \in Procs, c \in Cmds : CommandOperation(p, c)
  \/ \E c \in Cmds : CommandExits(c)

Spec == Init /\ [][Next]_vars

-----------------------------------------------------------------------------
(* Properties. *)

\* As long as its owner lives, a command that is being launched or runs is on
\* record as running: begin wrote it before the process could start, and no
\* other process's recovery took it away since.
LiveCommandIsRunning ==
  \A c \in Cmds : owner[c] # None /\ Up(owner[c]) /\ job[c] \in {"launching", "running"}
                  => row[c] = "running"

\* transitionCommand's UPDATE does not repeat the check its SELECT made, and
\* nothing another process does in between makes the check stale.
CheckStillHolds ==
  \A p \in Procs : Up(p) /\ checked[p] => Allowed(row[cur[p]], Target(cur[p]))

\* Rows a recovery may leave alone although their owner is gone: another
\* process was given the owner's pid, and either no start token tells them
\* apart, or it is not ours to signal, or it vanished before its token was read.
Excused(p, c) ==
  \E q \in Procs \ {owner[c]} :
    /\ host[q] = host[p] /\ pid[q] = pid[owner[c]]
    /\ \/ host[p] \notin Linux
       \/ /\ born[owner[c]] = born[p] /\ born[q] = born[p]
          /\ q \in Foreign \/ stage[q] = "dead"

\* A recovery that commits has interrupted every row of this host that was lost
\* when it read the journal, a reused pid notwithstanding.
RecoveryMissesNone ==
  [][\A p \in Procs : stage[p] = "recovering" /\ stage'[p] = "recovered"
       => \A c \in owed : row'[c] = "interrupted" \/ Excused(p, c)]_vars

\* The journal keeps the promises of CommandLife: a row says completed, failed
\* or interrupted once and for good, completed only after exit status 0,
\* interrupted only when the owner is gone, and no process starts unrecorded.
Journal == [c \in Cmds |-> IF row[c] \in Unfinished THEN "pending" ELSE row[c]]
Gone == {p \in Procs : stage[p] = "dead"}
Life == INSTANCE CommandLife WITH journal <- Journal, gone <- Gone
Promise == Life!Spec

\* Disposing a session kills everything still running, so no background command
\* outlives the session that launched it (background-shell.ts:9-11).  The code
\* does not keep this: a launch under way registers after the dispose.
NoCommandOutlives ==
  \A c \in Cmds : owner[c] # None /\ disposed[owner[c]] /\ job[c] = "running" => killed[c]
=============================================================================
