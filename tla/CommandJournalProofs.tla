------------------------- MODULE CommandJournalProofs -------------------------
(***************************************************************************)
(* Theorems about CommandJournal, for any processes, hosts, pids and       *)
(* commands: its types, and that it implements CommandLife.                *)
(***************************************************************************)
EXTENDS CommandJournal, TLAPS

-----------------------------------------------------------------------------
(* Types. *)

LEMMA JournalTypesInit == Init => TypeOK
  BY JournalAssumption DEF Init, TypeOK, Ready, Unfinished

\* The steps of processes and recoveries keep their types.
LEMMA WorldTypes ==
  ASSUME TypeOK, NEW p \in Procs,
         \/ \E h \in Hosts, d \in Pids : Start(p, h, d)
         \/ Die(p) \/ RecoverLock(p) \/ RecoverFails(p) \/ ReadToken(p)
         \/ RecoverCommit(p)
  PROVE  TypeOK'
<1> USE JournalAssumption DEF TypeOK, Ready, Unfinished, Ended, Unlock, UnlockIf,
      worldVars, recoveryVars, opVars, cmdVars
<1>1. CASE \E h \in Hosts, d \in Pids : Start(p, h, d)
  BY <1>1 DEF Start
<1>2. CASE Die(p)
  BY <1>2 DEF Die
<1>3. CASE RecoverLock(p)
  BY <1>3 DEF RecoverLock
<1>4. CASE RecoverFails(p)
  BY <1>4 DEF RecoverFails
<1>5. CASE ReadToken(p)
  BY <1>5 DEF ReadToken
<1>6. CASE RecoverCommit(p)
  BY <1>6 DEF RecoverCommit
<1> QED
  BY <1>1, <1>2, <1>3, <1>4, <1>5, <1>6

LEMMA RebootTypes ==
  ASSUME TypeOK, NEW h \in Hosts, Reboot(h)
  PROVE  TypeOK'
  BY JournalAssumption DEF Reboot, TypeOK, Ready, Unfinished, Ended, Unlock, UnlockIf,
     worldVars, recoveryVars, opVars, cmdVars

LEMMA TargetType ==
  ASSUME TypeOK, NEW c \in Cmds
  PROVE  Target(c) \in {"running", "completed", "failed"}
  BY DEF Target, Outcome, TypeOK

\* A store operation's steps and the session's end.
LEMMA OperationTypes ==
  ASSUME TypeOK, NEW p \in Procs, Check(p) \/ Write(p) \/ Throws(p) \/ Dispose(p)
  PROVE  TypeOK'
<1> USE JournalAssumption DEF TypeOK, Ready, Unfinished, Ended, Return, Returned, Thrown,
      worldVars, recoveryVars, opVars, cmdVars
<1>1. CASE Check(p)
  BY <1>1 DEF Check
<1>2. CASE Write(p)
  <2>1. cur[p] \in Cmds
    BY <1>2 DEF Write
  <2>2. Target(cur[p]) \in {"running", "completed", "failed"}
    BY <2>1, TargetType
  <2> QED BY <1>2, <2>1, <2>2 DEF Write
<1>3. CASE Throws(p)
  BY <1>3 DEF Throws
<1>4. CASE Dispose(p)
  BY <1>4 DEF Dispose
<1> QED
  BY <1>1, <1>2, <1>3, <1>4

\* The steps of one command.
LEMMA CommandTypes ==
  ASSUME TypeOK, NEW c \in Cmds,
         CommandExits(c) \/ \E p \in Procs : CommandOperation(p, c)
  PROVE  TypeOK'
<1> USE JournalAssumption DEF TypeOK, Ready, Unfinished, Ended,
      worldVars, recoveryVars, opVars, cmdVars
<1>1. CASE CommandExits(c)
  BY <1>1 DEF CommandExits
<1>2. ASSUME NEW p \in Procs, CommandOperation(p, c) PROVE TypeOK'
  <2>1. CASE Judge(p, c)
    BY <2>1 DEF Judge
  <2>2. CASE Begin(p, c)
    BY <2>2 DEF Begin
  <2>3. CASE BeginFails(p, c)
    BY <2>3 DEF BeginFails
  <2>4. CASE Launched(p, c)
    BY <2>4 DEF Launched
  <2>5. CASE LaunchFails(p, c)
    BY <2>5 DEF LaunchFails
  <2>6. CASE ExitNoticed(p, c)
    BY <2>6 DEF ExitNoticed
  <2>7. CASE Kill(p, c)
    BY <2>7 DEF Kill
  <2> QED
    BY <1>2, <2>1, <2>2, <2>3, <2>4, <2>5, <2>6, <2>7 DEF CommandOperation
<1> QED
  BY <1>1, <1>2

LEMMA JournalTypesStep == TypeOK /\ [Next]_vars => TypeOK'
<1> SUFFICES ASSUME TypeOK, [Next]_vars PROVE TypeOK'
  OBVIOUS
<1>1. CASE UNCHANGED vars
  BY <1>1 DEF TypeOK, vars, worldVars, recoveryVars, opVars, cmdVars
<1>2. CASE Next
  BY <1>2, WorldTypes, RebootTypes, OperationTypes, CommandTypes DEF Next, Operation
<1> QED
  BY <1>1, <1>2

\* Every variable of the journal, its recorders and its registries keeps its
\* type, whatever dies, reboots or throws.
THEOREM JournalTypes == Spec => []TypeOK
  BY JournalTypesInit, JournalTypesStep, PTL DEF Spec

-----------------------------------------------------------------------------
(* The invariant under the refinement. *)

\* A live process runs in its host's current boot.
WorldInv ==
  \A p \in Procs : Up(p) => host[p] \in Hosts /\ born[p] = boot[host[p]]

\* The lock is its holder's recovery; what it has read stays as it read it, and
\* it dooms only what lost processes own.
RecoveryInv ==
  /\ \A p \in Procs : stage[p] = "recovering" <=> lock = p
  /\ lock = None => todo = {} /\ doomed = {} /\ probe = None
  /\ \A c \in Cmds : c \in todo \/ c \in doomed \/ c = probe => row[c] \in Unfinished
  /\ \A c \in doomed : stage[owner[c]] = "dead"

\* A process inside a store operation works on a command of its own.
OpInv ==
  \A p \in Procs :
    /\ cur[p] # None => owner[cur[p]] = p /\ job[cur[p]] \in {"begin", "failing", "finishing"}
    /\ checked[p] => cur[p] # None

Unstarted == {"idle", "begin", "launching", "failing", "refused"}

\* A command's process, its owner and its row follow its job, the row as long as
\* the owner lives.
JobInv ==
  \A c \in Cmds :
    /\ job[c] = "idle" => owner[c] = None
    /\ owner[c] = None => row[c] = "absent" /\ job[c] \in {"idle", "refused"}
    /\ owner[c] # None => stage[owner[c]] \in Ready \cup {"dead"}
    /\ job[c] \in Unstarted <=> proc[c] = "unstarted"
    /\ job[c] \in {"finishing", "over"} => proc[c] \in Ended
    /\ owner[c] # None /\ stage[owner[c]] # "dead" =>
         /\ job[c] = "begin" => row[c] = "created"
         /\ job[c] \in {"launching", "failing", "running", "finishing"} => row[c] = "running"

JournalInv == TypeOK /\ WorldInv /\ RecoveryInv /\ OpInv /\ JobInv

\* Who is judged gone is dead: a live owner is in this host's boot and holds its
\* pid itself.
LEMMA JudgedGone ==
  ASSUME TypeOK, WorldInv, NEW p \in Procs, NEW o \in Procs,
         Up(p), stage[o] \in Ready \cup {"dead"}, Judgement(p, o) = "gone"
  PROVE  stage[o] = "dead"
<1> SUFFICES ASSUME stage[o] # "dead" PROVE FALSE
  OBVIOUS
<1>1. Up(o)
  BY DEF Up, Ready
<1>2. host[o] = host[p] /\ born[o] = born[p]
  BY <1>1 DEF WorldInv, Judgement
<1>3. o \in Holders(host[p], pid[o])
  BY <1>1, <1>2 DEF Holders
<1> QED
  BY <1>2, <1>3 DEF Judgement

LEMMA ReusedGone ==
  ASSUME NEW o \in Procs, stage[o] \in Ready \cup {"dead"}, Reused(o)
  PROVE  stage[o] = "dead"
  BY DEF Reused, Holders, Up, Ready

LEMMA JournalInvInit == Init => JournalInv
<1> SUFFICES ASSUME Init PROVE JournalInv
  OBVIOUS
<1>1. TypeOK
  BY JournalTypesInit
<1>2. WorldInv /\ RecoveryInv /\ OpInv
  BY JournalAssumption DEF Init, WorldInv, RecoveryInv, OpInv, Up
<1>3. JobInv
  BY DEF Init, JobInv, Unstarted, Ended
<1> QED
  BY <1>1, <1>2, <1>3 DEF JournalInv

LEMMA WorldStep == JournalInv /\ Next => WorldInv'
<1> SUFFICES ASSUME JournalInv, Next, NEW q \in Procs, Up(q)'
             PROVE  host'[q] \in Hosts /\ born'[q] = boot'[host'[q]]
  BY DEF WorldInv
<1> USE DEF JournalInv, TypeOK, Up, Ready, worldVars
<1>1. ASSUME NEW p \in Procs, NEW h \in Hosts, NEW d \in Pids, Start(p, h, d)
      PROVE  host'[q] \in Hosts /\ born'[q] = boot'[host'[q]]
  BY <1>1 DEF Start, WorldInv
<1>2. ASSUME NEW h \in Hosts, Reboot(h)
      PROVE  host'[q] \in Hosts /\ born'[q] = boot'[host'[q]]
  BY <1>2 DEF Reboot, WorldInv
<1>3. ASSUME NEW p \in Procs, Operation(p)
      PROVE  host'[q] \in Hosts /\ born'[q] = boot'[host'[q]]
  <2>1. UNCHANGED worldVars /\ Up(q)
    <3>1. CASE RecoverCommit(p)
      BY <3>1 DEF RecoverCommit, RecoveryInv
    <3>2. CASE RecoverLock(p) \/ RecoverFails(p) \/ Die(p)
      BY <3>2 DEF RecoverLock, RecoverFails, Die
    <3>3. CASE ReadToken(p) \/ Check(p) \/ Write(p) \/ Throws(p) \/ Dispose(p)
      BY <3>3 DEF ReadToken, Check, Write, Throws, Dispose
    <3> QED BY <1>3, <3>1, <3>2, <3>3 DEF Operation
  <2> QED BY <2>1 DEF WorldInv
<1>4. ASSUME NEW p \in Procs, NEW c \in Cmds, CommandOperation(p, c)
      PROVE  host'[q] \in Hosts /\ born'[q] = boot'[host'[q]]
  <2>1. UNCHANGED <<worldVars, stage>>
    BY <1>4 DEF CommandOperation, Judge, Begin, BeginFails, Launched, LaunchFails,
       ExitNoticed, Kill
  <2> QED BY <2>1 DEF WorldInv
<1>5. ASSUME NEW c \in Cmds, CommandExits(c)
      PROVE  host'[q] \in Hosts /\ born'[q] = boot'[host'[q]]
  BY <1>5 DEF CommandExits, WorldInv
<1> QED
  BY <1>1, <1>2, <1>3, <1>4, <1>5 DEF Next

-----------------------------------------------------------------------------
(* Recovery. *)

\* A step that leaves recovery and rows alone, revives nobody and neither starts
\* nor ends a recovery.
RecoveryAside ==
  /\ UNCHANGED <<recoveryVars, row>>
  /\ \A c \in Cmds : row[c] # "absent" => owner'[c] = owner[c]
  /\ \A p \in Procs : /\ stage[p] = "recovering" <=> stage'[p] = "recovering"
                      /\ stage[p] = "dead" => stage'[p] = "dead"

LEMMA RecoveryAsideKeeps ==
  ASSUME JournalInv, RecoveryAside
  PROVE  RecoveryInv'
<1> USE DEF JournalInv, RecoveryAside, recoveryVars
<1>1. ASSUME NEW c \in doomed PROVE stage'[owner'[c]] = "dead"
  <2>1. c \in Cmds /\ row[c] # "absent" /\ owner[c] \in Procs
    BY DEF TypeOK, RecoveryInv, JobInv, Unfinished
  <2> QED BY <2>1 DEF RecoveryInv
<1> QED
  BY <1>1 DEF RecoveryInv

LEMMA RecoveryStep == JournalInv /\ Next => RecoveryInv'
<1> SUFFICES ASSUME JournalInv, Next PROVE RecoveryInv'
  OBVIOUS
<1> USE JournalAssumption DEF JournalInv
<1>1. ASSUME NEW p \in Procs, NEW h \in Hosts, NEW d \in Pids, Start(p, h, d)
      PROVE  RecoveryInv'
  <2>1. RecoveryAside
    BY <1>1 DEF Start, RecoveryAside, TypeOK, cmdVars
  <2> QED BY <2>1, RecoveryAsideKeeps
<1>2. ASSUME NEW h \in Hosts, Reboot(h) PROVE RecoveryInv'
  <2>1. CASE \E p \in Procs : lock = p /\ host[p] = h
    <3>1. Unlock
      BY <1>2, <2>1 DEF Reboot, UnlockIf
    <3>2. \A p \in Procs : stage'[p] # "recovering"
      BY <1>2, <2>1 DEF Reboot, RecoveryInv, TypeOK, Up
    <3> QED BY <3>1, <3>2 DEF RecoveryInv, Unlock
  <2>2. CASE ~\E p \in Procs : lock = p /\ host[p] = h
    <3>1. RecoveryAside
      BY <1>2, <2>2 DEF Reboot, RecoveryAside, UnlockIf, RecoveryInv, TypeOK, Up
    <3> QED BY <3>1, RecoveryAsideKeeps
  <2> QED BY <2>1, <2>2
<1>3. ASSUME NEW p \in Procs, Die(p) \/ RecoverFails(p) PROVE RecoveryInv'
  <2>1. CASE lock = p
    BY <1>3, <2>1 DEF Die, RecoverFails, UnlockIf, Unlock, RecoveryInv, TypeOK
  <2>2. CASE lock # p
    <3>1. RecoveryAside
      BY <1>3, <2>2 DEF Die, RecoverFails, RecoveryAside, UnlockIf, RecoveryInv, TypeOK,
         cmdVars, Ready
    <3> QED BY <3>1, RecoveryAsideKeeps
  <2> QED BY <2>1, <2>2
<1>4. ASSUME NEW p \in Procs, RecoverLock(p) PROVE RecoveryInv'
  BY <1>4 DEF RecoverLock, RecoveryInv, TypeOK, cmdVars
<1>5. ASSUME NEW p \in Procs, RecoverCommit(p) PROVE RecoveryInv'
  BY <1>5 DEF RecoverCommit, Unlock, RecoveryInv, TypeOK
<1>6. ASSUME NEW p \in Procs, NEW c \in Cmds, Judge(p, c) PROVE RecoveryInv'
  <2> USE DEF Judge, cmdVars
  <2>1. row[c] \in Unfinished /\ owner[c] \in Procs
    BY <1>6 DEF RecoveryInv, JobInv, TypeOK, Unfinished
  <2>2. Judgement(p, owner[c]) = "gone" => stage[owner[c]] = "dead"
    BY <1>6, <2>1, JudgedGone DEF JobInv, RecoveryInv, Up
  <2>3. \A b \in doomed' : stage'[owner'[b]] = "dead"
    BY <1>6, <2>2 DEF RecoveryInv
  <2> QED BY <1>6, <2>1, <2>3 DEF RecoveryInv, TypeOK
<1>7. ASSUME NEW p \in Procs, ReadToken(p) PROVE RecoveryInv'
  <2> USE DEF ReadToken, cmdVars
  <2>1. probe \in Cmds /\ row[probe] \in Unfinished
    BY <1>7 DEF RecoveryInv, TypeOK
  <2>2. owner[probe] \in Procs
    BY <2>1 DEF JobInv, TypeOK, Unfinished
  <2>3. Reused(owner[probe]) => stage[owner[probe]] = "dead"
    BY <2>1, <2>2, ReusedGone DEF JobInv
  <2>4. \A b \in doomed' : stage'[owner'[b]] = "dead"
    BY <1>7, <2>3 DEF RecoveryInv
  <2> QED BY <1>7, <2>1, <2>4 DEF RecoveryInv, TypeOK
<1>8. ASSUME NEW p \in Procs, Check(p) \/ Throws(p) \/ Dispose(p) PROVE RecoveryInv'
  <2>1. RecoveryAside
    BY <1>8 DEF Check, Throws, Dispose, RecoveryAside, cmdVars
  <2> QED BY <2>1, RecoveryAsideKeeps
<1>9. ASSUME NEW p \in Procs, Write(p) PROVE RecoveryInv'
  BY <1>9 DEF Write, RecoveryInv, recoveryVars
<1>10. ASSUME NEW p \in Procs, NEW c \in Cmds, Begin(p, c) PROVE RecoveryInv'
  BY <1>10 DEF Begin, RecoveryInv, recoveryVars
<1>11. ASSUME NEW p \in Procs, NEW c \in Cmds,
              \/ BeginFails(p, c) \/ Launched(p, c) \/ LaunchFails(p, c)
              \/ ExitNoticed(p, c) \/ Kill(p, c)
       PROVE  RecoveryInv'
  <2>1. RecoveryAside
    BY <1>11 DEF BeginFails, Launched, LaunchFails, ExitNoticed, Kill, RecoveryAside
  <2> QED BY <2>1, RecoveryAsideKeeps
<1>12. ASSUME NEW c \in Cmds, CommandExits(c) PROVE RecoveryInv'
  <2>1. RecoveryAside
    BY <1>12 DEF CommandExits, RecoveryAside
  <2> QED BY <2>1, RecoveryAsideKeeps
<1> QED
  BY <1>1, <1>2, <1>3, <1>4, <1>5, <1>6, <1>7, <1>8, <1>9, <1>10, <1>11, <1>12
  DEF Next, Operation, CommandOperation

-----------------------------------------------------------------------------
(* Store operations and jobs. *)

LEMMA OpStep == JournalInv /\ Next => OpInv'
<1> SUFFICES ASSUME JournalInv, Next PROVE OpInv'
  OBVIOUS
<1> USE JournalAssumption DEF JournalInv, TypeOK
<1>1. CASE UNCHANGED <<opVars, owner, job>>
  BY <1>1 DEF OpInv, opVars
<1>2. ASSUME NEW p \in Procs, Operation(p) PROVE OpInv'
  <2>1. CASE Check(p)
    BY <2>1 DEF Check, OpInv, cmdVars
  <2>2. CASE Write(p)
    BY <2>2 DEF Write, Return, OpInv
  <2>3. CASE Throws(p)
    BY <2>3 DEF Throws, Return, OpInv
  <2>4. CASE \/ RecoverLock(p) \/ RecoverFails(p) \/ ReadToken(p) \/ RecoverCommit(p)
             \/ Dispose(p) \/ Die(p)
    BY <1>1, <2>4 DEF RecoverLock, RecoverFails, ReadToken, RecoverCommit, Dispose, Die,
       cmdVars
  <2> QED BY <1>2, <2>1, <2>2, <2>3, <2>4 DEF Operation
<1>3. ASSUME NEW p \in Procs, NEW c \in Cmds, CommandOperation(p, c) PROVE OpInv'
  <2>1. CASE Begin(p, c)
    BY <2>1 DEF Begin, Free, OpInv
  <2>2. CASE BeginFails(p, c)
    BY <2>2 DEF BeginFails, OpInv, opVars
  <2>3. CASE Launched(p, c)
    BY <2>3 DEF Launched, OpInv, opVars
  <2>4. CASE LaunchFails(p, c)
    BY <2>4 DEF LaunchFails, Free, OpInv
  <2>5. CASE ExitNoticed(p, c)
    BY <2>5 DEF ExitNoticed, Free, OpInv
  <2>6. CASE Judge(p, c) \/ Kill(p, c)
    BY <1>1, <2>6 DEF Judge, Kill, cmdVars
  <2> QED BY <1>3, <2>1, <2>2, <2>3, <2>4, <2>5, <2>6 DEF CommandOperation
<1>4. CASE \/ \E p \in Procs, h \in Hosts, d \in Pids : Start(p, h, d)
           \/ \E h \in Hosts : Reboot(h)
           \/ \E c \in Cmds : CommandExits(c)
  BY <1>1, <1>4 DEF Start, Reboot, CommandExits, cmdVars
<1> QED
  BY <1>2, <1>3, <1>4 DEF Next

\* Sessions that are up stay up or die, and the dead stay dead.
Onward ==
  \A p \in Procs : stage[p] \in Ready \cup {"dead"} =>
    /\ stage'[p] \in Ready \cup {"dead"}
    /\ stage[p] = "dead" => stage'[p] = "dead"

LEMMA OnwardKeeps ==
  ASSUME TypeOK, JobInv, Onward, UNCHANGED <<row, owner, job, proc>>
  PROVE  JobInv'
  BY DEF TypeOK, JobInv, Onward

LEMMA NextIsOnward == JournalInv /\ Next => Onward
<1> SUFFICES ASSUME JournalInv, Next PROVE Onward
  OBVIOUS
<1> USE DEF JournalInv, TypeOK, Onward, Ready
<1>1. CASE UNCHANGED stage
  BY <1>1
<1>2. ASSUME NEW p \in Procs, Operation(p) PROVE Onward
  <2>1. CASE RecoverLock(p) \/ RecoverFails(p) \/ Die(p)
    BY <2>1 DEF RecoverLock, RecoverFails, Die
  <2>2. CASE RecoverCommit(p)
    BY <2>2 DEF RecoverCommit, RecoveryInv
  <2>3. CASE ReadToken(p) \/ Check(p) \/ Write(p) \/ Throws(p) \/ Dispose(p)
    BY <1>1, <2>3 DEF ReadToken, Check, Write, Throws, Dispose
  <2> QED BY <1>2, <2>1, <2>2, <2>3 DEF Operation
<1>3. CASE \E p \in Procs, c \in Cmds : CommandOperation(p, c)
  BY <1>1, <1>3 DEF CommandOperation, Judge, Begin, BeginFails, Launched, LaunchFails,
     ExitNoticed, Kill
<1>4. CASE \E p \in Procs, h \in Hosts, d \in Pids : Start(p, h, d)
  BY <1>4 DEF Start
<1>5. CASE \E h \in Hosts : Reboot(h)
  BY <1>5 DEF Reboot
<1>6. CASE \E c \in Cmds : CommandExits(c)
  BY <1>1, <1>6 DEF CommandExits
<1> QED
  BY <1>2, <1>3, <1>4, <1>5, <1>6 DEF Next

\* What the operation a live process is in finds, and so may write.
LEMMA OperationRow ==
  ASSUME JournalInv, NEW p \in Procs, Up(p), cur[p] # None
  PROVE  /\ cur[p] \in Cmds /\ owner[cur[p]] = p
         /\ stage[p] \in Ready
         /\ \/ /\ job[cur[p]] = "begin" /\ row[cur[p]] = "created"
               /\ Target(cur[p]) = "running" /\ proc[cur[p]] = "unstarted"
            \/ /\ job[cur[p]] = "failing" /\ row[cur[p]] = "running"
               /\ Target(cur[p]) = "failed" /\ proc[cur[p]] = "unstarted"
            \/ /\ job[cur[p]] = "finishing" /\ row[cur[p]] = "running"
               /\ Target(cur[p]) = Outcome(cur[p]) /\ proc[cur[p]] \in Ended
<1> DEFINE c == cur[p]
<1>1. c \in Cmds /\ owner[c] = p /\ job[c] \in {"begin", "failing", "finishing"}
  BY DEF JournalInv, TypeOK, OpInv
<1>2. stage[p] \in Ready /\ stage[p] # "dead"
  BY <1>1, JournalAssumption DEF JournalInv, JobInv, Up
<1> QED
  BY <1>1, <1>2, JournalAssumption DEF JournalInv, JobInv, Target, Unstarted

LEMMA JobStep == JournalInv /\ Next => JobInv'
<1> SUFFICES ASSUME JournalInv, Next PROVE JobInv'
  OBVIOUS
<1> USE JournalAssumption, NextIsOnward DEF JournalInv, TypeOK
<1>1. CASE UNCHANGED <<row, owner, job, proc>>
  BY <1>1, OnwardKeeps
<1>2. ASSUME NEW p \in Procs, Operation(p) PROVE JobInv'
  <2>1. CASE Write(p)
    <3>1. Up(p) /\ cur[p] # None
      BY <2>1 DEF Write
    <3> QED
      BY <2>1, <3>1, OperationRow DEF Write, JobInv, Onward, Returned, Unstarted, Ended
  <2>2. CASE Throws(p)
    <3>1. Up(p) /\ cur[p] # None
      BY <2>2 DEF Throws
    <3> QED
      BY <2>2, <3>1, OperationRow DEF Throws, JobInv, Onward, Thrown, Unstarted, Ended
  <2>3. CASE RecoverCommit(p)
    BY <2>3 DEF RecoverCommit, JobInv, RecoveryInv, Onward, Unfinished
  <2>4. CASE \/ RecoverLock(p) \/ RecoverFails(p) \/ ReadToken(p) \/ Check(p)
             \/ Dispose(p) \/ Die(p)
    BY <1>1, <2>4 DEF RecoverLock, RecoverFails, ReadToken, Check, Dispose, Die, cmdVars
  <2> QED BY <1>2, <2>1, <2>2, <2>3, <2>4 DEF Operation
<1>3. ASSUME NEW p \in Procs, NEW c \in Cmds, CommandOperation(p, c) PROVE JobInv'
  <2>1. CASE Begin(p, c)
    BY <2>1 DEF Begin, Free, JobInv, Onward, Unstarted, Ready
  <2>2. CASE BeginFails(p, c)
    BY <2>2 DEF BeginFails, JobInv, Onward, Unstarted
  <2>3. CASE Launched(p, c)
    BY <2>3 DEF Launched, JobInv, Onward, Unstarted, Ended
  <2>4. CASE LaunchFails(p, c)
    BY <2>4 DEF LaunchFails, JobInv, Onward, Unstarted
  <2>5. CASE ExitNoticed(p, c)
    BY <2>5 DEF ExitNoticed, JobInv, Onward, Unstarted, Ended
  <2>6. CASE Judge(p, c) \/ Kill(p, c)
    BY <1>1, <2>6 DEF Judge, Kill, cmdVars
  <2> QED BY <1>3, <2>1, <2>2, <2>3, <2>4, <2>5, <2>6 DEF CommandOperation
<1>4. CASE \E p \in Procs, h \in Hosts, d \in Pids : Start(p, h, d)
  BY <1>1, <1>4 DEF Start, cmdVars
<1>5. ASSUME NEW h \in Hosts, Reboot(h) PROVE JobInv'
  BY <1>5 DEF Reboot, JobInv, Onward, Unstarted, Ended
<1>6. ASSUME NEW c \in Cmds, CommandExits(c) PROVE JobInv'
  BY <1>6 DEF CommandExits, JobInv, Onward, Unstarted, Ended
<1> QED
  BY <1>2, <1>3, <1>4, <1>5, <1>6 DEF Next

LEMMA JournalInvStep == JournalInv /\ [Next]_vars => JournalInv'
<1> SUFFICES ASSUME JournalInv, [Next]_vars PROVE JournalInv'
  OBVIOUS
<1>1. CASE Next
  BY <1>1, JournalTypesStep, WorldStep, RecoveryStep, OpStep, JobStep DEF JournalInv
<1>2. CASE UNCHANGED vars
  BY <1>2 DEF JournalInv, TypeOK, WorldInv, RecoveryInv, OpInv, JobInv, Up, vars,
     worldVars, recoveryVars, opVars, cmdVars
<1> QED
  BY <1>1, <1>2

LEMMA JournalInvariant == Spec => []JournalInv
  BY JournalInvInit, JournalInvStep, PTL DEF Spec

-----------------------------------------------------------------------------
(* What it gives. *)

\* A command that is being launched or runs is on record as running while its
\* owner lives, for any number of processes recovering beside it.
THEOREM LiveCommandsStayRunning == Spec => []LiveCommandIsRunning
<1>1. JournalInv => LiveCommandIsRunning
  BY DEF JournalInv, JobInv, LiveCommandIsRunning, Up
<1> QED
  BY JournalInvariant, <1>1, PTL

\* The UPDATE of transitionCommand never writes over a state its SELECT did not
\* see, whatever other processes commit between the two.
THEOREM ChecksStayTrue == Spec => []CheckStillHolds
<1>1. JournalInv => CheckStillHolds
  <2> SUFFICES ASSUME JournalInv, NEW p \in Procs, Up(p), checked[p]
               PROVE  Allowed(row[cur[p]], Target(cur[p]))
    BY DEF CheckStillHolds
  <2>1. cur[p] # None
    BY DEF JournalInv, OpInv
  <2> QED BY <2>1, OperationRow DEF Allowed, Outcome
<1> QED
  BY JournalInvariant, <1>1, PTL

-----------------------------------------------------------------------------
(* The refinement: every step is a step of CommandLife or changes nothing a     *)
(* reader of the journal sees.                                                  *)

Unseen == UNCHANGED <<Journal, proc, owner, Gone>>

LEMMA LifeInit == Init => Life!Init
  BY DEF Init, Life!Init, Journal, Gone, Unfinished

\* The dead stay dead.
LEMMA GoneGrows ==
  ASSUME JournalInv, Next
  PROVE  Gone \subseteq Gone' /\ Gone' \subseteq Procs
  BY NextIsOnward DEF Gone, Onward

LEMMA WriteRefines ==
  ASSUME JournalInv, NEW p \in Procs, Write(p)
  PROVE  Unseen \/ \E c \in Cmds : Life!Complete(c) \/ Life!Fail(c)
<1> DEFINE c == cur[p]
<1> USE DEF JournalInv, TypeOK
<1>1. Up(p) /\ cur[p] # None
  BY DEF Write
<1>2. /\ c \in Cmds /\ owner[c] = p /\ p \notin Gone
      /\ row' = [row EXCEPT ![c] = Target(c)]
      /\ UNCHANGED <<proc, owner, stage>> /\ Gone' = Gone
  BY <1>1, OperationRow DEF Write, Gone, Ready
<1>3. CASE job[c] = "begin"
  <2>1. Target(c) = "running" /\ row[c] = "created"
    BY <1>1, <1>3, OperationRow
  <2> QED BY <1>2, <2>1 DEF Unseen, Journal, Unfinished
<1>4. CASE job[c] # "begin"
  <2>1. /\ row[c] = "running"
        /\ \/ Target(c) = "failed" /\ proc[c] # "live"
           \/ Target(c) = "completed" /\ proc[c] = "zero"
    BY <1>1, <1>4, OperationRow DEF Outcome, Ended
  <2>2. Life!Mine(c)
    BY <1>2, <2>1 DEF Life!Mine, Journal, Unfinished
  <2>3. Life!Report(c, Target(c))
    BY <1>2, <2>1 DEF Life!Report, Journal, Unfinished
  <2> QED BY <1>2, <2>1, <2>2, <2>3 DEF Life!Complete, Life!Fail
<1> QED
  BY <1>3, <1>4

LEMMA CommitRefines ==
  ASSUME JournalInv, NEW p \in Procs, RecoverCommit(p)
  PROVE  Life!Interrupt(doomed)
<1> USE DEF JournalInv
<1>1. \A c \in doomed : c \in Cmds /\ row[c] \in Unfinished /\ owner[c] \in Gone
  BY JournalAssumption DEF TypeOK, RecoveryInv, JobInv, Gone, Unfinished
<1>2. /\ row' = [c \in Cmds |-> IF c \in doomed THEN "interrupted" ELSE row[c]]
      /\ UNCHANGED <<proc, owner>>
  BY DEF RecoverCommit
<1>3. Gone' = Gone
  BY DEF RecoverCommit, RecoveryInv, TypeOK, Gone
<1>4. Journal' = [c \in Cmds |-> IF c \in doomed THEN "interrupted" ELSE Journal[c]]
  BY <1>2 DEF Journal, Unfinished
<1> QED
  BY <1>1, <1>2, <1>3, <1>4 DEF Life!Interrupt, Journal

LEMMA BeginRefines ==
  ASSUME JournalInv, NEW p \in Procs, NEW c \in Cmds, Begin(p, c)
  PROVE  Life!Record(c, p)
<1> USE DEF JournalInv, TypeOK
<1>1. row[c] = "absent" /\ p \notin Gone
  BY DEF Begin, Free, Ready, Gone, JobInv
<1>2. /\ row' = [row EXCEPT ![c] = "created"]
      /\ owner' = [owner EXCEPT ![c] = p]
      /\ UNCHANGED <<proc, stage>> /\ Gone' = Gone
  BY DEF Begin, Gone
<1> QED
  BY <1>1, <1>2 DEF Life!Record, Journal, Unfinished

LEMMA LaunchRefines ==
  ASSUME JournalInv, NEW p \in Procs, NEW c \in Cmds, Launched(p, c)
  PROVE  Life!Start(c)
<1> USE DEF JournalInv, TypeOK
<1>1. row[c] = "running" /\ owner[c] = p /\ p \notin Gone /\ proc[c] = "unstarted"
  BY JournalAssumption DEF Launched, Free, Ready, Gone, JobInv, Unstarted
<1>2. proc' = [proc EXCEPT ![c] = "live"] /\ UNCHANGED <<row, owner>> /\ Gone' = Gone
  BY DEF Launched, Gone
<1> QED
  BY <1>1, <1>2 DEF Life!Start, Life!Mine, Journal, Unfinished

LEMMA WorldRefines ==
  ASSUME JournalInv, Next, UNCHANGED <<row, owner>>,
         proc' \in [Cmds -> {"unstarted", "live"} \cup Ended],
         \A c \in Cmds : proc'[c] # proc[c] => proc[c] = "live" /\ proc'[c] \in Ended
  PROVE  Life!World
  BY GoneGrows DEF Life!World, Life!Ended, Ended, Journal

LEMMA LifeStep == JournalInv /\ [Next]_vars => [Life!Next]_<<Journal, proc, owner, Gone>>
<1> SUFFICES ASSUME JournalInv, [Next]_vars PROVE Life!Next \/ Unseen
  BY DEF Unseen
<1> USE DEF JournalInv, TypeOK
<1>1. CASE UNCHANGED vars
  BY <1>1 DEF vars, cmdVars, Unseen, Journal, Gone
<1>2. CASE Next /\ UNCHANGED <<row, owner, proc>>
  <2>1. Life!World
    BY <1>2, WorldRefines
  <2> QED BY <2>1 DEF Life!Next
<1>3. ASSUME NEW p \in Procs, Operation(p), Next PROVE Life!Next \/ Unseen
  <2>1. CASE Write(p)
    BY <2>1, WriteRefines DEF Life!Next
  <2>2. CASE RecoverCommit(p)
    BY <2>2, CommitRefines DEF Life!Next
  <2>3. CASE \/ RecoverLock(p) \/ RecoverFails(p) \/ ReadToken(p) \/ Check(p)
             \/ Throws(p) \/ Dispose(p) \/ Die(p)
    BY <1>2, <1>3, <2>3 DEF RecoverLock, RecoverFails, ReadToken, Check, Throws, Dispose,
       Die, cmdVars
  <2> QED BY <1>3, <2>1, <2>2, <2>3 DEF Operation
<1>4. ASSUME NEW p \in Procs, NEW c \in Cmds, CommandOperation(p, c), Next
      PROVE  Life!Next \/ Unseen
  <2>1. CASE Begin(p, c)
    BY <2>1, BeginRefines DEF Life!Next
  <2>2. CASE Launched(p, c)
    BY <2>2, LaunchRefines DEF Life!Next
  <2>3. CASE \/ Judge(p, c) \/ BeginFails(p, c) \/ LaunchFails(p, c)
             \/ ExitNoticed(p, c) \/ Kill(p, c)
    BY <1>2, <1>4, <2>3 DEF Judge, BeginFails, LaunchFails, ExitNoticed, Kill, cmdVars
  <2> QED BY <1>4, <2>1, <2>2, <2>3 DEF CommandOperation
<1>5. ASSUME NEW p \in Procs, NEW h \in Hosts, NEW d \in Pids, Start(p, h, d), Next
      PROVE  Life!Next \/ Unseen
  BY <1>2, <1>5 DEF Start, cmdVars
<1>6. ASSUME NEW h \in Hosts, Reboot(h), Next PROVE Life!Next \/ Unseen
  <2>1. Life!World
    BY <1>6, WorldRefines DEF Reboot, Ended
  <2> QED BY <2>1 DEF Life!Next
<1>7. ASSUME NEW c \in Cmds, CommandExits(c), Next PROVE Life!Next \/ Unseen
  <2>1. Life!World
    BY <1>7, WorldRefines DEF CommandExits, Ended
  <2> QED BY <2>1 DEF Life!Next
<1> QED
  BY <1>1, <1>3, <1>4, <1>5, <1>6, <1>7 DEF Next

\* The journal, its recorders and its recoveries implement CommandLife: however
\* processes and hosts die, reuse pids and interleave their store operations, each
\* command's row tells the truth about it and its last word is final.
THEOREM JournalKeepsItsPromise == Spec => Promise
<1>1. [Life!Next]_<<Journal, proc, owner, Gone>> <=> [Life!Next]_(Life!vars)
  BY DEF Life!vars
<1> QED
  BY LifeInit, JournalInvariant, LifeStep, <1>1, PTL DEF Spec, Promise, Life!Spec

-----------------------------------------------------------------------------
(* A recovery misses no lost row. *)

\* A process runs nowhere before it starts.
UnbornInv == \A p \in Procs : stage[p] = "unborn" <=> host[p] = None

\* Somebody else has or had the pid of c's owner, in a boot that does not tell
\* them apart.
Contested(p, c) ==
  \E q \in Procs \ {owner[c]} :
    /\ host[q] = host[p] /\ pid[q] = pid[owner[c]]
    /\ born[owner[c]] = born[p] /\ born[q] = born[p]

\* Where a row the recovery of p owes an interruption can be: still to be judged,
\* doomed, waiting for the token of a contested pid, or excused.
OwedInv ==
  \A p \in Procs, c \in Cmds : lock = p /\ c \in owed =>
    /\ owner[c] \in Procs /\ stage[owner[c]] = "dead" /\ host[owner[c]] = host[p]
    /\ c \in todo \/ c \in doomed \/ c = probe \/ Excused(p, c)
    /\ c = probe => Contested(p, c)

RecoveredInv == JournalInv /\ UnbornInv /\ OwedInv

\* What the rows and the processes that ever ran are known by does not change.
PastFixed ==
  /\ \A q \in Procs : host[q] # None =>
       /\ host'[q] = host[q] /\ pid'[q] = pid[q] /\ born'[q] = born[q]
       /\ stage[q] = "dead" => stage'[q] = "dead"
  /\ \A c \in Cmds : owner[c] \in Procs => owner'[c] = owner[c]

LEMMA PastIsFixed == JournalInv /\ UnbornInv /\ Next => PastFixed /\ UnbornInv'
<1> SUFFICES ASSUME JournalInv, UnbornInv, Next PROVE PastFixed /\ UnbornInv'
  OBVIOUS
<1> USE JournalAssumption, NextIsOnward DEF JournalInv, TypeOK, PastFixed, UnbornInv,
      Onward, worldVars
<1>1. ASSUME NEW p \in Procs, Operation(p) PROVE PastFixed /\ UnbornInv'
  <2>1. CASE RecoverLock(p) \/ RecoverFails(p) \/ Die(p)
    BY <2>1 DEF RecoverLock, RecoverFails, Die, cmdVars, Up
  <2>2. CASE RecoverCommit(p)
    BY <2>2 DEF RecoverCommit, RecoveryInv
  <2>3. CASE ReadToken(p) \/ Check(p) \/ Write(p) \/ Throws(p) \/ Dispose(p)
    BY <2>3 DEF ReadToken, Check, Write, Throws, Dispose, cmdVars
  <2> QED BY <1>1, <2>1, <2>2, <2>3 DEF Operation
<1>2. ASSUME NEW p \in Procs, NEW c \in Cmds, CommandOperation(p, c)
      PROVE  PastFixed /\ UnbornInv'
  <2>1. CASE Begin(p, c)
    BY <2>1 DEF Begin, JobInv
  <2>2. CASE \/ Judge(p, c) \/ BeginFails(p, c) \/ Launched(p, c)
             \/ LaunchFails(p, c) \/ ExitNoticed(p, c) \/ Kill(p, c)
    BY <2>2 DEF Judge, BeginFails, Launched, LaunchFails, ExitNoticed, Kill, cmdVars
  <2> QED BY <1>2, <2>1, <2>2 DEF CommandOperation
<1>3. ASSUME NEW p \in Procs, NEW h \in Hosts, NEW d \in Pids, Start(p, h, d)
      PROVE  PastFixed /\ UnbornInv'
  BY <1>3 DEF Start, cmdVars
<1>4. ASSUME NEW h \in Hosts, Reboot(h) PROVE PastFixed /\ UnbornInv'
  BY <1>4 DEF Reboot, Up
<1>5. ASSUME NEW c \in Cmds, CommandExits(c) PROVE PastFixed /\ UnbornInv'
  BY <1>5 DEF CommandExits
<1> QED
  BY <1>1, <1>2, <1>3, <1>4, <1>5 DEF Next

\* So excuses and contests last.
LEMMA ExcusesLast ==
  ASSUME PastFixed, NEW p \in Procs, NEW c \in Cmds, host[p] # None, owner[c] \in Procs,
         host[owner[c]] # None
  PROVE  /\ Excused(p, c) => Excused(p, c)'
         /\ Contested(p, c) => Contested(p, c)'
  BY DEF PastFixed, Excused, Contested

\* A step that leaves the recovery alone leaves what it owes alone.
LEMMA OwedKept ==
  ASSUME RecoveredInv, PastFixed, UNCHANGED recoveryVars
  PROVE  OwedInv'
<1> SUFFICES ASSUME NEW p \in Procs, NEW c \in Cmds, lock' = p, c \in owed'
             PROVE  OwedInv!(p, c)'
  BY DEF OwedInv
<1>1. lock = p /\ c \in owed
  BY DEF recoveryVars
<1>2. host[p] # None /\ owner[c] \in Procs /\ host[owner[c]] # None
  BY <1>1 DEF RecoveredInv, OwedInv, UnbornInv, JournalInv, RecoveryInv
<1> QED
  BY <1>1, <1>2, ExcusesLast DEF RecoveredInv, OwedInv, PastFixed, recoveryVars

\* A lost row that is left alone, or whose pid is found live, is contested.
LEMMA JudgedContested ==
  ASSUME RecoveredInv, NEW p \in Procs, NEW c \in Cmds, Judge(p, c), c \in owed
  PROVE  /\ Judgement(p, owner[c]) = "alive" => Excused(p, c)
         /\ Judgement(p, owner[c]) = "token" => Contested(p, c)
<1> DEFINE o == owner[c]
<1> USE DEF RecoveredInv, JournalInv
<1>1. o \in Procs /\ stage[o] = "dead" /\ host[o] = host[p] /\ Up(p)
  BY DEF Judge, OwedInv, RecoveryInv, Up
<1>2. CASE Judgement(p, o) = "gone"
  BY <1>2
<1>3. CASE Judgement(p, o) # "gone"
  <2>1. PICK q \in Procs : Up(q) /\ host[q] = host[p] /\ pid[q] = pid[o]
    BY <1>1, <1>3 DEF Judgement, Holders
  <2>2. q # o /\ born[q] = born[p]
    BY <1>1, <2>1 DEF Up, WorldInv
  <2>3. CASE host[p] \notin Linux
    BY <1>1, <2>1, <2>2, <2>3 DEF Excused, Judgement
  <2>4. CASE host[p] \in Linux
    <3>1. born[o] = born[p]
      BY <1>1, <1>3, <2>4 DEF Judgement
    <3>2. Contested(p, c)
      BY <1>1, <2>1, <2>2, <3>1 DEF Contested
    <3>3. Judgement(p, o) = "alive" => q \in Foreign
      BY <1>1, <2>1, <2>4 DEF Judgement, Holders
    <3> QED BY <1>1, <2>1, <2>2, <3>1, <3>2, <3>3 DEF Excused
  <2> QED BY <2>3, <2>4
<1> QED
  BY <1>2, <1>3

\* A contested pid whose token could not be read was left by a process that died.
LEMMA VanishedIsExcused ==
  ASSUME RecoveredInv, NEW p \in Procs, ReadToken(p), probe \in owed,
         ~Reused(owner[probe])
  PROVE  Excused(p, probe)
<1> USE DEF RecoveredInv, JournalInv, TypeOK
<1>1. probe \in Cmds /\ lock = p
  BY DEF ReadToken
<1>2. /\ stage[owner[probe]] = "dead" /\ host[owner[probe]] = host[p]
      /\ Contested(p, probe)
  BY <1>1 DEF OwedInv
<1>3. Holders(host[p], pid[owner[probe]]) = {}
  BY <1>2 DEF Reused, Holders, Up
<1>4. PICK q \in Procs \ {owner[probe]} :
        /\ host[q] = host[p] /\ pid[q] = pid[owner[probe]]
        /\ born[owner[probe]] = born[p] /\ born[q] = born[p]
  BY <1>2 DEF Contested
<1>5. host[q] # None /\ ~Up(q)
  BY <1>1, <1>3, <1>4 DEF Holders, UnbornInv, RecoveryInv
<1>6. stage[q] = "dead"
  BY <1>5 DEF Up, UnbornInv
<1> QED
  BY <1>4, <1>6 DEF Excused

LEMMA OwedStep == RecoveredInv /\ Next => OwedInv'
<1> SUFFICES ASSUME RecoveredInv, Next PROVE OwedInv'
  OBVIOUS
<1> USE JournalAssumption DEF RecoveredInv, JournalInv, TypeOK
<1>0. PastFixed
  BY PastIsFixed
<1>1. CASE UNCHANGED recoveryVars
  BY <1>0, <1>1, OwedKept
<1>2. CASE Unlock
  BY <1>2 DEF Unlock, OwedInv
<1>3. ASSUME NEW p \in Procs, RecoverLock(p) PROVE OwedInv'
  <2> SUFFICES ASSUME NEW c \in Cmds, c \in owed' PROVE OwedInv!(p, c)'
    BY <1>3 DEF RecoverLock, OwedInv
  <2>1. row[c] \in Unfinished /\ ~Up(owner[c]) /\ host[owner[c]] = host[p]
    BY <1>3 DEF RecoverLock
  <2>2. owner[c] \in Procs /\ stage[owner[c]] = "dead"
    BY <2>1 DEF JobInv, Unfinished, Up, Ready
  <2>3. c # probe'
    BY <1>3 DEF RecoverLock, RecoveryInv
  <2>4. /\ c \in todo' /\ owner' = owner /\ host' = host
        /\ stage'[owner[c]] = "dead"
    BY <1>3, <2>1, <2>2 DEF RecoverLock, cmdVars, worldVars
  <2> QED BY <2>1, <2>2, <2>3, <2>4
<1>4. ASSUME NEW p \in Procs, NEW j \in Cmds, Judge(p, j) PROVE OwedInv'
  <2> SUFFICES ASSUME NEW c \in Cmds, c \in owed PROVE OwedInv!(p, c)'
    BY <1>4 DEF Judge, OwedInv
  <2>1. /\ lock = p /\ UNCHANGED <<worldVars, stage, owner>>
        /\ owner[c] \in Procs /\ stage[owner[c]] = "dead" /\ host[owner[c]] = host[p]
    BY <1>4 DEF Judge, cmdVars, OwedInv
  <2>2. /\ Excused(p, c) => Excused(p, c)'
        /\ Contested(p, c) => Contested(p, c)'
    BY <2>1 DEF Excused, Contested, worldVars
  <2>3. CASE c = j
    <3>1. \/ Judgement(p, owner[c]) = "gone" /\ c \in doomed' /\ c # probe'
          \/ Judgement(p, owner[c]) = "alive" /\ c # probe'
          \/ Judgement(p, owner[c]) = "token" /\ c = probe'
      BY <1>4, <2>3 DEF Judge, Judgement
    <3> QED BY <1>4, <2>1, <2>2, <2>3, <3>1, JudgedContested DEF worldVars
  <2>4. CASE c # j
    <3>1. c # probe' /\ (c \in todo' \/ c \in doomed' \/ Excused(p, c))
      BY <1>4, <2>1, <2>4 DEF Judge, OwedInv
    <3> QED BY <2>1, <2>2, <3>1 DEF worldVars
  <2> QED BY <2>3, <2>4
<1>5. ASSUME NEW p \in Procs, ReadToken(p) PROVE OwedInv'
  <2> SUFFICES ASSUME NEW c \in Cmds, c \in owed PROVE OwedInv!(p, c)'
    BY <1>5 DEF ReadToken, OwedInv
  <2>1. /\ lock = p /\ UNCHANGED <<worldVars, stage, owner, todo>>
        /\ owner[c] \in Procs /\ stage[owner[c]] = "dead" /\ host[owner[c]] = host[p]
        /\ probe' = None /\ doomed \subseteq doomed'
        /\ c \in todo \/ c \in doomed \/ c = probe \/ Excused(p, c)
    BY <1>5 DEF ReadToken, cmdVars, OwedInv
  <2>2. Excused(p, c) => Excused(p, c)'
    BY <2>1 DEF Excused, worldVars
  <2>3. c = probe => c \in doomed' \/ Excused(p, c)
    BY <1>5, VanishedIsExcused DEF ReadToken
  <2> QED BY <2>1, <2>2, <2>3 DEF worldVars
<1>6. ASSUME NEW p \in Procs, RecoverCommit(p) PROVE OwedInv'
  BY <1>2, <1>6 DEF RecoverCommit
<1>7. ASSUME NEW p \in Procs, Die(p) \/ RecoverFails(p) PROVE OwedInv'
  BY <1>1, <1>2, <1>7 DEF Die, RecoverFails, UnlockIf
<1>8. ASSUME NEW h \in Hosts, Reboot(h) PROVE OwedInv'
  BY <1>1, <1>2, <1>8 DEF Reboot, UnlockIf
<1>9. CASE \/ \E p \in Procs : Check(p) \/ Write(p) \/ Throws(p) \/ Dispose(p)
           \/ \E p \in Procs, h \in Hosts, d \in Pids : Start(p, h, d)
           \/ \E c \in Cmds : CommandExits(c)
           \/ \E p \in Procs, c \in Cmds :
                \/ Begin(p, c) \/ BeginFails(p, c) \/ Launched(p, c)
                \/ LaunchFails(p, c) \/ ExitNoticed(p, c) \/ Kill(p, c)
  BY <1>1, <1>9 DEF Check, Write, Throws, Dispose, Start, CommandExits, Begin,
     BeginFails, Launched, LaunchFails, ExitNoticed, Kill
<1> QED
  BY <1>3, <1>4, <1>5, <1>6, <1>7, <1>8, <1>9 DEF Next, Operation, CommandOperation

LEMMA RecoveredInvariant == Spec => []RecoveredInv
<1>1. Init => RecoveredInv
  BY JournalInvInit, JournalAssumption DEF Init, RecoveredInv, UnbornInv, OwedInv
<1>2. RecoveredInv /\ [Next]_vars => RecoveredInv'
  <2> SUFFICES ASSUME RecoveredInv, [Next]_vars PROVE RecoveredInv'
    OBVIOUS
  <2>1. CASE Next
    BY <2>1, JournalInvStep, PastIsFixed, OwedStep DEF RecoveredInv
  <2>2. CASE UNCHANGED vars
    <3>1. JournalInv'
      BY <2>2, JournalInvStep DEF RecoveredInv
    <3> QED
      BY <2>2, <3>1 DEF RecoveredInv, UnbornInv, OwedInv, Excused, Contested, vars,
         worldVars, recoveryVars, cmdVars
  <2> QED BY <2>1, <2>2
<1> QED
  BY <1>1, <1>2, PTL DEF Spec

\* A recovery that commits interrupts every row of its host whose owner was lost
\* when it read the journal, except those another holder of the pid excuses, for any
\* number of processes, hosts, reboots and rows.
THEOREM NoLostRowIsMissed == Spec => RecoveryMissesNone
<1>1. RecoveredInv /\ [Next]_vars =>
        [\A p \in Procs : stage[p] = "recovering" /\ stage'[p] = "recovered"
           => \A c \in owed : row'[c] = "interrupted" \/ Excused(p, c)]_vars
  <2> SUFFICES ASSUME RecoveredInv, Next, NEW p \in Procs, stage[p] = "recovering",
                      stage'[p] = "recovered", NEW c \in owed
               PROVE  row'[c] = "interrupted" \/ Excused(p, c)
    OBVIOUS
  <2> USE DEF RecoveredInv, JournalInv, TypeOK
  <2>1. lock = p /\ c \in Cmds
    BY DEF RecoveryInv
  <2>2. RecoverCommit(p)
    <3>1. PICK q \in Procs : Operation(q) /\ stage' # stage
      BY ZenonT(40) DEF Next, CommandOperation, Start, Reboot, Judge, Begin, BeginFails, Launched,
         LaunchFails, ExitNoticed, Kill, CommandExits, Up
    <3>2. q = p \/ RecoverCommit(q)
      BY <3>1 DEF Operation, RecoverLock, RecoverFails, ReadToken, Check, Write, Throws,
         Dispose, Die
    <3> QED
      BY <2>1, <3>1, <3>2 DEF Operation, RecoverLock, RecoverFails, RecoverCommit, ReadToken,
         Check, Write, Throws, Dispose, Die
  <2>3. c \in doomed \/ Excused(p, c)
    BY <2>1, <2>2, JournalAssumption DEF RecoverCommit, OwedInv
  <2> QED BY <2>1, <2>2, <2>3 DEF RecoverCommit
<1> QED
  BY RecoveredInvariant, <1>1, PTL DEF Spec, RecoveryMissesNone
=============================================================================
