-------------------------- MODULE ChildRunsProofs --------------------------
(***************************************************************************)
(* Theorems about ChildRuns' slots, write claims and worktrees, for every  *)
(* set of runs, paths and keys, every overlap relation, limit and bound.   *)
(* Two of them are about callers that do not race, or about one process,   *)
(* and say so as their hypothesis.                                         *)
(***************************************************************************)
EXTENDS ChildRunsRecords, FiniteSetTheorems, SequenceTheorems

-----------------------------------------------------------------------------
(* What one step does to the registry's holds: slots and write claims.     *)

\* Nothing is taken.
Shrinks ==
  /\ slots' \subseteq slots
  /\ claims' \in [Handles -> SUBSET Paths]
  /\ \A o \in Handles : claims'[o] \subseteq claims[o]

\* Run h takes a claim that is free, a slot that is free, or both.
Takes(h) ==
  /\ slots' \subseteq slots \/ (SlotFree /\ slots' = slots \cup {h})
  /\ \/ claims' = claims
     \/ ClaimFree(h) /\ claims' = [claims EXCEPT ![h] = Owned[h]]

HoldsType == slots \subseteq Handles /\ claims \in [Handles -> SUBSET Paths]

HoldsInv == HoldsType /\ SlotsWithinLimit /\ ClaimsDisjoint

\* persistSettlement only ever gives back.
LEMMA SettleShrinks ==
  ASSUME HoldsType, NEW i, NEW out, NEW giveBack \in BOOLEAN,
         Settle(i, out, giveBack)
  PROVE  Shrinks
  BY DEF Settle, Shrinks, HoldsType

\* So does the catch of runDelegation.
LEMMA LaunchFailsShrinks ==
  ASSUME HoldsType, NEW h \in Handles, LaunchFails(h)
  PROVE  Shrinks
  BY DEF LaunchFails, Shrinks, HoldsType

LEMMA LaunchingHolds ==
  ASSUME HoldsType, NEW h \in Handles, Launching(h)
  PROVE  Shrinks \/ Takes(h)
<1>1. CASE Spawn(h)
  BY <1>1 DEF Spawn, Takes
<1>2. CASE SpawnOverLimit(h)
  BY <1>2 DEF SpawnOverLimit, Takes
<1>3. CASE PrepareDone(h)
  BY <1>3 DEF PrepareDone, registryVars, Takes
<1>4. CASE LaunchRejected(h) \/ LaunchOrphaned(h)
  BY <1>4, LaunchFailsShrinks DEF LaunchRejected, LaunchOrphaned
<1>5. CASE Launched(h)
  BY <1>5 DEF Launched, Takes
<1> QED
  BY <1>1, <1>2, <1>3, <1>4, <1>5 DEF Launching

LEMMA TurningHolds ==
  ASSUME HoldsType, NEW i \in Inst, Turning(i)
  PROVE  Shrinks
<1>1. ASSUME UNCHANGED <<slots, claims>> PROVE Shrinks
  BY <1>1 DEF Shrinks, HoldsType
<1>2. ASSUME NEW o \in TurnOutcomes, RunTurnEnds(i, o) PROVE Shrinks
  BY <1>1, <1>2, SettleShrinks DEF RunTurnEnds
<1>3. ASSUME NEW o \in TurnOutcomes, InputTurnEnds(i, o) PROVE Shrinks
  <2>1. (child[i].reattach /\ ~Ended(child[i].st, o).ok) \in BOOLEAN
    OBVIOUS
  <2> QED
    BY <1>1, <1>3, <2>1, SettleShrinks DEF InputTurnEnds
<1>4. ASSUME NEW pass \in BOOLEAN, RunVerified(i, pass) PROVE Shrinks
  BY <1>1, <1>4, SettleShrinks DEF RunVerified
<1>5. ASSUME NEW pass \in BOOLEAN, RunRechecked(i, pass) PROVE Shrinks
  BY <1>5, SettleShrinks DEF RunRechecked
<1>6. ASSUME NEW pass \in BOOLEAN, InputVerified(i, pass) PROVE Shrinks
  <2>1. (child[i].reattach /\ ~pass) \in BOOLEAN
    OBVIOUS
  <2> QED
    BY <1>6, <2>1, SettleShrinks DEF InputVerified
<1>7. CASE RunExpires(i)
  BY <1>7, SettleShrinks DEF RunExpires
<1> QED
  BY <1>2, <1>3, <1>4, <1>5, <1>6, <1>7 DEF Turning

LEMMA CallingHolds ==
  ASSUME HoldsType, NEW h \in Handles, Calling(h)
  PROVE  Shrinks
<1>1. ASSUME UNCHANGED <<slots, claims>> PROVE Shrinks
  BY <1>1 DEF Shrinks, HoldsType
<1>2. CASE QueueInput(h)
  BY <1>2, SettleShrinks DEF QueueInput
<1>3. CASE Close(h)
  BY <1>3 DEF Close, Shrinks, HoldsType
<1>4. CASE \/ SendInput(h) \/ Wait(h) \/ Interrupt(h)
           \/ InterruptWithReason(h) \/ ResumeLive(h)
  BY <1>1, <1>4
     DEF SendInput, Wait, Interrupt, InterruptWithReason, ResumeLive, registryVars
<1> QED
  BY <1>2, <1>3, <1>4 DEF Calling

LEMMA ReopeningHolds ==
  ASSUME HoldsType, NEW h \in Handles, Reopening(h)
  PROVE  Shrinks \/ Takes(h)
<1>1. ASSUME NEW g \in Gens, ResumeHistorical(h, g) PROVE Takes(h)
  BY <1>1 DEF ResumeHistorical, Resumable, Takes, HoldsType
<1>2. ASSUME NEW g \in Gens, ResumeRejected(h, g) PROVE Shrinks
  BY <1>2 DEF ResumeRejected, Shrinks, HoldsType
<1>3. ASSUME NEW g \in Gens, Resumed(h, g) PROVE Takes(h)
  BY <1>3 DEF Resumed, Takes
<1>4. CASE ResumeOverLimit(h)
  BY <1>4 DEF ResumeOverLimit, Shrinks, HoldsType
<1>5. CASE WorkspaceMissing(h) \/ RecoverStart(h) \/ RecoverDone(h) \/ RecoverRefused(h)
  BY <1>5
     DEF WorkspaceMissing, RecoverStart, RecoverDone, RecoverRefused, registryVars, Takes
<1> QED
  BY <1>1, <1>2, <1>3, <1>4, <1>5 DEF Reopening

LEMMA StepHolds ==
  ASSUME HoldsType, [Next]_vars
  PROVE  Shrinks \/ \E h \in Handles : Takes(h)
<1>1. ASSUME UNCHANGED <<slots, claims>> PROVE Shrinks
  BY <1>1 DEF Shrinks, HoldsType
<1>2. ASSUME NEW h \in Handles, ReleaseTree(h) PROVE Shrinks
  BY <1>1, <1>2 DEF ReleaseTree, registryVars
<1>3. ASSUME NEW h \in Handles, RecordRelease(h) PROVE Shrinks
  BY <1>3 DEF RecordRelease, Shrinks, HoldsType
<1>4. ASSUME NEW i \in Inst, ChildWrites(i) PROVE Shrinks
  BY <1>1, <1>4 DEF ChildWrites, registryVars
<1>5. CASE ParentAbort
  BY <1>1, <1>5 DEF ParentAbort, registryVars
<1>6. CASE Dispose
  BY <1>6 DEF Dispose, Shrinks, HoldsType
<1>7. CASE Restart
  BY <1>7 DEF Restart, Shrinks, HoldsType
<1>8. CASE UNCHANGED vars
  BY <1>1, <1>8 DEF vars
<1> QED
  BY <1>2, <1>3, <1>4, <1>5, <1>6, <1>7, <1>8, LaunchingHolds, TurningHolds,
     CallingHolds, ReopeningHolds
     DEF Next, Releasing

-----------------------------------------------------------------------------
(* The inductive invariant of the holds. *)

LEMMA HoldsInit == Init => HoldsInv
<1> SUFFICES ASSUME Init PROVE HoldsInv
  OBVIOUS
<1>1. HoldsType
  BY DEF Init, HoldsType
<1>2. SlotsWithinLimit
  BY FS_EmptySet, BoundsAssumption DEF Init, SlotsWithinLimit
<1>3. ClaimsDisjoint
  BY DEF Init, ClaimsDisjoint, Overlapping
<1> QED
  BY <1>1, <1>2, <1>3 DEF HoldsInv

LEMMA HoldsStep == HoldsInv /\ [Next]_vars => HoldsInv'
<1> SUFFICES ASSUME HoldsInv, [Next]_vars PROVE HoldsInv'
  OBVIOUS
<1>1. HoldsType /\ IsFiniteSet(slots) /\ Cardinality(slots) <= Limit
  BY FS_Subset, BoundsAssumption DEF HoldsInv, HoldsType, SlotsWithinLimit
<1>2. CASE Shrinks
  <2>1. HoldsType'
    BY <1>1, <1>2 DEF Shrinks, HoldsType
  <2>2. SlotsWithinLimit'
    <3>1. slots' \subseteq slots
      BY <1>2 DEF Shrinks
    <3>2. IsFiniteSet(slots') /\ Cardinality(slots') <= Cardinality(slots)
      BY <1>1, <3>1, FS_Subset
    <3> QED
      BY <1>1, <3>2, FS_CardinalityType, BoundsAssumption DEF SlotsWithinLimit
  <2>3. ClaimsDisjoint'
    BY <1>2 DEF Shrinks, HoldsInv, ClaimsDisjoint, Overlapping
  <2> QED BY <2>1, <2>2, <2>3 DEF HoldsInv
<1>3. ASSUME NEW h \in Handles, Takes(h) PROVE HoldsInv'
  <2>1. HoldsType'
    BY <1>1, <1>3, SetsAssumption DEF Takes, HoldsType
  <2>2. SlotsWithinLimit'
    <3>1. CASE slots' \subseteq slots
      <4>1. IsFiniteSet(slots') /\ Cardinality(slots') <= Cardinality(slots)
        BY <1>1, <3>1, FS_Subset
      <4> QED
        BY <1>1, <4>1, FS_CardinalityType, BoundsAssumption DEF SlotsWithinLimit
    <3>2. CASE SlotFree /\ slots' = slots \cup {h}
      <4>1. Cardinality(slots') = IF h \in slots THEN Cardinality(slots)
                                               ELSE Cardinality(slots) + 1
        BY <1>1, <3>2, FS_AddElement
      <4>2. Cardinality(slots) \in Nat
        BY <1>1, FS_CardinalityType
      <4>3. Cardinality(slots) < Limit
        BY <3>2 DEF SlotFree
      <4> QED
        BY <4>1, <4>2, <4>3, BoundsAssumption DEF SlotsWithinLimit
    <3> QED BY <1>3, <3>1, <3>2 DEF Takes
  <2>3. ClaimsDisjoint'
    <3>1. CASE claims' = claims
      BY <3>1 DEF HoldsInv, ClaimsDisjoint
    <3>2. CASE ClaimFree(h) /\ claims' = [claims EXCEPT ![h] = Owned[h]]
      <4> SUFFICES ASSUME NEW m \in Handles, NEW o \in Handles, m # o
                   PROVE  ~Overlapping(claims'[m], claims'[o])
        BY DEF ClaimsDisjoint
      <4>1. claims[m] \subseteq Paths /\ claims[o] \subseteq Paths
        BY <1>1 DEF HoldsType
      <4>2. CASE m = h
        BY <1>1, <3>2, <4>2 DEF HoldsType, ClaimFree
      <4>3. CASE o = h
        <5>1. ~Overlapping(Owned[h], claims[m])
          BY <3>2 DEF ClaimFree
        <5>2. Owned[h] \subseteq Paths
          BY SetsAssumption
        <5>3. ~Overlapping(claims[m], Owned[h])
          BY <4>1, <5>1, <5>2, OverlapsAssumption DEF Overlapping
        <5> QED
          BY <1>1, <3>2, <4>3, <5>3 DEF HoldsType
      <4>4. CASE m # h /\ o # h
        BY <1>1, <3>2, <4>4 DEF HoldsType, HoldsInv, ClaimsDisjoint
      <4> QED BY <4>2, <4>3, <4>4
    <3> QED BY <1>3, <3>1, <3>2 DEF Takes
  <2> QED BY <2>1, <2>2, <2>3 DEF HoldsInv
<1> QED
  BY <1>1, <1>2, <1>3, StepHolds

LEMMA HoldsInvariant == Spec => []HoldsInv
  BY HoldsInit, HoldsStep, PTL DEF Spec

-----------------------------------------------------------------------------

\* Launches, resumes, settlements, cancellations, closes and restarts in any
\* order never hold more slots than maxConcurrentChildren.
THEOREM AdmissionBound == Spec => []SlotsWithinLimit
<1>1. HoldsInv => SlotsWithinLimit
  BY DEF HoldsInv
<1> QED
  BY <1>1, HoldsInvariant, PTL

\* claimWorkspace never grants a claim that overlaps one still held, however
\* many runs launch, resume, fail or clean up at once.
THEOREM ClaimsNeverOverlap == Spec => []ClaimsDisjoint
<1>1. HoldsInv => ClaimsDisjoint
  BY DEF HoldsInv
<1> QED
  BY <1>1, HoldsInvariant, PTL

-----------------------------------------------------------------------------
(* Worktrees: what one step does to the directories on disk and to the     *)
(* launches that have not made theirs yet.                                 *)

Unprepared == {h \in Handles : spawn[h] \in {"new", "preparing"}}

PristineType ==
  /\ spawn \in [Handles -> {"new", "preparing", "building", "cleanup", "done"}]
  /\ tree \in [Handles -> {"absent", "clean", "dirty"}]

\* A run whose worktree was not prepared yet has none.
PristineInv == PristineType /\ \A h \in Unprepared : tree[h] = "absent"

\* The directories are left alone and no launch goes back.
LeavesTrees ==
  /\ tree' = tree
  /\ spawn' \in [Handles -> {"new", "preparing", "building", "cleanup", "done"}]
  /\ Unprepared' \subseteq Unprepared

LEMMA LaunchFailsLeavesTrees ==
  ASSUME PristineType, NEW h \in Handles, LaunchFails(h)
  PROVE  LeavesTrees
  BY DEF LaunchFails, ReleaseOnce, PristineType, LeavesTrees, Unprepared

LEMMA LaunchingLeavesTrees ==
  ASSUME PristineType, NEW h \in Handles, Launching(h)
  PROVE  LeavesTrees \/ PrepareDone(h)
<1>1. CASE Spawn(h)
  BY <1>1 DEF Spawn, PristineType, LeavesTrees, Unprepared
<1>2. CASE SpawnOverLimit(h)
  BY <1>2 DEF SpawnOverLimit, PristineType, LeavesTrees, Unprepared
<1>3. CASE LaunchRejected(h) \/ LaunchOrphaned(h)
  BY <1>3, LaunchFailsLeavesTrees DEF LaunchRejected, LaunchOrphaned
<1>4. CASE Launched(h)
  BY <1>4 DEF Launched, treeVars, PristineType, LeavesTrees, Unprepared
<1> QED
  BY <1>1, <1>2, <1>3, <1>4 DEF Launching

LEMMA StepLeavesTrees ==
  ASSUME PristineType, [Next]_vars
  PROVE  \/ LeavesTrees
         \/ \E h \in Handles : PrepareDone(h) \/ ReleaseTree(h)
         \/ \E i \in Inst : ChildWrites(i)
<1>1. ASSUME UNCHANGED <<tree, spawn>> PROVE LeavesTrees
  BY <1>1 DEF LeavesTrees, PristineType, Unprepared
<1>2. ASSUME NEW i \in Inst, Turning(i) PROVE LeavesTrees
  BY <1>1, <1>2
     DEF Turning, RunTurnEnds, InputTurnEnds, RunVerified, RunRechecked,
         InputVerified, RunExpires, treeVars, callVars
<1>3. ASSUME NEW h \in Handles, Calling(h) PROVE LeavesTrees
  BY <1>1, <1>3
     DEF Calling, SendInput, QueueInput, Wait, Interrupt, InterruptWithReason,
         ResumeLive, Close, ReleaseOnce, treeVars, callVars
<1>4. ASSUME NEW h \in Handles, Reopening(h) PROVE LeavesTrees
  BY <1>1, <1>4
     DEF Reopening, ResumeHistorical, ResumeRejected, Resumed, ResumeOverLimit,
         WorkspaceMissing, RecoverStart, RecoverDone, RecoverRefused, treeVars,
         callVars
<1>5. ASSUME NEW h \in Handles, RecordRelease(h) PROVE LeavesTrees
  BY <1>5 DEF RecordRelease, PristineType, LeavesTrees, Unprepared
<1>6. CASE ParentAbort \/ Dispose
  BY <1>1, <1>6 DEF ParentAbort, Dispose, ReleaseOnce, treeVars, callVars
<1>7. CASE Restart
  BY <1>7 DEF Restart, PristineType, LeavesTrees, Unprepared
<1>8. CASE UNCHANGED vars
  BY <1>1, <1>8 DEF vars
<1> QED
  BY <1>2, <1>3, <1>4, <1>5, <1>6, <1>7, <1>8, LaunchingLeavesTrees
     DEF Next, Releasing

LEMMA PristineStep == PristineInv /\ [Next]_vars => PristineInv' /\ [DirtyStays]_tree
<1> SUFFICES ASSUME PristineInv, [Next]_vars PROVE PristineInv' /\ [DirtyStays]_tree
  OBVIOUS
<1>0. PristineType
  BY DEF PristineInv
<1>1. CASE LeavesTrees
  BY <1>1 DEF LeavesTrees, PristineInv, PristineType
<1>2. ASSUME NEW h \in Handles, PrepareDone(h) PROVE PristineInv' /\ DirtyStays
  BY <1>2 DEF PrepareDone, PristineInv, PristineType, Unprepared, DirtyStays
<1>3. ASSUME NEW h \in Handles, ReleaseTree(h) PROVE PristineInv' /\ DirtyStays
  BY <1>3 DEF ReleaseTree, callVars, PristineInv, PristineType, Unprepared, DirtyStays
<1>4. ASSUME NEW i \in Inst, ChildWrites(i) PROVE PristineInv' /\ DirtyStays
  BY <1>4 DEF ChildWrites, Inst, callVars, PristineInv, PristineType, Unprepared,
              DirtyStays
<1> QED
  BY <1>0, <1>1, <1>2, <1>3, <1>4, StepLeavesTrees

\* No launch, failure, close, dispose, release or restart ever removes a
\* worktree that holds uncommitted work.
THEOREM UncommittedWorkSurvives == Spec => DirtyTreeKept
<1>1. Init => PristineInv
  BY DEF Init, PristineInv, PristineType, Unprepared
<1> QED
  BY <1>1, PristineStep, PTL DEF Spec, DirtyTreeKept

-----------------------------------------------------------------------------
(* Worktrees and the records about them.                                   *)

\* A session in hand belongs to a run that has a record.
HandsKnown(h) == \A g \in Gens : InHand(h, g) => rec[h].status # "absent"

LEMMA StepKeepsHands ==
  ASSUME TypeOK, NEW h \in Handles, RecordStep(h), RecordInv(h), HandsKnown(h)
  PROVE  HandsKnown(h)'
<1>1. CASE Reloads(h)
  BY <1>1 DEF Reloads, HandsKnown
<1>2. ASSUME rec[h].status # "absent" => rec'[h].status # "absent",
             \A g \in Gens : InHand(h, g)' => InHand(h, g) \/ rec'[h].status # "absent"
      PROVE  HandsKnown(h)'
  BY <1>2 DEF HandsKnown
<1>3. CASE Registers(h)
  BY <1>3, RecordFields DEF Registers, HandsKnown
<1>4. ASSUME NEW g \in Gens, Reopens(h, g)
      PROVE  HandsKnown(h)'
  BY <1>4 DEF Reopens, HandsKnown
<1>5. ASSUME SameHands(h), ~Reloads(h) PROVE HandsKnown(h)'
  BY <1>2, <1>5, StepKeepsKnown DEF SameHands
<1> QED
  BY <1>1, <1>3, <1>4, <1>5
     DEF RecordStep, Still, Saves, BeginsAttempt, Marks, MarksStale, GivesUp

\* A worktree the session file calls gone is gone, and so is one git said it
\* released, of a run that was registered.
GoneInv(h) ==
  /\ Early(h) /\ ~disposed => freeing[h] = "none" /\ h \notin freed
  /\ log[h].status = "absent" => log[h].ws = "unset"
  /\ rec[h].status # "absent" /\ freeing[h] = "released" => tree[h] = "absent"
  /\ log[h].ws \in {"released", "missing"} => tree[h] = "absent"

\* What a step may do to the worktree of run h, to its release and to what the
\* session file says of it.
GoneStep(h) ==
  /\ tree[h] = "absent" => tree'[h] = "absent" \/ spawn[h] = "preparing"
  /\ Early(h)' /\ ~disposed' =>
       \/ freeing'[h] = "none" /\ h \notin freed'
       \/ Early(h) /\ ~disposed /\ freeing'[h] = freeing[h] /\ (h \in freed' => h \in freed)
  /\ freeing'[h] = "released" => freeing[h] = "released" \/ tree'[h] = "absent"
  /\ rec'[h].status # "absent" =>
       \/ rec[h].status # "absent" \/ freeing'[h] = "none"
       \/ Early(h) /\ ~disposed /\ freeing'[h] = freeing[h]
  /\ log'[h].status = "absent" => log'[h] = log[h]
  /\ log'[h].ws \in {"released", "missing"} =>
       \/ log'[h].ws = log[h].ws \/ tree'[h] = "absent"
       \/ freeing[h] = "released" /\ rec[h].status # "absent" /\ tree'[h] = tree[h]

LEMMA GoneStepKeeps ==
  ASSUME SlotInv, NEW h \in Handles, GoneStep(h), GoneInv(h)
  PROVE  GoneInv(h)'
<1>1. Early(h) => rec[h].status = "absent" /\ log[h].status = "absent"
  BY DEF SlotInv, EarlyIsUnknown, Unknown
<1>2. tree[h] = "absent" /\ (rec[h].status # "absent" \/ log[h].ws # "unset")
        => tree'[h] = "absent"
  BY <1>1 DEF GoneStep, GoneInv, Early
<1>3. (Early(h) /\ ~disposed => freeing[h] = "none" /\ h \notin freed)'
  BY DEF GoneStep, GoneInv
<1>4. (log[h].status = "absent" => log[h].ws = "unset")'
  BY DEF GoneStep, GoneInv
<1>5. (rec[h].status # "absent" /\ freeing[h] = "released" => tree[h] = "absent")'
  BY <1>2 DEF GoneStep, GoneInv
<1>6. (log[h].ws \in {"released", "missing"} => tree[h] = "absent")'
  BY <1>2 DEF GoneStep, GoneInv
<1> QED
  BY <1>3, <1>4, <1>5, <1>6 DEF GoneInv

\* Nothing happens to the worktree of h, nor to its release.
TreeAlone(h) ==
  /\ tree'[h] = tree[h] /\ freeing'[h] = freeing[h] /\ (h \in freed' => h \in freed)
  /\ Early(h)' => Early(h)
  /\ disposed' = disposed

\* The record of h is left alone, or saved anew: without a workspace state.
SavedAnew(h) ==
  \/ rec'[h] = rec[h] /\ log'[h] = log[h]
  \/ log'[h].ws = "unset" /\ log'[h].status # "absent" /\ rec[h].status # "absent"

LEMMA AloneIsGoneStep ==
  ASSUME NEW h \in Handles, TreeAlone(h), SavedAnew(h)
  PROVE  GoneStep(h)
  BY DEF TreeAlone, SavedAnew, GoneStep

LEMMA SaveIsAnew ==
  ASSUME TypeOK, NEW o \in Handles, NEW e, NEW status, status # "absent",
         Save(o, e, status), rec[o].status # "absent", NEW h \in Handles
  PROVE  SavedAnew(h)
<1>1. h # o => rec'[h] = rec[h] /\ log'[h] = log[h]
  BY SaveIsLocal
<1>2. log'[o] = RecordOf(e, status)
  BY SaveRecovery
<1>3. RecordOf(e, status).ws = "unset" /\ RecordOf(e, status).status = status
  BY DEF RecordOf
<1> QED
  BY <1>1, <1>2, <1>3 DEF SavedAnew

LEMMA SettleIsAnew ==
  ASSUME TypeOK, NEW i \in Inst, NEW out \in Outcomes, NEW giveBack,
         Settle(i, out, giveBack), rec[i[1]].status # "absent", NEW h \in Handles
  PROVE  SavedAnew(h)
<1>1. out # "absent" /\ i[1] \in Handles
  BY DEF Outcomes, Inst
<1>2. CASE entry[i].closed
  BY <1>2 DEF Settle, recordVars, SavedAnew
<1>3. CASE ~entry[i].closed
  <2>1. \E e : Save(i[1], e, out)
    BY <1>3 DEF Settle
  <2> QED BY <1>1, <2>1, SaveIsAnew
<1> QED BY <1>2, <1>3

LEMMA TurningGone ==
  ASSUME SlotInv, \A o \in Handles : HandsKnown(o),
         NEW i \in Inst, Turning(i), NEW h \in Handles
  PROVE  GoneStep(h)
<1> USE DEF treeVars, callVars, recordVars
<1>1. TypeOK /\ Active(i) /\ TreeAlone(h)
  BY TurningIsLocal
     DEF SlotInv, Turning, RunTurnEnds, InputTurnEnds, RunVerified, RunRechecked,
         InputVerified, RunExpires, TreeAlone, Early
<1>2. rec[i[1]].status # "absent"
  <2>1. PICK o \in Handles, g \in Gens : i = <<o, g>>
    BY DEF Inst
  <2> QED BY <1>1, <2>1 DEF HandsKnown, InHand
<1>3. ASSUME NEW out \in Outcomes, NEW back, Settle(i, out, back) PROVE GoneStep(h)
  BY <1>1, <1>2, <1>3, SettleIsAnew, AloneIsGoneStep
<1>4. ASSUME UNCHANGED recordVars PROVE GoneStep(h)
  BY <1>1, <1>4, AloneIsGoneStep DEF SavedAnew
<1>5. Reported(i) \in Outcomes /\ "failed" \in Outcomes
  BY <1>1, ReportedType, TypeParts DEF TypeInParts, Outcomes
<1>6. ASSUME NEW o \in TurnOutcomes, RunTurnEnds(i, o) \/ InputTurnEnds(i, o)
      PROVE  GoneStep(h)
  <2>1. Ended(child[i].st, o).last \in Outcomes
    BY EndedType
  <2>2. UNCHANGED recordVars \/ \E back : Settle(i, Ended(child[i].st, o).last, back)
    BY <1>6 DEF RunTurnEnds, InputTurnEnds
  <2> QED BY <1>3, <1>4, <2>1, <2>2
<1>7. ASSUME NEW pass \in BOOLEAN,
             RunVerified(i, pass) \/ RunRechecked(i, pass) \/ InputVerified(i, pass)
      PROVE  GoneStep(h)
  <2>1. \/ UNCHANGED recordVars
        \/ \E back : \/ Settle(i, "failed", back)
                     \/ Settle(i, IF pass THEN Reported(i) ELSE "failed", back)
    BY <1>7 DEF RunVerified, RunRechecked, InputVerified
  <2> QED BY <1>3, <1>4, <1>5, <2>1
<1>8. CASE RunExpires(i)
  <2>1. Settle(i, "failed", FALSE)
    BY <1>8 DEF RunExpires
  <2> QED BY <1>3, <1>5, <2>1
<1> QED
  BY <1>6, <1>7, <1>8 DEF Turning

\* interrupt with a reason saves what it reaches anew.
LEMMA CancelIsAnew ==
  ASSUME TypeOK, \A o \in Handles : HandsKnown(o), NEW H, Cancel(H), NEW h \in Handles
  PROVE  SavedAnew(h)
<1> DEFINE done == [entry[Cur(h)] EXCEPT !.cancelled = TRUE,
                                         !.attempts = SetOutcome(@, "cancelled")]
<1>1. CASE ~(h \in H /\ Open(h))
  BY <1>1 DEF Cancel, SavedAnew
<1>2. CASE h \in H /\ Open(h)
  <2>1. log'[h] = RecordOf(done, "interrupted")
    BY <1>2 DEF Cancel
  <2> HIDE DEF done
  <2>2. log'[h].ws = "unset" /\ log'[h].status # "absent"
    BY <2>1 DEF RecordOf
  <2>3. live[h] \in Gens
    BY <1>2, CurType, TypeParts DEF TypeInParts
  <2>4. rec[h].status # "absent"
    BY <2>3 DEF HandsKnown, InHand
  <2> QED BY <2>2, <2>4 DEF SavedAnew
<1> QED BY <1>1, <1>2

LEMMA CallingGone ==
  ASSUME SlotInv, \A o \in Handles : HandsKnown(o),
         NEW o \in Handles, Calling(o), NEW h \in Handles
  PROVE  GoneStep(h)
<1> USE DEF registryVars, treeVars, callVars, recordVars
<1>1. TypeOK /\ Open(o)
  BY DEF SlotInv, Calling, SendInput, QueueInput, Wait, Interrupt,
         InterruptWithReason, ResumeLive, Close
<1>2. live[o] \in Gens /\ Cur(o) \in Inst
  BY <1>1, CurType, TypeParts DEF TypeInParts
<1>3. rec[o].status # "absent"
  BY <1>2 DEF HandsKnown, InHand
<1>4. CASE ~Close(o)
  <2>1. TreeAlone(h)
    BY <1>4 DEF Calling, SendInput, QueueInput, Wait, Interrupt,
                InterruptWithReason, ResumeLive, TreeAlone, Early
  <2>2. CASE SendInput(o) \/ Interrupt(o) \/ ResumeLive(o)
    BY <2>1, <2>2, AloneIsGoneStep DEF SendInput, Interrupt, ResumeLive, SavedAnew
  <2>3. CASE QueueInput(o)
    <3>1. Settle(Cur(o), Reported(Cur(o)), FALSE) /\ Cur(o)[1] = o
      BY <2>3 DEF QueueInput, Cur
    <3>2. Reported(Cur(o)) \in Outcomes
      BY <1>1, <1>2, ReportedType, TypeParts DEF TypeInParts
    <3> QED BY <1>1, <1>2, <1>3, <2>1, <3>1, <3>2, SettleIsAnew, AloneIsGoneStep
  <2>4. CASE Wait(o)
    BY <1>1, <1>3, <2>1, <2>4, SaveIsAnew, AloneIsGoneStep DEF Wait
  <2>5. CASE InterruptWithReason(o)
    BY <1>1, <2>1, <2>5, CancelIsAnew, AloneIsGoneStep DEF InterruptWithReason
  <2> QED BY <1>4, <2>2, <2>3, <2>4, <2>5 DEF Calling
<1>5. CASE Close(o)
  <2>1. SavedAnew(h)
    <3>1. \E e : Save(o, e, "closed")
      BY <1>5 DEF Close
    <3> QED BY <1>1, <1>3, <3>1, SaveIsAnew
  <2>2. ~Early(o)
    BY <1>3 DEF SlotInv, EarlyIsUnknown, Unknown
  <2>3. /\ tree' = tree /\ spawn' = spawn /\ freed' = freed \cup {o}
        /\ freeing'[h] \in {freeing[h], "running"}
        /\ h # o => freeing'[h] = freeing[h]
        /\ disposed' = disposed
    BY <1>5 DEF Close, ReleaseOnce
  <2> QED
    BY <2>1, <2>2, <2>3 DEF SavedAnew, GoneStep, Early
<1> QED BY <1>4, <1>5

LEMMA LaunchingGone ==
  ASSUME SlotInv, NEW o \in Handles, Launching(o), NEW h \in Handles
  PROVE  GoneStep(h)
<1> USE DEF registryVars, treeVars, callVars, recordVars
<1>1. /\ TypeOK /\ spawn \in [Handles -> {"new", "preparing", "building", "cleanup", "done"}]
      /\ tree \in [Handles -> {"absent", "clean", "dirty"}]
      /\ freeing \in [Handles -> {"none", "running", "released", "retained",
                                  "gone", "kept"}]
  BY DEF SlotInv, TypeOK
<1>2. CASE Spawn(o)
  <2>1. TreeAlone(h)
    BY <1>1, <1>2 DEF Spawn, TreeAlone, Early
  <2> QED BY <1>2, <2>1, AloneIsGoneStep DEF Spawn, SavedAnew
<1>3. CASE SpawnOverLimit(o)
  <2>1. /\ UNCHANGED <<tree, rec, log, disposed>> /\ freed' = freed \cup {o}
        /\ spawn'[o] \in {"cleanup", "done"}
        /\ \A m \in Handles : m # o => spawn'[m] = spawn[m] /\ freeing'[m] = freeing[m]
        /\ freeing'[o] \in {freeing[o], "running"}
    BY <1>1, <1>3 DEF SpawnOverLimit
  <2> QED BY <2>1 DEF GoneStep, Early
<1>4. CASE PrepareDone(o)
  <2>1. /\ UNCHANGED <<freeing, freed, rec, log, disposed>>
        /\ spawn[o] = "preparing"
        /\ \A m \in Handles : m # o => spawn'[m] = spawn[m] /\ tree'[m] = tree[m]
    BY <1>1, <1>4 DEF PrepareDone
  <2> QED BY <2>1 DEF GoneStep, Early
<1>5. CASE LaunchRejected(o) \/ LaunchOrphaned(o)
  <2>1. LaunchFails(o) /\ UNCHANGED <<rec, log, disposed>>
    BY <1>5 DEF LaunchRejected, LaunchOrphaned
  <2>2. /\ tree' = tree /\ freed' = freed \cup {o}
        /\ spawn'[o] \in {"cleanup", "done"}
        /\ \A m \in Handles : m # o => spawn'[m] = spawn[m] /\ freeing'[m] = freeing[m]
        /\ freeing'[o] \in {freeing[o], "running"}
    BY <1>1, <2>1 DEF LaunchFails, ReleaseOnce
  <2> QED BY <2>1, <2>2 DEF GoneStep, Early
<1>6. CASE Launched(o)
  <2>1. /\ UNCHANGED <<tree, freeing, freed, disposed>> /\ ~disposed
        /\ spawn[o] = "building" /\ spawn'[o] = "done"
        /\ \A m \in Handles : m # o => spawn'[m] = spawn[m]
    BY <1>1, <1>6 DEF Launched
  <2>2. PICK e, status : status # "absent" /\ Save(o, e, status)
    BY <1>6 DEF Launched
  <2>3. log'[o].ws = "unset" /\ log'[o].status # "absent"
    <3>1. log'[o] = RecordOf(e, status)
      BY <1>1, <2>2, SaveRecovery
    <3>2. RecordOf(e, status).ws = "unset" /\ RecordOf(e, status).status = status
      BY DEF RecordOf
    <3> QED BY <2>2, <3>1, <3>2
  <2>4. h # o => rec'[h] = rec[h] /\ log'[h] = log[h]
    BY <1>1, <2>2, SaveIsLocal
  <2> QED BY <2>1, <2>3, <2>4 DEF GoneStep, Early
<1> QED
  BY <1>2, <1>3, <1>4, <1>5, <1>6 DEF Launching

LEMMA ReopeningGone ==
  ASSUME RecordsInv, \A o \in Handles : HandsKnown(o),
         NEW o \in Handles, Reopening(o), NEW h \in Handles
  PROVE  GoneStep(h)
<1> USE DEF registryVars, treeVars, callVars, recordVars
<1>1. /\ TypeOK /\ rec \in [Handles -> Record] /\ log \in [Handles -> Record]
      /\ \A r \in Record : r.ws \in {"unset", "active", "released", "retained", "missing"}
      /\ recov \in [Handles -> [phase : {"none", "shared", "stale"}, copy : Record]]
      /\ RecordInv(o)
  BY DEF RecordsInv, SlotInv, TypeOK, Record
<1>2. TreeAlone(h)
  BY DEF Reopening, ResumeHistorical, ResumeRejected, Resumed, ResumeOverLimit,
         WorkspaceMissing, RecoverStart, RecoverDone, RecoverRefused, TreeAlone, Early
<1>3. ASSUME UNCHANGED <<rec, log>> PROVE GoneStep(h)
  BY <1>2, <1>3, AloneIsGoneStep DEF SavedAnew
<1>4. CASE \/ ResumeOverLimit(o) \/ RecoverStart(o) \/ RecoverRefused(o)
           \/ \E g \in Gens : ResumeHistorical(o, g) \/ ResumeRejected(o, g)
  BY <1>3, <1>4
     DEF ResumeOverLimit, RecoverStart, RecoverRefused, ResumeHistorical, ResumeRejected
<1>5. ASSUME NEW g \in Gens, Resumed(o, g) PROVE GoneStep(h)
  <2>1. rec[o].status # "absent"
    BY <1>5 DEF Resumed, HandsKnown, InHand
  <2>2. SavedAnew(h)
    BY <1>1, <1>5, <2>1, SaveIsAnew DEF Resumed
  <2> QED BY <1>2, <2>2, AloneIsGoneStep
<1>6. CASE WorkspaceMissing(o)
  <2>1. /\ rec[o].status # "absent" /\ tree[o] = "absent"
        /\ log'[o] = [rec[o] EXCEPT !.ws = "missing"]
        /\ h # o => rec'[h] = rec[h] /\ log'[h] = log[h]
    BY <1>1, <1>6 DEF WorkspaceMissing, TreeGone
  <2>2. log'[o].status # "absent"
    BY <1>1, <2>1, RecordFields
  <2> QED BY <1>2, <2>1, <2>2 DEF TreeAlone, GoneStep
<1>7. CASE RecoverDone(o)
  <2> DEFINE old == IF recov[o].phase = "shared" THEN rec[o] ELSE recov[o].copy
  <2>1. /\ recov[o].phase \in {"shared", "stale"}
        /\ log'[o] = [old EXCEPT !.ws = "active"]
        /\ \/ rec'[o] = rec[o]
           \/ recov[o].phase = "shared" /\ rec[o].status # "absent"
        /\ h # o => rec'[h] = rec[h] /\ log'[h] = log[h]
    BY <1>1, <1>7 DEF RecoverDone, RecordInv
  <2>2. old \in Record /\ old.status # "absent"
    BY <1>1, <2>1 DEF RecordInv
  <2> HIDE DEF old
  <2>3. log'[o].ws = "active" /\ log'[o].status # "absent"
    BY <2>1, <2>2 DEF Record
  <2> QED BY <1>2, <2>1, <2>3 DEF TreeAlone, GoneStep
<1> QED
  BY <1>4, <1>5, <1>6, <1>7 DEF Reopening

LEMMA OtherGone ==
  ASSUME RecordsInv, \A o \in Handles : HandsKnown(o), [Next]_vars, NEW h \in Handles,
         GoneInv(h),
         ~ \E o \in Handles : Launching(o) \/ Calling(o) \/ Reopening(o),
         ~ \E i \in Inst : Turning(i)
  PROVE  GoneStep(h)
<1> USE DEF registryVars, treeVars, callVars, recordVars
<1>1. /\ TypeOK /\ SlotInv /\ tree \in [Handles -> {"absent", "clean", "dirty"}]
      /\ freeing \in [Handles -> {"none", "running", "released", "retained",
                                  "gone", "kept"}]
      /\ spawn \in [Handles -> {"new", "preparing", "building", "cleanup", "done"}]
      /\ rec \in [Handles -> Record] /\ log \in [Handles -> Record]
  BY DEF RecordsInv, SlotInv, TypeOK
<1>2. ASSUME NEW o \in Handles, ReleaseTree(o) PROVE GoneStep(h)
  <2>1. /\ UNCHANGED <<freed, spawn, disposed, rec, log>>
        /\ h # o => tree'[h] = tree[h] /\ freeing'[h] = freeing[h]
        /\ freeing[o] = "running" /\ freeing'[o] \in {"released", "retained"}
        /\ tree'[o] \in {tree[o], "absent"}
        /\ freeing'[o] = "released" => tree'[o] = "absent"
    BY <1>1, <1>2 DEF ReleaseTree
  <2> QED
    BY <2>1 DEF GoneStep, GoneInv, Early
<1>3. ASSUME NEW o \in Handles, RecordRelease(o) PROVE GoneStep(h)
  <2>1. /\ UNCHANGED <<tree, freed, disposed>>
        /\ freeing[o] \in {"released", "retained"} /\ freeing'[o] \in {"gone", "kept"}
        /\ spawn'[o] \in {spawn[o], "done"}
        /\ h # o => /\ freeing'[h] = freeing[h] /\ spawn'[h] = spawn[h]
                    /\ rec'[h] = rec[h] /\ log'[h] = log[h]
        /\ \/ rec'[o] = rec[o] /\ log'[o] = log[o]
           \/ /\ rec[o].status # "absent"
              /\ log'[o] = [rec[o] EXCEPT !.ws = freeing[o]]
    BY <1>1, <1>3 DEF RecordRelease
  <2>2. [rec[o] EXCEPT !.ws = freeing[o]].ws = freeing[o]
    BY <1>1 DEF Record
  <2>3. [rec[o] EXCEPT !.ws = freeing[o]].status = rec[o].status
    BY <1>1, RecordFields
  <2> QED
    BY <2>1, <2>2, <2>3 DEF GoneStep, GoneInv, Early
<1>4. ASSUME NEW i \in Inst, ChildWrites(i) PROVE GoneStep(h)
  <2>1. /\ UNCHANGED <<freeing, freed, spawn, disposed, rec, log>>
        /\ tree[h] = "absent" => tree'[h] = "absent"
        /\ tree'[h] = tree[h] \/ (tree[h] # "absent" /\ tree'[h] = "dirty")
    BY <1>1, <1>4 DEF ChildWrites
  <2> QED BY <2>1 DEF GoneStep, GoneInv, Early
<1>5. CASE ParentAbort
  <2>1. TreeAlone(h)
    BY <1>5 DEF ParentAbort, TreeAlone, Early
  <2> QED BY <1>1, <1>5, <2>1, CancelIsAnew, AloneIsGoneStep DEF ParentAbort
<1>6. CASE Dispose
  <2>1. /\ disposed' /\ UNCHANGED <<tree, rec, log>>
        /\ freeing'[h] \in {freeing[h], "running"}
    BY <1>6 DEF Dispose, ReleaseOnce
  <2> QED BY <2>1 DEF GoneStep
<1>7. CASE Restart
  <2>1. freeing'[h] = "none" /\ freed' = {} /\ UNCHANGED <<tree, log>>
    BY <1>7 DEF Restart
  <2> QED BY <2>1 DEF GoneStep
<1>8. CASE UNCHANGED vars
  BY <1>8 DEF vars, GoneStep, Early
<1> QED
  BY <1>2, <1>3, <1>4, <1>5, <1>6, <1>7, <1>8 DEF Next, Releasing

TreesInv == RecordsInv /\ \A h \in Handles : HandsKnown(h) /\ GoneInv(h)

LEMMA TreesStep == TreesInv /\ [Next]_vars => TreesInv'
<1> SUFFICES ASSUME TreesInv, [Next]_vars PROVE TreesInv'
  OBVIOUS
<1>1. /\ RecordsInv' /\ TypeOK /\ SlotInv /\ RecoveryIsKnown
      /\ \A h \in Handles : HandsKnown(h) /\ RecordInv(h) /\ GoneInv(h)
  BY RecordsStep DEF TreesInv, RecordsInv, RecordInv, SlotInv, RecoveryIsKnown
<1>2. \A h \in Handles : HandsKnown(h)'
  BY <1>1, EveryRecordStep, StepKeepsHands
<1>3. \A h \in Handles : GoneStep(h)
  BY <1>1, TurningGone, CallingGone, LaunchingGone, ReopeningGone, OtherGone
     DEF TreesInv
<1>4. \A h \in Handles : GoneInv(h)'
  BY <1>1, <1>3, GoneStepKeeps
<1> QED BY <1>1, <1>2, <1>4 DEF TreesInv

LEMMA TreesInit == Init => TreesInv
<1> SUFFICES ASSUME Init PROVE TreesInv
  OBVIOUS
<1>1. RecordsInv
  BY RecordsInit
<1>2. ASSUME NEW h \in Handles PROVE HandsKnown(h) /\ GoneInv(h)
  <2>1. \A g \in Gens : child[<<h, g>>] = NoChild /\ g # 0
    BY DEF Init, Inst, Gens
  <2>2. HandsKnown(h)
    BY <2>1 DEF Init, HandsKnown, InHand, Active, NoChild
  <2> QED
    BY <2>2 DEF Init, GoneInv, NoRecord
<1> QED BY <1>1, <1>2 DEF TreesInv

\* The session file never calls a worktree released, or missing, that still
\* exists: not after a release git refused, a release that raced a launch, a
\* dispose during a launch, a restart or a recovery that came late.
THEOREM GoneWorktreesAreGone == Spec => []GoneMeansGone
<1>1. TreesInv => GoneMeansGone
  BY DEF TreesInv, GoneInv, GoneMeansGone
<1> QED
  BY <1>1, TreesInit, TreesStep, PTL DEF Spec

-----------------------------------------------------------------------------
(* The holds of a run whose launch or resume has not settled.  Callers are  *)
(* taken to wait for one call on a run before they start the next.          *)

Holds(h) == h \in slots /\ claims[h] = Owned[h]

\* The chain of run() and that of sendInput never overlap, and a resumed turn
\* belongs to the latter.
ChainsApart(i) ==
  /\ child[i].reattach => child[i].run = "none" /\ child[i].input # "none"
  /\ child[i].run \notin {"none", "done"} => child[i].input = "none"

KeepInv(h) ==
  /\ disposed => live[h] = 0
  /\ spawn[h] = "cleanup" => Unknown(h)
  /\ claims[h] \subseteq Owned[h]
  /\ ~disposed /\ (spawn[h] \in {"preparing", "building"} \/ rebuild[h] # {}) => Holds(h)
  /\ \A g \in Gens : ChainsApart(<<h, g>>)
  /\ Unsettled(h) => Holds(h)

\* Nothing KeepInv reads of run h changes, but for a slot it may be given.
Framed(h) ==
  /\ claims'[h] = claims[h] /\ (h \in slots => h \in slots')
  /\ spawn'[h] = spawn[h] /\ live'[h] = live[h] /\ rebuild'[h] = rebuild[h]
  /\ rec'[h] = rec[h] /\ log'[h] = log[h] /\ recov'[h] = recov[h]
  /\ \A g \in Gens : child'[<<h, g>>] = child[<<h, g>>] /\ entry'[<<h, g>>] = entry[<<h, g>>]
  /\ disposed' = disposed

LEMMA FramedUnknown ==
  ASSUME NEW h \in Handles, Framed(h)
  PROVE  Unknown(h)' <=> Unknown(h)
  BY DEF Framed, Unknown, Active

LEMMA FramedKeeps ==
  ASSUME TypeOK, NEW h \in Handles, Framed(h), KeepInv(h)
  PROVE  KeepInv(h)'
<1>1. Open(h) => live[h] \in Gens
  BY CurType, TypeParts DEF TypeInParts
<1>2. Holds(h) => Holds(h)'
  BY DEF Framed, Holds
<1>3. Unsettled(h)' => Unsettled(h)
  BY <1>1 DEF Framed, Unsettled, Open, Cur, Gens, TypeOK
<1>4. \A g \in Gens : ChainsApart(<<h, g>>) => ChainsApart(<<h, g>>)'
  BY DEF Framed, ChainsApart
<1> QED
  BY <1>2, <1>3, <1>4, FramedUnknown DEF Framed, KeepInv

\* A settlement gives back what its own run holds, and nothing else.
LEMMA SettleGives ==
  ASSUME TypeOK, NEW i \in Inst, NEW out, NEW giveBack, Settle(i, out, giveBack)
  PROVE  /\ \A h \in Handles : h # i[1] => claims'[h] = claims[h] /\ (h \in slots => h \in slots')
         /\ claims'[i[1]] \in {claims[i[1]], {}}
         /\ ~giveBack => claims' = claims
  BY DEF Settle, TypeOK, Inst

\* A turn ends, or a verification answers: the run keeps its holds, or its
\* chain is over.
LEMMA TurningApart ==
  ASSUME TypeOK, NEW i \in Inst, Turning(i)
  PROVE  /\ \A h \in Handles : h # i[1] => claims'[h] = claims[h] /\ (h \in slots => h \in slots')
         /\ claims'[i[1]] \in {claims[i[1]], {}}
         /\ ~child[i].reattach => claims' = claims
         /\ ChainsApart(i) =>
              /\ ChainsApart(i)'
              /\ \/ slots' = slots /\ claims' = claims
                 \/ child'[i].run \in {"none", "done"} /\ ~child'[i].reattach
         /\ child'[i].reattach => child[i].reattach
         /\ child'[i].run \notin {"none", "done"} => child[i].run \notin {"none", "done"}
         /\ entry'[i].closed = entry[i].closed
<1> DEFINE Same == slots' = slots /\ claims' = claims
           Over == child'[i].run \in {"none", "done"} /\ ~child'[i].reattach
<1>1. child[i] \in Child /\ child \in [Inst -> Child] /\ claims \in [Handles -> SUBSET Paths]
  BY DEF TypeOK
<1>2. /\ \/ Same /\ entry' = entry
         \/ \E out, back : Settle(i, out, back) /\ (back => child[i].reattach)
      /\ child'[i].reattach => child[i].reattach
      /\ child'[i].run \notin {"none", "done"} => child[i].run \notin {"none", "done"}
      /\ ChainsApart(i) => ChainsApart(i)' /\ (Same \/ Over)
  <2>1. ASSUME NEW o \in TurnOutcomes, RunTurnEnds(i, o) PROVE <1>2!:
    <3> DEFINE r == Ended(child[i].st, o)
               phase == IF ~(r.ok /\ i[1] \in Verifying) THEN "done"
                        ELSE IF i[1] \in General /\ child[i].run = "turn" THEN "verify"
                        ELSE "recheck"
    <3>1. child[i].run \in {"turn", "fix"}
      BY <2>1 DEF RunTurnEnds
    <3>2. /\ child'[i].run = phase /\ child'[i].input = child[i].input
          /\ child'[i].reattach = child[i].reattach
      BY <1>1, <2>1 DEF RunTurnEnds, Child
    <3>3. (Same /\ entry' = entry) \/ (phase = "done" /\ Settle(i, r.last, FALSE))
      BY <2>1 DEF RunTurnEnds
    <3>4. phase \in {"done", "verify", "recheck"}
      OBVIOUS
    <3> HIDE DEF phase
    <3> QED BY <3>1, <3>2, <3>3, <3>4 DEF ChainsApart
  <2>2. ASSUME NEW o \in TurnOutcomes, InputTurnEnds(i, o) PROVE <1>2!:
    <3> DEFINE r == Ended(child[i].st, o)
               verifies == r.ok /\ i[1] \in Verifying
    <3>1. child[i].input = "turn"
      BY <2>2 DEF InputTurnEnds
    <3>2. /\ child'[i].run = child[i].run
          /\ child'[i].input = IF verifies THEN "verify" ELSE "none"
          /\ child'[i].reattach = (verifies /\ child[i].reattach)
      BY <1>1, <2>2 DEF InputTurnEnds, Child
    <3>3. \/ Same /\ entry' = entry /\ verifies
          \/ ~verifies /\ Settle(i, r.last, child[i].reattach /\ ~r.ok)
      BY <2>2 DEF InputTurnEnds
    <3> HIDE DEF verifies
    <3> QED BY <3>1, <3>2, <3>3 DEF ChainsApart
  <2>3. ASSUME NEW pass \in BOOLEAN, RunVerified(i, pass) PROVE <1>2!:
    <3> DEFINE repairs == child[i].st # "closed" /\ ~InFlight(i)
               phase == IF pass THEN "recheck" ELSE IF repairs THEN "fix" ELSE "done"
    <3>1. /\ child[i].run = "verify"
          /\ child'[i].run = phase /\ child'[i].input = child[i].input
          /\ child'[i].reattach = child[i].reattach
      BY <1>1, <2>3 DEF RunVerified, Child
    <3>2. (Same /\ entry' = entry) \/ (phase = "done" /\ Settle(i, "failed", FALSE))
      BY <2>3 DEF RunVerified
    <3>3. phase \in {"recheck", "fix", "done"}
      OBVIOUS
    <3> HIDE DEF phase
    <3> QED BY <3>1, <3>2, <3>3 DEF ChainsApart
  <2>4. ASSUME NEW pass \in BOOLEAN, RunRechecked(i, pass) PROVE <1>2!:
    <3>1. /\ child[i].run = "recheck"
          /\ child'[i].run = "done" /\ child'[i].input = child[i].input
          /\ child'[i].reattach = child[i].reattach
      BY <1>1, <2>4 DEF RunRechecked, Child
    <3>2. \E out : Settle(i, out, FALSE)
      BY <2>4 DEF RunRechecked
    <3> QED BY <3>1, <3>2 DEF ChainsApart
  <2>5. ASSUME NEW pass \in BOOLEAN, InputVerified(i, pass) PROVE <1>2!:
    <3>1. /\ child[i].input = "verify" /\ child'[i].run = child[i].run
          /\ child'[i].input = "none" /\ ~child'[i].reattach
      BY <1>1, <2>5 DEF InputVerified, Child
    <3>2. \E out : Settle(i, out, child[i].reattach /\ ~pass)
      BY <2>5 DEF InputVerified
    <3> QED BY <3>1, <3>2 DEF ChainsApart
  <2>6. CASE RunExpires(i)
    <3>1. /\ child[i].run = "turn"
          /\ child'[i].run = "done" /\ child'[i].input = child[i].input
          /\ child'[i].reattach = child[i].reattach
      BY <1>1, <2>6 DEF RunExpires, Child
    <3>2. Settle(i, "failed", FALSE)
      BY <2>6 DEF RunExpires
    <3> QED BY <3>1, <3>2 DEF ChainsApart
  <2> QED
    BY <2>1, <2>2, <2>3, <2>4, <2>5, <2>6 DEF Turning
<1> QED
  BY <1>1, <1>2, SettleGives, SettleEntry

\* What the steps below may rely on.
HandsInv ==
  /\ TreesInv
  /\ \A h \in Handles : OneInHand(h)

LEMMA HandsFacts ==
  ASSUME HandsInv
  PROVE  /\ TypeOK /\ SlotInv /\ claims \in [Handles -> SUBSET Paths]
         /\ child \in [Inst -> Child] /\ entry \in [Inst -> Entry]
         /\ live \in [Handles -> 0 .. MaxBuilds] /\ rebuild \in [Handles -> SUBSET Gens]
         /\ spawn \in [Handles -> {"new", "preparing", "building", "cleanup", "done"}]
         /\ \A h \in Handles :
              /\ Early(h) => Unknown(h)
              /\ OneInHand(h) /\ HandsKnown(h) /\ RunInv(h)
              /\ \A g \in Gens : <<h, g>> \in Inst
              /\ Open(h) => live[h] \in Gens
         /\ 0 \notin Gens
  BY Instances, RunByRun, CurType, TypeParts
     DEF HandsInv, TreesInv, RecordsInv, SlotInv, TypeOK, EarlyIsUnknown, TypeInParts, Gens

\* Nothing is in hand of a run that is being launched or cleaned up; a run that
\* is being rebuilt has no session in use.
LEMMA BuildsAreAlone ==
  ASSUME HandsInv, NEW h \in Handles, KeepInv(h), NEW g \in Gens,
         Active(<<h, g>>) \/ live[h] = g
  PROVE  /\ spawn[h] \notin {"new", "preparing", "building", "cleanup"}
         /\ disposed \/ rebuild[h] = {}
<1>1. ~Unknown(h)
  BY HandsFacts DEF Unknown
<1>2. ASSUME ~disposed, NEW f \in rebuild[h] PROVE FALSE
  <2>1. f \in Gens /\ InHand(h, f) /\ InHand(h, g)
    BY <1>2, HandsFacts DEF InHand
  <2>2. f = g
    BY <2>1, HandsFacts DEF OneInHand
  <2> QED
    BY <1>2, <2>2, HandsFacts DEF RunInv
<1> QED
  BY <1>1, <1>2, HandsFacts DEF KeepInv, Early

LEMMA TurningKeep ==
  ASSUME HandsInv, NEW i \in Inst, Turning(i), NEW h \in Handles, KeepInv(h)
  PROVE  KeepInv(h)'
<1>1. PICK o \in Handles, g \in Gens : i = <<o, g>>
  BY DEF Inst
<1>2. Active(i) /\ Local(i) /\ disposed' = disposed
  BY HandsFacts, TurningIsLocal
     DEF Turning, RunTurnEnds, InputTurnEnds, RunVerified, RunRechecked,
         InputVerified, RunExpires
<1>3. /\ h # o => claims'[h] = claims[h] /\ (h \in slots => h \in slots')
      /\ claims'[o] \in {claims[o], {}}
      /\ ChainsApart(i) => /\ ChainsApart(i)'
                           /\ \/ slots' = slots /\ claims' = claims
                              \/ child'[i].run \in {"none", "done"} /\ ~child'[i].reattach
  BY <1>1, HandsFacts, TurningApart
<1>4. CASE h # o
  <2>1. \A f \in Gens : <<h, f>> \in Inst /\ <<h, f>> # i
    BY <1>1, <1>4, HandsFacts
  <2>2. Framed(h)
    BY <1>1, <1>2, <1>3, <1>4, <2>1 DEF Framed, Local
  <2> QED BY <2>2, HandsFacts, FramedKeeps
<1>5. CASE h = o
  <2>1. /\ spawn[h] \notin {"new", "preparing", "building", "cleanup"}
        /\ disposed \/ rebuild[h] = {}
    BY <1>1, <1>2, <1>5, BuildsAreAlone
  <2>2. \A f \in Gens : ChainsApart(<<h, f>>)'
    <3> SUFFICES ASSUME NEW f \in Gens PROVE ChainsApart(<<h, f>>)'
      OBVIOUS
    <3>1. CASE f = g
      BY <1>1, <1>3, <1>5, <3>1 DEF KeepInv
    <3>2. CASE f # g
      <4>1. child'[<<h, f>>] = child[<<h, f>>] /\ ChainsApart(<<h, f>>)
        BY <1>1, <1>2, <1>5, <3>2, HandsFacts DEF Local, KeepInv
      <4> QED BY <4>1 DEF ChainsApart
    <3> QED BY <3>1, <3>2
  <2>3. Unsettled(h)' => Holds(h)'
    <3> SUFFICES ASSUME Unsettled(h)' PROVE Holds(h)'
      OBVIOUS
    <3>1. live[h] # 0 /\ live' = live /\ live[h] \in Gens
      BY <1>2, HandsFacts, BoundsAssumption DEF Unsettled, Open, Local, Gens
    <3>2. live[h] = g
      BY <1>1, <1>2, <1>5, <3>1, HandsFacts DEF OneInHand, InHand
    <3>3. /\ ~entry'[i].closed
          /\ child'[i].run \notin {"none", "done"} \/ child'[i].reattach
      BY <1>1, <1>5, <3>1, <3>2 DEF Unsettled, Open, Cur
    <3>4. slots' = slots /\ claims' = claims
      BY <1>1, <1>3, <1>5, <3>3 DEF KeepInv
    <3>5. ~entry[i].closed /\ (child[i].run \notin {"none", "done"} \/ child[i].reattach)
      BY <1>1, <1>2, <3>2, <3>3, HandsFacts, TurningApart
    <3>6. Unsettled(h)
      BY <1>1, <1>5, <3>1, <3>2, <3>5 DEF Unsettled, Open, Cur
    <3> QED BY <3>4, <3>6 DEF KeepInv, Holds
  <2> QED
    BY <1>1, <1>2, <1>3, <1>5, <2>1, <2>2, <2>3 DEF KeepInv, Local
<1> QED BY <1>4, <1>5

\* Starting a turn leaves the chains apart when none is under way.
LEMMA StartInputApart ==
  ASSUME NEW c \in Child
  PROVE  /\ StartInput(c).run = c.run /\ StartInput(c).input = "turn"
         /\ StartInput(c).reattach = c.reattach
  BY DEF StartInput, Child

LEMMA CancelKeep ==
  ASSUME HandsInv, NEW H \in SUBSET Handles, Cancel(H), ~disposed,
         UNCHANGED <<slots, claims, live, spawn, rebuild, disposed>>,
         NEW h \in Handles, KeepInv(h)
  PROVE  KeepInv(h)'
<1>1. \A f \in Gens : /\ child'[<<h, f>>].run = child[<<h, f>>].run
                      /\ child'[<<h, f>>].input = child[<<h, f>>].input
                      /\ child'[<<h, f>>].reattach = child[<<h, f>>].reattach
                      /\ entry'[<<h, f>>].closed = entry[<<h, f>>].closed
  <2> SUFFICES ASSUME NEW f \in Gens
               PROVE  /\ child'[<<h, f>>].run = child[<<h, f>>].run
                      /\ child'[<<h, f>>].input = child[<<h, f>>].input
                      /\ child'[<<h, f>>].reattach = child[<<h, f>>].reattach
                      /\ entry'[<<h, f>>].closed = entry[<<h, f>>].closed
    OBVIOUS
  <2> DEFINE c == child[<<h, f>>]
             e == entry[<<h, f>>]
             i == <<h, f>>
  <2>1. c \in Child /\ e \in Entry /\ i \in Inst
    BY HandsFacts
  <2>2. child'[i] = c \/ child'[i] = [c EXCEPT !.st = "interrupted"]
    BY <2>1 DEF Cancel
  <2>3. \/ entry'[i] = e
        \/ entry'[i] = [e EXCEPT !.cancelled = TRUE,
                                 !.attempts = SetOutcome(@, "cancelled")]
    BY <2>1 DEF Cancel
  <2> HIDE DEF c, e, i
  <2>4. entry'[i].closed = e.closed
    BY <2>1, <2>3 DEF Entry
  <2>5. /\ child'[i].run = c.run /\ child'[i].input = c.input
        /\ child'[i].reattach = c.reattach
    BY <2>1, <2>2 DEF Child
  <2> QED BY <2>4, <2>5 DEF c, e, i
<1>2. ~Open(h) => rec'[h] = rec[h] /\ log'[h] = log[h] /\ recov'[h] = recov[h]
  BY DEF Cancel
<1>3. Unknown(h) => Unknown(h)'
  BY <1>1, <1>2 DEF Unknown, Open, Active
<1>4. Unsettled(h)' => Unsettled(h)
  BY <1>1, HandsFacts, BoundsAssumption DEF Unsettled, Open, Cur, Gens
<1> QED
  BY <1>1, <1>3, <1>4 DEF KeepInv, Holds, ChainsApart

LEMMA CallingKeep ==
  ASSUME ~EagerInput, HandsInv, NEW o \in Handles, Calling(o),
         NEW h \in Handles, KeepInv(h), KeepInv(o)
  PROVE  KeepInv(h)'
<1> USE DEF registryVars, treeVars, callVars, recordVars
<1>1. CASE InterruptWithReason(o)
  BY <1>1, CancelKeep DEF InterruptWithReason
<1>2. ASSUME ~InterruptWithReason(o) PROVE KeepInv(h)'
  <2>0. PICK g \in Gens : g = live[o]
    BY <1>2, HandsFacts
       DEF Calling, SendInput, QueueInput, Wait, Interrupt, ResumeLive, Close
  <2> DEFINE i == <<o, g>>
  <2>1. /\ Open(o) /\ i \in Inst /\ Local(i) /\ g \in Gens /\ Cur(o) = i
        /\ ~entry[i].closed /\ ~disposed /\ disposed' = disposed
    BY <1>2, <2>0, HandsFacts, CallingIsLocal
       DEF Cur, Open, Calling, SendInput, QueueInput, Wait, Interrupt, ResumeLive, Close
  <2>2. CASE h # o
    <3>1. /\ claims'[h] = claims[h]
          /\ h \in slots => h \in slots'
      BY <1>2, <2>2, HandsFacts
         DEF Calling, SendInput, QueueInput, Wait, Interrupt, ResumeLive, Close
    <3>2. \A f \in Gens : <<h, f>> \in Inst /\ <<h, f>> # i
      BY <2>2, HandsFacts
    <3> HIDE DEF i
    <3>3. i[1] = o
      BY <2>1 DEF i
    <3>4. Framed(h)
      BY <2>1, <2>2, <3>1, <3>2, <3>3 DEF Framed, Local
    <3> QED BY <3>4, HandsFacts, FramedKeeps
  <2>3. CASE h = o
    <3>1. /\ spawn[h] \notin {"new", "preparing", "building", "cleanup"}
          /\ rebuild[h] = {} /\ live' = live /\ spawn' = spawn /\ rebuild' = rebuild
          /\ claims[h] \in SUBSET Paths
      BY <2>0, <2>1, <2>3, HandsFacts, BuildsAreAlone DEF Local
    <3>2. ChainsApart(i) /\ child[i] \in Child /\ entry[i] \in Entry
      BY <2>1, <2>3, HandsFacts DEF KeepInv
    <3> HIDE DEF i
    <3>3. /\ ChainsApart(i)'
          /\ \/ slots' = slots /\ claims' = claims /\ child'[i].run = child[i].run
                /\ child'[i].reattach = child[i].reattach
             \/ entry'[i].closed /\ claims'[h] = {}
      <4>1. CASE SendInput(o) \/ ResumeLive(o)
        <5>1. ~Busy(i)
          BY <2>1, <4>1 DEF SendInput, ResumeLive
        <5>2. child[i].input = "none" /\ child[i].run \in {"none", "done"} /\ ~child[i].reattach
          BY <3>2, <5>1 DEF Busy, ChainsApart
        <5>3. child'[i] = StartInput(child[i])
          BY <2>1, <4>1, <5>2, HandsFacts DEF SendInput, ResumeLive, InFlight
        <5>4. slots' = slots /\ claims' = claims
          BY <4>1 DEF SendInput, ResumeLive
        <5> QED BY <3>2, <5>2, <5>3, <5>4, StartInputApart DEF ChainsApart
      <4>2. CASE Wait(o)
        BY <3>2, <4>2 DEF Wait, ChainsApart
      <4>3. CASE Interrupt(o)
        <5>1. child' = [child EXCEPT ![i].st = "interrupted"] /\ slots' = slots /\ claims' = claims
          BY <2>1, <4>3 DEF Interrupt
        <5>2. /\ child'[i].run = child[i].run /\ child'[i].input = child[i].input
              /\ child'[i].reattach = child[i].reattach
          BY <2>1, <3>2, <5>1, HandsFacts DEF Child
        <5> QED BY <3>2, <5>1, <5>2 DEF ChainsApart
      <4>4. CASE Close(o)
        <5>1. /\ child' = [child EXCEPT ![i].st = "closed"]
              /\ claims' = [claims EXCEPT ![o] = {}]
              /\ entry' = [entry EXCEPT ![i] = [entry[i] EXCEPT !.closed = TRUE]]
          BY <2>1, <4>4 DEF Close
        <5>2. /\ child'[i].run = child[i].run /\ child'[i].input = child[i].input
              /\ child'[i].reattach = child[i].reattach
          BY <2>1, <3>2, <5>1, HandsFacts DEF Child
        <5>3. entry'[i].closed
          BY <2>1, <3>2, <5>1, HandsFacts DEF Entry
        <5>4. claims'[h] = {}
          BY <2>3, <5>1, HandsFacts
        <5> QED BY <3>2, <5>2, <5>3, <5>4 DEF ChainsApart
      <4> QED
        BY <1>2, <4>1, <4>2, <4>3, <4>4 DEF Calling, QueueInput
    <3>4. \A f \in Gens : ChainsApart(<<h, f>>)'
      <4> SUFFICES ASSUME NEW f \in Gens PROVE ChainsApart(<<h, f>>)'
        OBVIOUS
      <4>1. CASE <<h, f>> = i
        BY <3>3, <4>1
      <4>2. CASE <<h, f>> # i
        <5>1. child'[<<h, f>>] = child[<<h, f>>] /\ ChainsApart(<<h, f>>)
          BY <2>1, <4>2, HandsFacts DEF Local, KeepInv
        <5> QED BY <5>1 DEF ChainsApart
      <4> QED BY <4>1, <4>2
    <3>5. Unsettled(h)' => Holds(h)'
      <4> SUFFICES ASSUME Unsettled(h)' PROVE Holds(h)'
        OBVIOUS
      <4>1. /\ ~entry'[i].closed
            /\ child'[i].run \notin {"none", "done"} \/ child'[i].reattach
        BY <2>0, <2>1, <2>3, <3>1 DEF Unsettled, Open, Cur, i
      <4>2. slots' = slots /\ claims' = claims
        BY <3>3, <4>1
      <4>3. Unsettled(h)
        BY <2>1, <2>3, <3>3, <4>1 DEF Unsettled
      <4> QED BY <4>2, <4>3 DEF KeepInv, Holds
    <3>6. claims'[h] \subseteq Owned[h]
      BY <3>3 DEF KeepInv
    <3> QED
      BY <2>1, <2>3, <3>1, <3>4, <3>5, <3>6 DEF KeepInv
  <2> QED BY <2>2, <2>3
<1> QED BY <1>1, <1>2

\* A run that nothing knows has nothing to keep.
LEMMA UnknownKeeps ==
  ASSUME NEW h \in Handles, KeepInv(h), Unknown(h), claims'[h] \in {claims[h], {}, Owned[h]},
         spawn'[h] \in {"cleanup", "done"},
         UNCHANGED <<disposed, live, rebuild, rec, log, recov, child>>
  PROVE  KeepInv(h)'
<1>1. Unknown(h)'
  BY DEF Unknown, Active
<1>2. ~Unsettled(h)'
  BY <1>1 DEF Unsettled, Open, Unknown
<1>3. \A g \in Gens : ChainsApart(<<h, g>>)'
  BY DEF KeepInv, ChainsApart
<1> QED
  BY <1>1, <1>2, <1>3 DEF KeepInv, Unknown

LEMMA LaunchingKeep ==
  ASSUME HandsInv, NEW o \in Handles, Launching(o),
         NEW h \in Handles, KeepInv(h), KeepInv(o)
  PROVE  KeepInv(h)'
<1> USE DEF registryVars, treeVars, callVars, recordVars
<1>1. spawn[o] \in {"new", "preparing", "building"} /\ Unknown(o)
  <2>1. spawn[o] \in {"new", "preparing", "building"}
    BY DEF Launching, Spawn, SpawnOverLimit, PrepareDone, LaunchRejected,
           LaunchOrphaned, Launched
  <2> QED BY <2>1, HandsFacts DEF Early
<1>2. disposed' = disposed /\ rebuild' = rebuild
  BY DEF Launching, Spawn, SpawnOverLimit, PrepareDone, LaunchRejected,
         LaunchOrphaned, Launched
<1>3. CASE Spawn(o)
  <2>1. /\ UNCHANGED <<live, rec, log, recov, child, entry>>
        /\ claims' = [claims EXCEPT ![o] = Owned[o]] /\ slots' = slots \cup {o}
        /\ spawn'[o] \in {"preparing", "building"}
        /\ h # o => spawn'[h] = spawn[h]
    BY <1>3, HandsFacts DEF Spawn
  <2>2. CASE h # o
    <3>1. Framed(h)
      BY <1>2, <2>1, <2>2, HandsFacts DEF Framed
    <3> QED BY <3>1, HandsFacts, FramedKeeps
  <2>3. CASE h = o
    <3>1. Holds(h)'
      BY <2>1, <2>3, HandsFacts DEF Holds
    <3>2. \A g \in Gens : ChainsApart(<<h, g>>)'
      BY <2>1 DEF KeepInv, ChainsApart
    <3> QED BY <1>2, <2>1, <2>3, <3>1, <3>2 DEF KeepInv, Holds
  <2> QED BY <2>2, <2>3
<1>4. CASE SpawnOverLimit(o) \/ LaunchRejected(o) \/ LaunchOrphaned(o)
  <2>1. /\ UNCHANGED <<live, rec, log, recov, child, entry>>
        /\ slots' = slots \ {o} /\ spawn'[o] \in {"cleanup", "done"}
        /\ claims'[o] \in {claims[o], {}, Owned[o]}
        /\ h # o => claims'[h] = claims[h] /\ spawn'[h] = spawn[h]
    BY <1>4, HandsFacts
       DEF SpawnOverLimit, LaunchRejected, LaunchOrphaned, LaunchFails
  <2>2. CASE h # o
    <3>1. Framed(h)
      BY <1>2, <2>1, <2>2 DEF Framed
    <3> QED BY <3>1, HandsFacts, FramedKeeps
  <2>3. CASE h = o
    BY <1>1, <1>2, <2>1, <2>3, UnknownKeeps
  <2> QED BY <2>2, <2>3
<1>5. CASE PrepareDone(o)
  <2>1. /\ UNCHANGED <<slots, claims, live, rec, log, recov, child, entry>>
        /\ spawn[o] = "preparing" /\ spawn'[o] = "building"
        /\ h # o => spawn'[h] = spawn[h]
    BY <1>5, HandsFacts DEF PrepareDone
  <2>2. CASE h # o
    <3>1. Framed(h)
      BY <1>2, <2>1, <2>2 DEF Framed
    <3> QED BY <3>1, HandsFacts, FramedKeeps
  <2>3. CASE h = o
    <3>1. \A g \in Gens : ChainsApart(<<h, g>>)'
      BY <2>1 DEF KeepInv, ChainsApart
    <3>2. ~Unsettled(h)'
      BY <1>1, <2>1, <2>3 DEF Unsettled, Open, Unknown
    <3> QED BY <1>2, <2>1, <2>3, <3>1, <3>2 DEF KeepInv, Holds
  <2> QED BY <2>2, <2>3
<1>6. CASE Launched(o)
  <2> DEFINE i == <<o, 1>>
  <2>1. /\ ~disposed /\ spawn[o] = "building" /\ spawn'[o] = "done"
        /\ UNCHANGED <<slots, claims>> /\ live' = [live EXCEPT ![o] = 1]
        /\ h # o => spawn'[h] = spawn[h] /\ live'[h] = live[h]
    BY <1>6, HandsFacts DEF Launched
  <2>2. \A j \in Inst : j # i => child'[j] = child[j] /\ entry'[j] = entry[j]
    BY <1>6, HandsFacts DEF Launched
  <2>3. i \in Inst /\ child'[i].run = "turn" /\ child'[i].input = "none" /\ ~child'[i].reattach
    <3>1. i \in Inst
      BY BoundsAssumption DEF Inst, Gens
    <3> QED BY <1>6, <3>1, HandsFacts DEF Launched, NoChild
  <2>4. CASE h # o
    <3>1. rec'[h] = rec[h] /\ log'[h] = log[h] /\ recov'[h] = recov[h]
      <4>1. \E e, status : Save(o, e, status)
        BY <1>6 DEF Launched
      <4> QED BY <2>4, <4>1, HandsFacts, SaveIsLocal
    <3>2. Framed(h)
      BY <1>2, <2>1, <2>2, <2>4, <3>1, HandsFacts DEF Framed
    <3> QED BY <3>2, HandsFacts, FramedKeeps
  <2>5. CASE h = o
    <3>1. Holds(h) /\ Holds(h)'
      BY <2>1, <2>5 DEF KeepInv, Holds
    <3>2. \A g \in Gens : ChainsApart(<<h, g>>)'
      <4> SUFFICES ASSUME NEW g \in Gens PROVE ChainsApart(<<h, g>>)'
        OBVIOUS
      <4>1. CASE <<h, g>> = i
        BY <2>3, <4>1 DEF ChainsApart
      <4>2. CASE <<h, g>> # i
        <5>1. child'[<<h, g>>] = child[<<h, g>>] /\ ChainsApart(<<h, g>>)
          BY <2>2, <4>2, HandsFacts DEF KeepInv
        <5> QED BY <5>1 DEF ChainsApart
      <4> QED BY <4>1, <4>2
    <3> QED BY <1>2, <2>1, <2>5, <3>1, <3>2 DEF KeepInv, Holds
  <2> QED BY <2>4, <2>5
<1> QED
  BY <1>3, <1>4, <1>5, <1>6 DEF Launching

LEMMA ReopeningKeep ==
  ASSUME ~ConcurrentResume, HandsInv, NEW o \in Handles, Reopening(o),
         NEW h \in Handles, KeepInv(h), KeepInv(o)
  PROVE  KeepInv(h)'
<1> USE DEF registryVars, treeVars, callVars, recordVars
<1>1. disposed' = disposed /\ spawn' = spawn
  BY DEF Reopening, ResumeHistorical, ResumeRejected, Resumed, ResumeOverLimit,
         WorkspaceMissing, RecoverStart, RecoverDone, RecoverRefused
<1>2. ASSUME NEW g \in Gens, ResumeHistorical(o, g) PROVE KeepInv(h)'
  <2>1. /\ live[o] = 0 /\ rec[o].status # "absent"
        /\ claims' = [claims EXCEPT ![o] = IF Owned[o] = {} THEN @ ELSE Owned[o]]
        /\ slots' = slots \cup {o}
        /\ rebuild' = [rebuild EXCEPT ![o] = @ \cup {g}]
        /\ UNCHANGED <<live, rec, log, recov, child>>
        /\ \A j \in Inst : j # <<o, g>> => entry'[j] = entry[j]
    BY <1>2, HandsFacts DEF ResumeHistorical, Resumable, Historical
  <2>2. CASE h # o
    <3>1. Framed(h)
      BY <1>1, <2>1, <2>2, HandsFacts DEF Framed
    <3> QED BY <3>1, HandsFacts, FramedKeeps
  <2>3. CASE h = o
    <3>1. claims'[h] = Owned[h]
      BY <2>1, <2>3, HandsFacts DEF KeepInv
    <3>2. spawn[h] # "cleanup"
      BY <2>1, <2>3 DEF KeepInv, Unknown
    <3>3. \A f \in Gens : ChainsApart(<<h, f>>)'
      BY <2>1 DEF KeepInv, ChainsApart
    <3>4. ~Unsettled(h)'
      BY <2>1, <2>3 DEF Unsettled, Open
    <3> QED BY <1>1, <2>1, <2>3, <3>1, <3>2, <3>3, <3>4 DEF KeepInv, Holds
  <2> QED BY <2>2, <2>3
<1>3. ASSUME NEW g \in Gens, ResumeRejected(o, g) PROVE KeepInv(h)'
  <2>1. /\ g \in rebuild[o] /\ rebuild' = [rebuild EXCEPT ![o] = @ \ {g}]
        /\ slots' = slots \ {o} /\ claims' = [claims EXCEPT ![o] = {}]
        /\ UNCHANGED <<live, rec, log, recov, child>>
        /\ \A j \in Inst : j # <<o, g>> => entry'[j] = entry[j]
    BY <1>3, HandsFacts DEF ResumeRejected
  <2>2. CASE h # o
    <3>1. Framed(h)
      BY <1>1, <2>1, <2>2, HandsFacts DEF Framed
    <3> QED BY <3>1, HandsFacts, FramedKeeps
  <2>3. CASE h = o
    <3>1. spawn[h] \notin {"preparing", "building", "cleanup"}
      BY <2>1, <2>3, HandsFacts DEF KeepInv, Unknown, Early
    <3>2. disposed \/ rebuild'[h] = {}
      <4>1. \A f \in rebuild[h] : ~disposed => f = g
        BY <2>1, <2>3, HandsFacts DEF OneInHand, InHand
      <4> QED BY <2>1, <2>3, <4>1, HandsFacts
    <3>3. live[h] = 0
      <4>1. ASSUME live[h] # 0 PROVE disposed
        <5>1. PICK f \in Gens : live[h] = f
          BY <4>1, HandsFacts, BoundsAssumption DEF Gens
        <5> QED BY <2>1, <2>3, <5>1, HandsFacts, BuildsAreAlone
      <4> QED BY <4>1 DEF KeepInv
    <3>4. \A f \in Gens : ChainsApart(<<h, f>>)'
      BY <2>1 DEF KeepInv, ChainsApart
    <3>5. ~Unsettled(h)'
      BY <2>1, <3>3 DEF Unsettled, Open
    <3>6. claims'[h] = {}
      BY <2>1, <2>3, HandsFacts
    <3> QED BY <1>1, <2>1, <3>1, <3>2, <3>3, <3>4, <3>5, <3>6 DEF KeepInv
  <2> QED BY <2>2, <2>3
<1>4. ASSUME NEW g \in Gens, Resumed(o, g) PROVE KeepInv(h)'
  <2> DEFINE i == <<o, g>>
  <2>1. /\ ~disposed /\ g \in rebuild[o] /\ rebuild' = [rebuild EXCEPT ![o] = @ \ {g}]
        /\ live' = [live EXCEPT ![o] = g]
        /\ child' = [child EXCEPT ![i] = [StartInput(NoChild) EXCEPT !.reattach = TRUE]]
        /\ UNCHANGED <<slots, claims, entry>> /\ Save(o, entry[i], "running")
    BY <1>4 DEF Resumed
  <2>2. i \in Inst /\ child'[i].run = "none" /\ child'[i].input = "turn"
    BY <2>1, HandsFacts DEF StartInput, NoChild
  <2>3. \A j \in Inst : j # i => child'[j] = child[j]
    BY <2>1, HandsFacts
  <2>4. CASE h # o
    <3>1. rec'[h] = rec[h] /\ log'[h] = log[h] /\ recov'[h] = recov[h]
      BY <2>1, <2>4, HandsFacts, SaveIsLocal
    <3>2. Framed(h)
      BY <1>1, <2>1, <2>3, <2>4, <3>1, HandsFacts DEF Framed
    <3> QED BY <3>2, HandsFacts, FramedKeeps
  <2>5. CASE h = o
    <3>1. Holds(h) /\ Holds(h)' /\ spawn[h] # "cleanup"
      BY <2>1, <2>5 DEF KeepInv, Holds, Unknown
    <3>2. \A f \in Gens : ChainsApart(<<h, f>>)'
      <4> SUFFICES ASSUME NEW f \in Gens PROVE ChainsApart(<<h, f>>)'
        OBVIOUS
      <4>1. CASE <<h, f>> = i
        BY <2>2, <4>1 DEF ChainsApart
      <4>2. CASE <<h, f>> # i
        <5>1. child'[<<h, f>>] = child[<<h, f>>] /\ ChainsApart(<<h, f>>)
          BY <2>3, <4>2, HandsFacts DEF KeepInv
        <5> QED BY <5>1 DEF ChainsApart
      <4> QED BY <4>1, <4>2
    <3> QED BY <1>1, <2>1, <2>5, <3>1, <3>2 DEF KeepInv, Holds
  <2> QED BY <2>4, <2>5
<1>5. CASE ResumeOverLimit(o)
  <2>1. /\ live[o] = 0 /\ rec[o].status # "absent" /\ rebuild[o] = {}
        /\ slots' = slots \ {o} /\ claims' = [claims EXCEPT ![o] = {}]
        /\ UNCHANGED <<live, rebuild, rec, log, recov, child, entry>>
    BY <1>5 DEF ResumeOverLimit, Resumable, Historical
  <2>2. CASE h # o
    <3>1. Framed(h)
      BY <1>1, <2>1, <2>2, HandsFacts DEF Framed
    <3> QED BY <3>1, HandsFacts, FramedKeeps
  <2>3. CASE h = o
    <3>1. spawn[h] \notin {"preparing", "building", "cleanup"}
      BY <2>1, <2>3, HandsFacts DEF KeepInv, Unknown, Early
    <3>2. \A f \in Gens : ChainsApart(<<h, f>>)'
      BY <2>1 DEF KeepInv, ChainsApart
    <3>3. ~Unsettled(h)'
      BY <2>1, <2>3 DEF Unsettled, Open
    <3>4. claims'[h] = {}
      BY <2>1, <2>3, HandsFacts
    <3> QED BY <1>1, <2>1, <2>3, <3>1, <3>2, <3>3, <3>4 DEF KeepInv
  <2> QED BY <2>2, <2>3
<1>6. CASE WorkspaceMissing(o) \/ RecoverStart(o) \/ RecoverDone(o) \/ RecoverRefused(o)
  <2>1. /\ UNCHANGED <<slots, claims, live, rebuild, child, entry>>
        /\ rec[o].status # "absent" \/ recov[o].phase # "none"
        /\ h # o => rec'[h] = rec[h] /\ log'[h] = log[h] /\ recov'[h] = recov[h]
    BY <1>6, HandsFacts
       DEF WorkspaceMissing, RecoverStart, RecoverDone, RecoverRefused, TypeOK
  <2>2. CASE h # o
    <3>1. Framed(h)
      BY <1>1, <2>1, <2>2, HandsFacts DEF Framed
    <3> QED BY <3>1, HandsFacts, FramedKeeps
  <2>3. CASE h = o
    <3>1. spawn[h] # "cleanup"
      BY <2>1, <2>3 DEF KeepInv, Unknown
    <3>2. \A f \in Gens : ChainsApart(<<h, f>>)'
      BY <2>1 DEF KeepInv, ChainsApart
    <3>3. (Unsettled(h)' <=> Unsettled(h)) /\ (Holds(h)' <=> Holds(h))
      BY <2>1 DEF Unsettled, Open, Cur, Holds
    <3> QED BY <1>1, <2>1, <3>1, <3>2, <3>3 DEF KeepInv
  <2> QED BY <2>2, <2>3
<1> QED
  BY <1>2, <1>3, <1>4, <1>5, <1>6 DEF Reopening

LEMMA OtherKeep ==
  ASSUME HandsInv, [Next]_vars, NEW h \in Handles, KeepInv(h),
         ~ \E o \in Handles : Launching(o) \/ Calling(o) \/ Reopening(o),
         ~ \E i \in Inst : Turning(i)
  PROVE  KeepInv(h)'
<1> USE DEF registryVars, treeVars, callVars, recordVars
<1>1. ASSUME NEW o \in Handles, RecordRelease(o) PROVE KeepInv(h)'
  <2>0. /\ rec \in [Handles -> Record] /\ log \in [Handles -> Record]
        /\ UNCHANGED <<disposed, slots, live, rebuild, recov, child, entry>>
    BY <1>1, HandsFacts DEF RecordRelease, TypeOK
  <2>5. /\ h # o \/ spawn[h] # "cleanup" => claims'[h] = claims[h] /\ spawn'[h] = spawn[h]
        /\ spawn[o] = "cleanup" => spawn'[o] = "done" /\ claims'[o] = {}
    <3>1. \/ /\ spawn[o] = "cleanup" /\ spawn' = [spawn EXCEPT ![o] = "done"]
             /\ claims' = [claims EXCEPT ![o] = {}]
          \/ spawn[o] # "cleanup" /\ spawn' = spawn /\ claims' = claims
      BY <1>1 DEF RecordRelease
    <3> QED BY <3>1, HandsFacts
  <2>6. /\ h # o => rec'[h] = rec[h] /\ log'[h] = log[h]
        /\ rec[o].status = "absent" => rec'[o] = rec[o] /\ log'[o] = log[o]
    BY <1>1, <2>0 DEF RecordRelease
  <2>1. /\ UNCHANGED <<disposed, slots, live, rebuild, recov, child, entry>>
        /\ h # o \/ spawn[h] # "cleanup" => claims'[h] = claims[h] /\ spawn'[h] = spawn[h]
        /\ h # o => rec'[h] = rec[h] /\ log'[h] = log[h]
        /\ spawn[o] = "cleanup" => spawn'[o] = "done" /\ claims'[o] = {}
        /\ rec[o].status = "absent" => rec'[o] = rec[o] /\ log'[o] = log[o]
    BY <2>0, <2>5, <2>6
  <2>2. CASE h # o
    <3>1. Framed(h)
      BY <2>1, <2>2 DEF Framed
    <3> QED BY <3>1, HandsFacts, FramedKeeps
  <2>3. CASE h = o /\ spawn[o] = "cleanup"
    <3>1. Unknown(h)
      BY <2>3 DEF KeepInv
    <3>2. rec'[h] = rec[h] /\ log'[h] = log[h]
      BY <2>1, <2>3, <3>1 DEF Unknown
    <3>3. ~Unsettled(h)'
      BY <2>1, <3>1 DEF Unsettled, Open, Unknown
    <3>4. \A g \in Gens : ChainsApart(<<h, g>>)'
      BY <2>1 DEF KeepInv, ChainsApart
    <3> QED BY <2>1, <2>3, <3>1, <3>3, <3>4 DEF KeepInv, Unknown
  <2>4. CASE h = o /\ spawn[o] # "cleanup"
    <3>1. (Unsettled(h)' <=> Unsettled(h)) /\ (Holds(h)' <=> Holds(h))
      BY <2>1, <2>4 DEF Unsettled, Open, Cur, Holds
    <3>2. \A g \in Gens : ChainsApart(<<h, g>>)'
      BY <2>1 DEF KeepInv, ChainsApart
    <3> QED BY <2>1, <2>4, <3>1, <3>2 DEF KeepInv
  <2> QED BY <2>2, <2>3, <2>4
<1>2. CASE ParentAbort
  <2>1. /\ ~disposed /\ Cancel(foreground) /\ foreground \in SUBSET Handles
        /\ UNCHANGED <<slots, claims, live, spawn, rebuild, disposed>>
    BY <1>2, HandsFacts DEF ParentAbort, TypeOK
  <2> QED BY <2>1, CancelKeep
<1>3. CASE Dispose
  <2>1. /\ disposed' /\ live'[h] = 0 /\ claims'[h] = {}
        /\ UNCHANGED <<spawn, rebuild, rec, log, recov>>
    BY <1>3 DEF Dispose
  <2>2. ASSUME NEW g \in Gens
        PROVE  /\ child'[<<h, g>>].run = child[<<h, g>>].run
               /\ child'[<<h, g>>].input = child[<<h, g>>].input
               /\ child'[<<h, g>>].reattach = child[<<h, g>>].reattach
    <3> DEFINE c == child[<<h, g>>]
    <3>1. c \in Child /\ <<h, g>> \in Inst
      BY HandsFacts
    <3>2. child'[<<h, g>>] \in {c, [c EXCEPT !.st = "closed"]}
      BY <1>3, <3>1 DEF Dispose
    <3> HIDE DEF c
    <3>3. LET d == [c EXCEPT !.st = "closed"]
          IN  d.run = c.run /\ d.input = c.input /\ d.reattach = c.reattach
      BY <3>1 DEF Child
    <3> QED BY <3>2, <3>3 DEF c
  <2>3. \A g \in Gens : ChainsApart(<<h, g>>)'
    BY <2>2 DEF KeepInv, ChainsApart
  <2>4. Unknown(h) => Unknown(h)'
    BY <2>1, <2>2 DEF Unknown, Active
  <2> QED BY <2>1, <2>3, <2>4 DEF KeepInv, Unsettled, Open
<1>4. CASE Restart
  <2>1. /\ live'[h] = 0 /\ claims'[h] = {} /\ rebuild'[h] = {}
        /\ spawn'[h] \in {"new", "done"}
        /\ \A g \in Gens : child'[<<h, g>>] = NoChild
    BY <1>4, HandsFacts DEF Restart
  <2>2. \A g \in Gens : ChainsApart(<<h, g>>)'
    BY <2>1 DEF ChainsApart, NoChild
  <2> QED BY <2>1, <2>2 DEF KeepInv, Unsettled, Open
<1>5. CASE UNCHANGED vars \/ (\E o \in Handles : ReleaseTree(o))
           \/ (\E i \in Inst : ChildWrites(i))
  <2>1. Framed(h)
    BY <1>5 DEF vars, ReleaseTree, ChildWrites, Framed
  <2> QED BY <2>1, HandsFacts, FramedKeeps
<1> QED
  BY <1>1, <1>2, <1>3, <1>4, <1>5 DEF Next, Releasing

LEMMA HandsStep ==
  ASSUME ~ConcurrentResume, HandsInv, [Next]_vars
  PROVE  HandsInv'
<1>1. TreesInv'
  BY TreesStep DEF HandsInv
<1>2. TypeOK /\ SlotInv /\ RecoveryIsKnown
  BY DEF HandsInv, TreesInv, RecordsInv, RecordInv, SlotInv, RecoveryIsKnown
<1>3. \A h \in Handles : OneInHand(h)'
  BY <1>2, EveryRecordStep, StepKeepsOne DEF HandsInv
<1> QED BY <1>1, <1>3 DEF HandsInv

LEMMA HandsInit == Init => HandsInv
<1> SUFFICES ASSUME Init PROVE HandsInv
  OBVIOUS
<1>1. \A h \in Handles : OneInHand(h)
  BY PastInit DEF PastInv
<1> QED BY <1>1, TreesInit DEF HandsInv

HoldsKept == HandsInv /\ \A h \in Handles : KeepInv(h)

LEMMA KeepStep ==
  ASSUME ~EagerInput, ~ConcurrentResume, HoldsKept, [Next]_vars
  PROVE  HoldsKept'
<1>1. HandsInv /\ \A h \in Handles : KeepInv(h)
  BY DEF HoldsKept
<1>2. HandsInv'
  BY <1>1, HandsStep
<1>3. \A h \in Handles : KeepInv(h)'
  BY <1>1, TurningKeep, CallingKeep, LaunchingKeep, ReopeningKeep, OtherKeep
<1> QED BY <1>2, <1>3 DEF HoldsKept

LEMMA KeepInit == Init => HoldsKept
<1> SUFFICES ASSUME Init PROVE HoldsKept
  OBVIOUS
<1>1. ASSUME NEW h \in Handles PROVE KeepInv(h)
  <2>1. /\ live[h] = 0 /\ claims[h] = {} /\ rebuild[h] = {} /\ spawn[h] = "new"
        /\ \A g \in Gens : child[<<h, g>>] = NoChild
    BY HandsInit, HandsFacts DEF Init
  <2>2. \A g \in Gens : ChainsApart(<<h, g>>)
    BY <2>1 DEF ChainsApart, NoChild
  <2>3. Early(h) /\ ~disposed
    BY <2>1 DEF Early, Init
  <2> QED BY <2>1, <2>2 DEF KeepInv, Unsettled, Open
<1> QED BY <1>1, HandsInit DEF HoldsKept

\* An admitted run keeps its slot and its write claim until its launch, or its
\* resume, has settled, as long as callers wait for one call on a run before
\* they start the next: no refusal, failure, cleanup, settlement or release of
\* another run takes them away.
THEOREM UnsettledRunsKeepTheirHolds ==
  ASSUME ~EagerInput, ~ConcurrentResume
  PROVE  Spec => []UnsettledRunKeepsHolds
<1>1. HoldsKept => UnsettledRunKeepsHolds
  BY DEF HoldsKept, KeepInv, Holds, UnsettledRunKeepsHolds
<1>2. HoldsKept /\ [Next]_vars => HoldsKept'
  BY KeepStep
<1> QED
  BY <1>1, <1>2, KeepInit, PTL DEF Spec

-----------------------------------------------------------------------------
(* Writers of one process: without a restart no run is historical, so every *)
(* open run has the claim its launch took.                                  *)

Admitted(h) == ~disposed /\ spawn[h] \in {"preparing", "building"}

OwnerInv(h) ==
  /\ rebuild[h] = {} /\ (disposed => live[h] = 0)
  /\ \A g \in Gens : ~child[<<h, g>>].reattach
  /\ ~disposed /\ live[h] = 0 => rec[h].status = "absent"
  /\ spawn[h] = "cleanup" => live[h] = 0
  /\ Open(h) \/ Admitted(h) => claims[h] = Owned[h]

\* Nothing OwnerInv reads of run h changes.
Undisturbed(h) ==
  /\ claims'[h] = claims[h] /\ spawn'[h] = spawn[h] /\ live'[h] = live[h]
  /\ rebuild'[h] = rebuild[h] /\ disposed' = disposed
  /\ \A g \in Gens : /\ child'[<<h, g>>].reattach => child[<<h, g>>].reattach
                     /\ entry'[<<h, g>>].closed = entry[<<h, g>>].closed
  /\ ~disposed /\ live[h] = 0 => rec'[h].status = rec[h].status

LEMMA OwnerFacts ==
  ASSUME TreesInv
  PROVE  /\ TypeOK /\ SlotInv /\ claims \in [Handles -> SUBSET Paths]
         /\ child \in [Inst -> Child] /\ entry \in [Inst -> Entry]
         /\ live \in [Handles -> 0 .. MaxBuilds] /\ rebuild \in [Handles -> SUBSET Gens]
         /\ spawn \in [Handles -> {"new", "preparing", "building", "cleanup", "done"}]
         /\ rec \in [Handles -> Record]
         /\ \A h \in Handles :
              /\ Early(h) => Unknown(h)
              /\ HandsKnown(h)
              /\ \A g \in Gens : <<h, g>> \in Inst
              /\ Open(h) => live[h] \in Gens
         /\ 0 \notin Gens
  BY Instances, CurType, TypeParts
     DEF TreesInv, RecordsInv, SlotInv, TypeOK, EarlyIsUnknown, TypeInParts, Gens

LEMMA UndisturbedKeeps ==
  ASSUME TreesInv, NEW h \in Handles, Undisturbed(h), OwnerInv(h)
  PROVE  OwnerInv(h)'
<1>1. Open(h)' => Open(h)
  BY OwnerFacts, BoundsAssumption DEF Undisturbed, Open, Cur, Gens
<1>2. Admitted(h)' => Admitted(h)
  BY DEF Undisturbed, Admitted
<1> QED
  BY <1>1, <1>2 DEF Undisturbed, OwnerInv

LEMMA TurningOwners ==
  ASSUME TreesInv, NEW i \in Inst, Turning(i), NEW h \in Handles, OwnerInv(h),
         OwnerInv(i[1])
  PROVE  OwnerInv(h)'
<1>1. PICK o \in Handles, g \in Gens : i = <<o, g>>
  BY DEF Inst
<1>2. Active(i) /\ Local(i) /\ disposed' = disposed
  BY OwnerFacts, TurningIsLocal
     DEF Turning, RunTurnEnds, InputTurnEnds, RunVerified, RunRechecked,
         InputVerified, RunExpires
<1>3. /\ claims' = claims
      /\ child'[i].reattach => child[i].reattach
      /\ entry'[i].closed = entry[i].closed
  BY <1>1, OwnerFacts, TurningApart DEF OwnerInv
<1>4. ~disposed => live[o] # 0
  BY <1>1, <1>2, OwnerFacts DEF OwnerInv, HandsKnown, InHand
<1>5. \A f \in Gens : /\ child'[<<h, f>>].reattach => child[<<h, f>>].reattach
                      /\ entry'[<<h, f>>].closed = entry[<<h, f>>].closed
  BY <1>2, <1>3, OwnerFacts DEF Local
<1>6. Undisturbed(h)
  BY <1>1, <1>2, <1>3, <1>4, <1>5 DEF Undisturbed, Local
<1> QED BY <1>6, UndisturbedKeeps

LEMMA CancelOwners ==
  ASSUME TreesInv, NEW H \in SUBSET Handles, Cancel(H),
         UNCHANGED <<claims, live, spawn, rebuild, disposed>>,
         NEW h \in Handles, OwnerInv(h)
  PROVE  OwnerInv(h)'
<1>1. ASSUME NEW f \in Gens
      PROVE  /\ child'[<<h, f>>].reattach = child[<<h, f>>].reattach
             /\ entry'[<<h, f>>].closed = entry[<<h, f>>].closed
  <2> DEFINE i == <<h, f>>
             c == child[<<h, f>>]
             e == entry[<<h, f>>]
  <2>1. c \in Child /\ e \in Entry /\ i \in Inst
    BY OwnerFacts
  <2>2. child'[i] = c \/ child'[i] = [c EXCEPT !.st = "interrupted"]
    BY <2>1 DEF Cancel
  <2>3. \/ entry'[i] = e
        \/ entry'[i] = [e EXCEPT !.cancelled = TRUE,
                                 !.attempts = SetOutcome(@, "cancelled")]
    BY <2>1 DEF Cancel
  <2> HIDE DEF c, e, i
  <2>4. entry'[i].closed = e.closed
    BY <2>1, <2>3 DEF Entry
  <2>5. child'[i].reattach = c.reattach
    BY <2>1, <2>2 DEF Child
  <2> QED BY <2>4, <2>5 DEF c, e, i
<1>2. live[h] = 0 => rec'[h] = rec[h]
  BY DEF Cancel, Open
<1>3. Undisturbed(h)
  BY <1>1, <1>2 DEF Undisturbed
<1> QED BY <1>3, UndisturbedKeeps

LEMMA CallingOwners ==
  ASSUME TreesInv, NEW o \in Handles, Calling(o), NEW h \in Handles, OwnerInv(h)
  PROVE  OwnerInv(h)'
<1> USE DEF registryVars, treeVars, callVars, recordVars
<1>1. CASE InterruptWithReason(o)
  BY <1>1, CancelOwners DEF InterruptWithReason
<1>2. ASSUME ~InterruptWithReason(o) PROVE OwnerInv(h)'
  <2>0. PICK g \in Gens : g = live[o]
    BY <1>2, OwnerFacts
       DEF Calling, SendInput, QueueInput, Wait, Interrupt, ResumeLive, Close
  <2> DEFINE i == <<o, g>>
  <2>1. /\ Open(o) /\ i \in Inst /\ Local(i) /\ Cur(o) = i /\ live[o] # 0
        /\ ~disposed /\ disposed' = disposed
    BY <1>2, <2>0, OwnerFacts, CallingIsLocal
       DEF Cur, Open, Calling, SendInput, QueueInput, Wait, Interrupt, ResumeLive, Close
  <2>2. child[i] \in Child /\ entry[i] \in Entry
    BY <2>1, OwnerFacts
  <2> HIDE DEF i
  <2>3. /\ child'[i].reattach => child[i].reattach
        /\ \/ claims' = claims /\ entry'[i].closed = entry[i].closed
           \/ entry'[i].closed /\ claims' = [claims EXCEPT ![o] = {}]
    <3>1. CASE SendInput(o) \/ Wait(o) \/ Interrupt(o)
      <4>1. /\ child' = child \/ child' = [child EXCEPT ![i] = StartInput(@)]
               \/ child' = [child EXCEPT ![i].st = "interrupted"]
            /\ claims' = claims /\ entry' = entry
        BY <2>1, <3>1 DEF SendInput, Wait, Interrupt
      <4> QED BY <2>1, <2>2, <4>1, OwnerFacts, StartInputApart, SMTT(30) DEF Child
    <3>2. CASE ResumeLive(o)
      <4>1. /\ child' = [child EXCEPT ![i] = IF InFlight(i) THEN @ ELSE StartInput(@)]
            /\ claims' = claims
            /\ \E atts : entry' = [entry EXCEPT ![i].attempts = atts]
        BY <2>1, <3>2 DEF ResumeLive
      <4>2. entry'[i].closed = entry[i].closed
        BY <2>1, <2>2, <4>1, OwnerFacts DEF Entry
      <4> QED BY <2>1, <2>2, <4>1, <4>2, OwnerFacts, StartInputApart
    <3>3. CASE QueueInput(o)
      <4>1. Settle(i, Reported(i), FALSE) /\ child' = child
        BY <2>1, <3>3 DEF QueueInput
      <4> QED BY <2>1, <4>1, OwnerFacts, SettleGives, SettleEntry
    <3>4. CASE Close(o)
      <4>1. /\ child' = [child EXCEPT ![i].st = "closed"]
            /\ claims' = [claims EXCEPT ![o] = {}]
            /\ entry' = [entry EXCEPT ![i] = [entry[i] EXCEPT !.closed = TRUE]]
        BY <2>1, <3>4 DEF Close
      <4>2. child'[i].reattach = child[i].reattach
        BY <2>1, <2>2, <4>1, OwnerFacts DEF Child
      <4>3. entry'[i].closed
        BY <2>1, <2>2, <4>1, OwnerFacts DEF Entry
      <4> QED BY <4>1, <4>2, <4>3
    <3> QED BY <1>2, <3>1, <3>2, <3>3, <3>4 DEF Calling
  <2>4. ASSUME NEW f \in Gens, <<h, f>> # i
        PROVE  child'[<<h, f>>] = child[<<h, f>>] /\ entry'[<<h, f>>] = entry[<<h, f>>]
    BY <2>1, <2>4, OwnerFacts DEF Local
  <2>5. h # o => claims'[h] = claims[h] /\ rec'[h] = rec[h]
    BY <2>1, <2>3, OwnerFacts DEF Local, i
  <2>6. CASE h # o \/ (claims' = claims /\ entry'[i].closed = entry[i].closed)
    <3>1. \A f \in Gens : /\ child'[<<h, f>>].reattach => child[<<h, f>>].reattach
                          /\ entry'[<<h, f>>].closed = entry[<<h, f>>].closed
      BY <2>3, <2>4, <2>6 DEF i
    <3>2. Undisturbed(h)
      BY <2>1, <2>3, <2>5, <2>6, <3>1 DEF Undisturbed, Local
    <3> QED BY <3>2, UndisturbedKeeps
  <2>7. CASE h = o /\ entry'[i].closed
    <3>1. live' = live /\ spawn' = spawn /\ rebuild' = rebuild /\ spawn[h] # "cleanup"
      BY <2>1, <2>7 DEF Local, OwnerInv
    <3>2. ~Early(h)
      BY <2>1, <2>7, OwnerFacts DEF Unknown
    <3>3. ~Open(h)' /\ ~Admitted(h)'
      BY <2>0, <2>1, <2>7, <3>1, <3>2 DEF Open, Cur, Admitted, Early, i
    <3>4. \A f \in Gens : ~child'[<<h, f>>].reattach
      BY <2>3, <2>4, <2>7 DEF i, OwnerInv
    <3> QED BY <2>1, <2>7, <3>1, <3>3, <3>4 DEF OwnerInv
  <2> QED BY <2>3, <2>6, <2>7
<1> QED BY <1>1, <1>2

LEMMA LaunchingOwners ==
  ASSUME TreesInv, NEW o \in Handles, Launching(o), NEW h \in Handles, OwnerInv(h)
  PROVE  OwnerInv(h)'
<1> USE DEF registryVars, treeVars, callVars, recordVars
<1>1. Unknown(o) /\ disposed' = disposed /\ rebuild' = rebuild
  <2>1. Early(o) /\ disposed' = disposed /\ rebuild' = rebuild
    BY DEF Launching, Spawn, SpawnOverLimit, PrepareDone, LaunchRejected,
           LaunchOrphaned, Launched, Early
  <2> QED BY <2>1, OwnerFacts
<1>2. CASE Launched(o)
  <2> DEFINE i == <<o, 1>>
  <2>1. /\ ~disposed /\ spawn[o] = "building" /\ spawn'[o] = "done"
        /\ claims' = claims /\ live'[o] = 1 /\ i \in Inst
        /\ h # o => spawn'[h] = spawn[h] /\ live'[h] = live[h]
    BY <1>2, OwnerFacts, BoundsAssumption DEF Launched, Inst, Gens
  <2>2. /\ ~child'[i].reattach
        /\ \A j \in Inst : j # i => child'[j] = child[j] /\ entry'[j] = entry[j]
    BY <1>2, <2>1, OwnerFacts DEF Launched, NoChild
  <2>3. h # o => rec'[h] = rec[h]
    <3>1. \E e, status : Save(o, e, status)
      BY <1>2 DEF Launched
    <3> QED BY <3>1, OwnerFacts, SaveIsLocal
  <2>4. CASE h # o
    <3>1. Undisturbed(h)
      BY <1>1, <2>1, <2>2, <2>3, <2>4, OwnerFacts DEF Undisturbed
    <3> QED BY <3>1, UndisturbedKeeps
  <2>5. CASE h = o
    <3>1. \A f \in Gens : ~child'[<<h, f>>].reattach
      BY <2>2, <2>5, OwnerFacts DEF OwnerInv
    <3>2. claims'[h] = Owned[h]
      BY <2>1, <2>5 DEF OwnerInv, Admitted
    <3> QED BY <1>1, <2>1, <2>5, <3>1, <3>2 DEF OwnerInv
  <2> QED BY <2>4, <2>5
<1>3. ASSUME ~Launched(o) PROVE OwnerInv(h)'
  <2>1. UNCHANGED <<live, rec, child, entry>>
    BY <1>3 DEF Launching, Spawn, SpawnOverLimit, PrepareDone, LaunchRejected, LaunchOrphaned
  <2>2. h # o => claims'[h] = claims[h] /\ spawn'[h] = spawn[h]
    BY <1>3, OwnerFacts
       DEF Launching, Spawn, SpawnOverLimit, PrepareDone, LaunchRejected,
           LaunchOrphaned, LaunchFails
  <2>3. \/ claims'[o] = Owned[o]
        \/ claims'[o] = claims[o] /\ Early(o) /\ spawn[o] # "new"
        \/ spawn'[o] \in {"cleanup", "done"}
    <3>1. CASE Spawn(o)
      BY <3>1, OwnerFacts DEF Spawn
    <3>2. CASE PrepareDone(o)
      BY <3>2 DEF PrepareDone, Early
    <3>3. CASE SpawnOverLimit(o)
      BY <3>3, OwnerFacts DEF SpawnOverLimit
    <3>4. CASE LaunchRejected(o) \/ LaunchOrphaned(o)
      <4>1. LaunchFails(o)
        BY <3>4 DEF LaunchRejected, LaunchOrphaned
      <4> QED BY <4>1, OwnerFacts DEF LaunchFails
    <3> QED BY <1>3, <3>1, <3>2, <3>3, <3>4 DEF Launching
  <2>4. CASE h # o
    <3>1. Undisturbed(h)
      BY <1>1, <2>1, <2>2, <2>4 DEF Undisturbed
    <3> QED BY <3>1, UndisturbedKeeps
  <2>5. CASE h = o
    <3>1. live'[h] = 0 /\ ~Open(h)'
      BY <1>1, <2>1, <2>5 DEF Unknown, Open
    <3>2. Admitted(h)' => claims'[h] = Owned[h]
      BY <1>1, <2>3, <2>5, OwnerFacts DEF Admitted, OwnerInv, Early
    <3>3. \A f \in Gens : ~child'[<<h, f>>].reattach
      BY <2>1 DEF OwnerInv
    <3> QED BY <1>1, <2>1, <2>5, <3>1, <3>2, <3>3 DEF OwnerInv, Unknown
  <2> QED BY <2>4, <2>5
<1> QED BY <1>2, <1>3

LEMMA ReopeningOwners ==
  ASSUME TreesInv, NEW o \in Handles, Reopening(o), OwnerInv(o),
         NEW h \in Handles, OwnerInv(h)
  PROVE  OwnerInv(h)'
<1> USE DEF registryVars, treeVars, callVars, recordVars
<1>1. ~ResumeOverLimit(o) /\ \A g \in Gens : ~ResumeHistorical(o, g)
  BY DEF ResumeOverLimit, ResumeHistorical, Resumable, Historical, OwnerInv
<1>2. \A g \in Gens : ~ResumeRejected(o, g) /\ ~Resumed(o, g)
  BY DEF ResumeRejected, Resumed, OwnerInv
<1>3. /\ UNCHANGED <<claims, spawn, live, rebuild, disposed, child, entry>>
      /\ h # o => rec'[h] = rec[h]
      /\ rec'[o].status = rec[o].status
  <2>1. CASE WorkspaceMissing(o)
    BY <2>1, OwnerFacts, RecordFields DEF WorkspaceMissing
  <2>2. CASE RecoverStart(o) \/ RecoverRefused(o)
    BY <2>2 DEF RecoverStart, RecoverRefused
  <2>3. CASE RecoverDone(o)
    <3>1. rec' = rec \/ rec' = [rec EXCEPT ![o] = [rec[o] EXCEPT !.ws = "active"]]
      BY <2>3 DEF RecoverDone
    <3>2. UNCHANGED <<claims, spawn, live, rebuild, disposed, child, entry>>
      BY <2>3 DEF RecoverDone
    <3>3. [rec[o] EXCEPT !.ws = "active"].status = rec[o].status
      BY OwnerFacts, RecordFields
    <3> QED BY <3>1, <3>2, <3>3, OwnerFacts
  <2> QED BY <1>1, <1>2, <2>1, <2>2, <2>3 DEF Reopening
<1>4. Undisturbed(h)
  BY <1>3 DEF Undisturbed
<1> QED BY <1>4, UndisturbedKeeps

LEMMA OtherOwners ==
  ASSUME MaxRestarts = 0, TreesInv, [Next]_vars, NEW h \in Handles, OwnerInv(h),
         ~ \E o \in Handles : Launching(o) \/ Calling(o) \/ Reopening(o),
         ~ \E i \in Inst : Turning(i)
  PROVE  OwnerInv(h)'
<1> USE DEF registryVars, treeVars, callVars, recordVars
<1>1. ASSUME NEW o \in Handles, RecordRelease(o) PROVE OwnerInv(h)'
  <2>1. /\ UNCHANGED <<disposed, live, rebuild, child, entry>>
        /\ h # o \/ spawn[h] # "cleanup" => claims'[h] = claims[h] /\ spawn'[h] = spawn[h]
        /\ h = o /\ spawn[h] = "cleanup" => spawn'[h] = "done"
    <3>1. \/ /\ spawn[o] = "cleanup" /\ spawn' = [spawn EXCEPT ![o] = "done"]
             /\ claims' = [claims EXCEPT ![o] = {}]
          \/ spawn[o] # "cleanup" /\ spawn' = spawn /\ claims' = claims
      BY <1>1 DEF RecordRelease
    <3>2. UNCHANGED <<disposed, live, rebuild, child, entry>>
      BY <1>1 DEF RecordRelease
    <3> QED BY <3>1, <3>2, OwnerFacts
  <2>2. rec'[h].status = rec[h].status
    <3>1. \/ rec' = rec
          \/ \E ws : rec' = [rec EXCEPT ![o] = [rec[o] EXCEPT !.ws = ws]]
      BY <1>1 DEF RecordRelease
    <3>2. \A ws : [rec[o] EXCEPT !.ws = ws].status = rec[o].status
      BY OwnerFacts, RecordFields
    <3> QED BY <3>1, <3>2, OwnerFacts
  <2>3. CASE h # o \/ spawn[h] # "cleanup"
    <3>1. Undisturbed(h)
      BY <2>1, <2>2, <2>3 DEF Undisturbed
    <3> QED BY <3>1, UndisturbedKeeps
  <2>4. CASE h = o /\ spawn[h] = "cleanup"
    <3>1. ~Open(h)' /\ ~Admitted(h)'
      BY <2>1, <2>4 DEF OwnerInv, Open, Admitted
    <3> QED BY <2>1, <2>2, <2>4, <3>1 DEF OwnerInv
  <2> QED BY <2>3, <2>4
<1>2. CASE ParentAbort
  <2>1. /\ Cancel(foreground) /\ foreground \in SUBSET Handles
        /\ UNCHANGED <<claims, live, spawn, rebuild, disposed>>
    BY <1>2, OwnerFacts DEF ParentAbort, TypeOK
  <2> QED BY <2>1, CancelOwners
<1>3. CASE Dispose
  <2>1. disposed' /\ live'[h] = 0 /\ UNCHANGED <<spawn, rebuild>>
    BY <1>3 DEF Dispose
  <2>2. ASSUME NEW g \in Gens PROVE ~child'[<<h, g>>].reattach
    <3> DEFINE c == child[<<h, g>>]
    <3>1. c \in Child /\ ~c.reattach
      BY OwnerFacts DEF OwnerInv
    <3>2. child'[<<h, g>>] \in {c, [c EXCEPT !.st = "closed"]}
      BY <1>3, OwnerFacts DEF Dispose
    <3> HIDE DEF c
    <3>3. [c EXCEPT !.st = "closed"].reattach = c.reattach
      BY <3>1 DEF Child
    <3> QED BY <3>1, <3>2, <3>3
  <2> QED BY <2>1, <2>2 DEF OwnerInv, Open, Admitted
<1>4. ~Restart
  <2>1. restarts \in 0 .. 0
    BY OwnerFacts DEF TypeOK
  <2> QED BY <2>1 DEF Restart
<1>5. CASE UNCHANGED vars \/ (\E o \in Handles : ReleaseTree(o))
           \/ (\E i \in Inst : ChildWrites(i))
  <2>1. Undisturbed(h)
    BY <1>5 DEF vars, ReleaseTree, ChildWrites, Undisturbed
  <2> QED BY <2>1, UndisturbedKeeps
<1> QED
  BY <1>1, <1>2, <1>3, <1>4, <1>5 DEF Next, Releasing

OwnersInv == HoldsInv /\ TreesInv /\ \A h \in Handles : OwnerInv(h)

LEMMA OwnersStep ==
  ASSUME MaxRestarts = 0, OwnersInv, [Next]_vars
  PROVE  OwnersInv'
<1>1. HoldsInv' /\ TreesInv'
  BY HoldsStep, TreesStep DEF OwnersInv
<1>2. TreesInv /\ \A h \in Handles : OwnerInv(h)
  BY DEF OwnersInv
<1>3. ASSUME NEW i \in Inst, Turning(i), NEW h \in Handles PROVE OwnerInv(h)'
  <2>1. i[1] \in Handles
    BY DEF Inst
  <2> QED BY <1>2, <1>3, <2>1, TurningOwners
<1>4. \A h \in Handles : OwnerInv(h)'
  BY <1>2, <1>3, CallingOwners, LaunchingOwners, ReopeningOwners, OtherOwners
<1> QED BY <1>1, <1>4 DEF OwnersInv

LEMMA OwnersInit == Init => OwnersInv
<1> SUFFICES ASSUME Init PROVE OwnersInv
  OBVIOUS
<1>1. ASSUME NEW h \in Handles PROVE OwnerInv(h)
  <2>1. /\ live[h] = 0 /\ rebuild[h] = {} /\ spawn[h] = "new" /\ rec[h] = NoRecord
        /\ \A g \in Gens : child[<<h, g>>] = NoChild
    BY TreesInit, OwnerFacts DEF Init
  <2> QED BY <2>1 DEF OwnerInv, Open, Admitted, NoChild, NoRecord
<1> QED BY <1>1, HoldsInit, TreesInit DEF OwnersInv

\* In one process, two open runs with turns in flight never own overlapping
\* paths: whatever else launches, fails, is cleaned up, is sent input or is
\* closed, a run holds its whole claim for as long as it is open.
THEOREM WritersStayApart ==
  ASSUME MaxRestarts = 0
  PROVE  Spec => []WritersDisjoint
<1>1. OwnersInv => WritersDisjoint
  BY DEF OwnersInv, OwnerInv, HoldsInv, ClaimsDisjoint, WritersDisjoint
<1>2. OwnersInv /\ [Next]_vars => OwnersInv'
  BY OwnersStep
<1> QED
  BY <1>1, <1>2, OwnersInit, PTL DEF Spec
=============================================================================
