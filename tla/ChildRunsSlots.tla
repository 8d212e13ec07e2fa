--------------------------- MODULE ChildRunsSlots ---------------------------
(***************************************************************************)
(* No slot of the registry leaks: whatever fails, whoever holds a slot is  *)
(* still being launched, being rebuilt, or open and unsettled.             *)
(***************************************************************************)
EXTENDS ChildRunsTypes

Early(h) == spawn[h] \in {"new", "preparing", "building"}

Active(i) == child[i].run # "none" \/ child[i].input # "none"

\* A handle whose launch has not registered it: nothing else knows the id.
Unknown(h) ==
  /\ rec[h].status = "absent" /\ log[h].status = "absent"
  /\ live[h] = 0 /\ rebuild[h] = {} /\ recov[h].phase = "none"
  /\ \A g \in Gens : ~Active(<<h, g>>)

EarlyIsUnknown == \A h \in Handles : Early(h) => Unknown(h)

\* An instance a resume is building: no session, and an entry that is neither
\* settled nor closed.
RebuildIsFresh ==
  \A h \in Handles : \A g \in rebuild[h] :
    /\ ~Active(<<h, g>>) /\ live[h] # g
    /\ entry[<<h, g>>].latest = "none" /\ ~entry[<<h, g>>].closed

\* Only a session that was built has turns.
ActiveIsBuilt == \A i \in Inst : Active(i) => child[i].st # "none"

SlotInv == TypeOK /\ EarlyIsUnknown /\ RebuildIsFresh /\ ActiveIsBuilt /\ NoSlotLeaked

-----------------------------------------------------------------------------
(* Steps about one session that is in use: its turns and its callers.      *)

\* Session i has a turn, or is the one its run's id maps to.
InUse(i) == Active(i) \/ (live[i[1]] # 0 /\ i = Cur(i[1]))

\* What such a step may do: it changes that session, its entry and its run's
\* record only, gives its slot back when it settles, and takes none.
Local(i) ==
  /\ \A j \in Inst : j # i => child'[j] = child[j] /\ entry'[j] = entry[j]
  /\ child'[i] = child[i] \/ child'[i].st # "none"
  /\ \A h \in Handles : h # i[1] =>
        rec'[h] = rec[h] /\ log'[h] = log[h] /\ recov'[h] = recov[h]
  /\ slots' \subseteq slots
  /\ i[1] \in slots' =>
        \/ entry[i].closed
        \/ entry'[i].latest = entry[i].latest /\ ~entry'[i].closed
  /\ live' = live /\ spawn' = spawn /\ rebuild' = rebuild

\* A session in use belongs to a registered run, and nobody is building it.
LEMMA InUseIsKnown ==
  ASSUME SlotInv, NEW i \in Inst, InUse(i)
  PROVE  ~Early(i[1]) /\ i[2] \notin rebuild[i[1]]
<1>1. PICK h \in Handles, g \in Gens : i = <<h, g>>
  BY DEF Inst
<1>2. CASE Active(i)
  BY <1>1, <1>2 DEF SlotInv, EarlyIsUnknown, Unknown, RebuildIsFresh
<1>3. CASE live[h] # 0 /\ i = Cur(h)
  BY <1>1, <1>3 DEF SlotInv, EarlyIsUnknown, Unknown, RebuildIsFresh, Cur
<1> QED
  BY <1>1, <1>2, <1>3 DEF InUse

\* Such a step keeps the invariant.
LEMMA LocalKeeps ==
  ASSUME SlotInv, TypeOK', NEW i \in Inst, InUse(i), Local(i)
  PROVE  SlotInv'
<1>1. PICK h \in Handles, g \in Gens : i = <<h, g>>
  BY DEF Inst
<1>2. ~Early(h) /\ g \notin rebuild[h]
  BY <1>1, InUseIsKnown
<1>3. EarlyIsUnknown'
  <2> SUFFICES ASSUME NEW o \in Handles, Early(o)' PROVE Unknown(o)'
    BY DEF EarlyIsUnknown
  <2>1. Early(o) /\ o # h
    BY <1>2 DEF Early, Local
  <2>2. \A f \in Gens : child'[<<o, f>>] = child[<<o, f>>]
    BY <1>1, <2>1 DEF Local, Inst
  <2> QED
    BY <1>1, <2>1, <2>2 DEF SlotInv, EarlyIsUnknown, Unknown, Local, Active
<1>4. RebuildIsFresh'
  <2> SUFFICES ASSUME NEW o \in Handles, NEW f \in rebuild[o]
               PROVE  /\ ~Active(<<o, f>>)' /\ live[o] # f
                      /\ entry'[<<o, f>>].latest = "none"
                      /\ ~entry'[<<o, f>>].closed
    BY DEF RebuildIsFresh, Local
  <2>1. f \in Gens /\ <<o, f>> \in Inst /\ <<o, f>> # i
    BY <1>1, <1>2 DEF SlotInv, TypeOK, Inst
  <2>2. child'[<<o, f>>] = child[<<o, f>>] /\ entry'[<<o, f>>] = entry[<<o, f>>]
    BY <2>1 DEF Local
  <2> QED
    BY <2>2 DEF SlotInv, RebuildIsFresh, Active
<1>5. ActiveIsBuilt'
  BY DEF SlotInv, ActiveIsBuilt, Active, Local
<1>6. NoSlotLeaked'
  <2> SUFFICES ASSUME NEW o \in Handles, o \in slots', spawn[o] \notin {"preparing", "building"},
                      rebuild[o] = {}
               PROVE  Open(o)' /\ entry'[Cur(o)].latest = "none"
    BY DEF NoSlotLeaked, Local, Open, Cur, SlotInv, TypeOK
  <2>1. Open(o) /\ entry[Cur(o)].latest = "none"
    BY DEF SlotInv, NoSlotLeaked, Local
  <2>2. live[o] \in Gens /\ Cur(o) = <<o, live[o]>> /\ Cur(o) \in Inst
    BY <2>1, BoundsAssumption DEF SlotInv, TypeOK, Open, Cur, Gens, Inst
  <2>3. CASE Cur(o) # i
    BY <2>1, <2>2, <2>3 DEF Local, Open, Cur
  <2>4. CASE Cur(o) = i
    BY <1>1, <2>1, <2>2, <2>4 DEF Local, Open, Cur
  <2> QED BY <2>3, <2>4
<1> QED
  BY <1>3, <1>4, <1>5, <1>6 DEF SlotInv

\* persistSettlement gives the slot back unless the run was closed, which gave
\* it back already.
LEMMA SettleIsLocal ==
  ASSUME TypeOK, NEW i \in Inst, NEW out, NEW giveBack \in BOOLEAN,
         Settle(i, out, giveBack)
  PROVE  /\ \A j \in Inst : j # i => entry'[j] = entry[j]
         /\ \A h \in Handles : h # i[1] =>
               rec'[h] = rec[h] /\ log'[h] = log[h] /\ recov'[h] = recov[h]
         /\ slots' \subseteq slots
         /\ i[1] \in slots' => entry[i].closed
<1>1. i[1] \in Handles
  BY DEF Inst
<1>2. CASE entry[i].closed
  BY <1>1, <1>2 DEF Settle, recordVars, TypeOK
<1>3. CASE ~entry[i].closed
  BY <1>1, <1>3 DEF Settle, Save, Detach, TypeOK
<1> QED BY <1>2, <1>3

\* A promise chain of one session moves on, and settles or does not.
LEMMA ChainIsLocal ==
  ASSUME SlotInv, NEW i \in Inst, Active(i), child'[i].st # "none",
         \A j \in Inst : j # i => child'[j] = child[j],
         NEW out, NEW giveBack \in BOOLEAN,
         \/ UNCHANGED <<slots, entry, recordVars>>
         \/ Settle(i, out, giveBack),
         live' = live /\ spawn' = spawn /\ rebuild' = rebuild
  PROVE  Local(i)
<1>1. TypeOK /\ i[1] \in Handles
  BY DEF SlotInv, Inst
<1>2. CASE UNCHANGED <<slots, entry, recordVars>>
  BY <1>1, <1>2 DEF Local, recordVars
<1>3. CASE Settle(i, out, giveBack)
  BY <1>1, <1>3, SettleIsLocal DEF Local
<1> QED BY <1>2, <1>3

LEMMA TurningIsLocal ==
  ASSUME SlotInv, NEW i \in Inst, Turning(i)
  PROVE  Active(i) /\ Local(i)
<1>1. (Active(i) => child[i].st # "none") /\ child \in [Inst -> Child] /\ child[i] \in Child
  BY DEF SlotInv, ActiveIsBuilt, TypeOK
<1> DEFINE Moves == /\ Active(i) /\ child'[i].st # "none"
                    /\ \A j \in Inst : j # i => child'[j] = child[j]
                    /\ live' = live /\ spawn' = spawn /\ rebuild' = rebuild
<1>2. ASSUME NEW o \in TurnOutcomes, RunTurnEnds(i, o) PROVE Active(i) /\ Local(i)
  <2>1. Ended(child[i].st, o).st # "none"
    BY DEF Ended
  <2>2. Moves
    BY <1>1, <1>2, <2>1 DEF RunTurnEnds, Active, Child, callVars
  <2>3. \/ UNCHANGED <<slots, entry, recordVars>>
        \/ Settle(i, Ended(child[i].st, o).last, FALSE)
    BY <1>2 DEF RunTurnEnds
  <2> QED BY <2>2, <2>3, ChainIsLocal
<1>3. ASSUME NEW o \in TurnOutcomes, InputTurnEnds(i, o) PROVE Active(i) /\ Local(i)
  <2> DEFINE back == child[i].reattach /\ ~Ended(child[i].st, o).ok
  <2>1. Ended(child[i].st, o).st # "none"
    BY DEF Ended
  <2>2. Moves
    BY <1>1, <1>3, <2>1 DEF InputTurnEnds, Active, Child, callVars
  <2>3. /\ back \in BOOLEAN
        /\ \/ UNCHANGED <<slots, entry, recordVars>>
           \/ Settle(i, Ended(child[i].st, o).last, back)
    BY <1>3 DEF InputTurnEnds
  <2> QED BY <2>2, <2>3, ChainIsLocal
<1>4. ASSUME NEW pass \in BOOLEAN, RunVerified(i, pass) PROVE Active(i) /\ Local(i)
  <2>1. Moves
    BY <1>1, <1>4 DEF RunVerified, Active, Child, callVars
  <2>2. UNCHANGED <<slots, entry, recordVars>> \/ Settle(i, "failed", FALSE)
    BY <1>4 DEF RunVerified
  <2> QED BY <2>1, <2>2, ChainIsLocal
<1>5. ASSUME NEW pass \in BOOLEAN, RunRechecked(i, pass) PROVE Active(i) /\ Local(i)
  <2> DEFINE out == IF pass THEN Reported(i) ELSE "failed"
  <2>1. Moves
    BY <1>1, <1>5 DEF RunRechecked, Active, Child, callVars
  <2>2. Settle(i, out, FALSE)
    BY <1>5 DEF RunRechecked
  <2> QED BY <2>1, <2>2, ChainIsLocal
<1>6. ASSUME NEW pass \in BOOLEAN, InputVerified(i, pass) PROVE Active(i) /\ Local(i)
  <2> DEFINE out == IF pass THEN Reported(i) ELSE "failed"
             back == child[i].reattach /\ ~pass
  <2>1. Moves
    BY <1>1, <1>6 DEF InputVerified, Active, Child, callVars
  <2>2. back \in BOOLEAN /\ Settle(i, out, back)
    BY <1>6 DEF InputVerified
  <2> QED BY <2>1, <2>2, ChainIsLocal
<1>7. CASE RunExpires(i)
  <2>1. Moves
    BY <1>1, <1>7 DEF RunExpires, Active, Child, callVars
  <2>2. Settle(i, "failed", FALSE)
    BY <1>7 DEF RunExpires
  <2> QED BY <2>1, <2>2, ChainIsLocal
<1> QED
  BY <1>2, <1>3, <1>4, <1>5, <1>6, <1>7 DEF Turning

\* A save touches the records of one run.
LEMMA SaveIsLocal ==
  ASSUME TypeOK, NEW h \in Handles, NEW e, NEW status, Save(h, e, status)
  PROVE  \A o \in Handles : o # h =>
            rec'[o] = rec[o] /\ log'[o] = log[o] /\ recov'[o] = recov[o]
  BY DEF Save, Detach, TypeOK

\* Every call about an open run except interrupt with a reason.
LEMMA CallingIsLocal ==
  ASSUME SlotInv, NEW h \in Handles, Calling(h), ~InterruptWithReason(h)
  PROVE  Open(h) /\ Cur(h) \in Inst /\ Local(Cur(h))
<1> DEFINE i == Cur(h)
<1>0. TypeOK /\ Open(h)
  BY DEF SlotInv, Calling, SendInput, QueueInput, Wait, Interrupt, ResumeLive, Close
<1>1. i \in Inst /\ i[1] = h /\ ~entry[i].closed
  BY <1>0, CurType, TypeParts DEF TypeInParts, Open, Cur
<1>2. child \in [Inst -> Child] /\ entry \in [Inst -> Entry] /\ entry[i] \in Entry
  BY <1>0, <1>1 DEF TypeOK
<1> SUFFICES Local(i)
  BY <1>0, <1>1
<1> HIDE DEF i
<1> USE DEF registryVars, callVars, recordVars
<1>3. child[i] \in Child
  BY <1>1, <1>2
<1>4. StartInput(child[i]) \in Child /\ StartInput(child[i]).st # "none"
  BY <1>3 DEF StartInput, Child
<1>5. CASE SendInput(h)
  <2>1. /\ child' = [child EXCEPT ![i] = StartInput(@)]
        /\ UNCHANGED <<slots, live, spawn, rebuild, rec, log, recov, entry>>
    BY <1>5 DEF SendInput, i
  <2> QED
    BY <1>1, <1>2, <1>4, <2>1 DEF Local
<1>6. CASE QueueInput(h)
  <2>1. Settle(i, Reported(i), FALSE) /\ FALSE \in BOOLEAN
    BY <1>6 DEF QueueInput, i
  <2> QED
    BY <1>0, <1>1, <1>6, <2>1, SettleIsLocal DEF QueueInput, Local
<1>7. CASE Wait(h)
  <2>1. \A o \in Handles : o # h =>
            rec'[o] = rec[o] /\ log'[o] = log[o] /\ recov'[o] = recov[o]
    BY <1>0, <1>7, SaveIsLocal DEF Wait
  <2>2. UNCHANGED <<slots, live, spawn, rebuild, child, entry>>
    BY <1>7 DEF Wait
  <2> QED BY <1>1, <2>1, <2>2 DEF Local
<1>8. CASE Interrupt(h)
  <2>1. /\ child' = [child EXCEPT ![i].st = "interrupted"]
        /\ UNCHANGED <<slots, live, spawn, rebuild, rec, log, recov, entry>>
    BY <1>8 DEF Interrupt, i
  <2>2. /\ child'[i].st # "none"
        /\ \A j \in Inst : j # i => child'[j] = child[j]
    BY <1>1, <1>2, <1>3, <2>1 DEF Child
  <2> QED BY <1>1, <2>1, <2>2 DEF Local
<1>9. CASE ResumeLive(h)
  <2>1. /\ \E atts : entry' = [entry EXCEPT ![i].attempts = atts]
        /\ child' = [child EXCEPT ![i] = IF InFlight(i) THEN @ ELSE StartInput(@)]
        /\ UNCHANGED <<slots, live, spawn, rebuild, rec, log, recov>>
    BY <1>9 DEF ResumeLive, i
  <2>2. /\ entry'[i].latest = entry[i].latest /\ ~entry'[i].closed
        /\ \A j \in Inst : j # i => entry'[j] = entry[j]
    BY <1>1, <1>2, <2>1 DEF Entry
  <2>3. /\ child'[i] = child[i] \/ child'[i].st # "none"
        /\ \A j \in Inst : j # i => child'[j] = child[j]
    BY <1>1, <1>2, <1>4, <2>1
  <2> QED
    BY <1>1, <2>1, <2>2, <2>3 DEF Local
<1>10. CASE Close(h)
  <2>1. /\ child' = [child EXCEPT ![i].st = "closed"] /\ slots' = slots \ {h}
        /\ \E e : entry' = [entry EXCEPT ![i] = e] /\ Save(h, e, "closed")
        /\ UNCHANGED <<live, spawn, rebuild>>
    BY <1>10 DEF Close, i
  <2>2. /\ child'[i].st # "none"
        /\ \A j \in Inst : j # i => child'[j] = child[j]
    BY <1>1, <1>2, <1>3, <2>1 DEF Child
  <2>3. \A o \in Handles : o # h =>
            rec'[o] = rec[o] /\ log'[o] = log[o] /\ recov'[o] = recov[o]
    BY <1>0, <2>1, SaveIsLocal
  <2>4. \A j \in Inst : j # i => entry'[j] = entry[j]
    BY <1>2, <2>1
  <2> QED
    BY <1>1, <2>1, <2>2, <2>3, <2>4 DEF Local
<1> QED
  BY <1>0, <1>1, <1>5, <1>6, <1>7, <1>8, <1>9, <1>10 DEF Calling, i

-----------------------------------------------------------------------------
(* The other steps. *)

LEMMA Instances ==
  ASSUME TypeOK, NEW h \in Handles
  PROVE  /\ \A g \in Gens : <<h, g>> \in Inst
         /\ rebuild[h] \subseteq Gens
         /\ \A g \in rebuild[h] : <<h, g>> \in Inst
         /\ Open(h) => Cur(h) \in Inst
  BY CurType, TypeParts DEF TypeInParts, CallsType, Inst

\* interrupt with a reason stops turns and marks runs cancelled: whoever it
\* reaches stays open and unsettled.
LEMMA CancelKeeps ==
  ASSUME SlotInv, TypeOK', NEW H \in SUBSET Handles, Cancel(H),
         UNCHANGED <<slots, live, spawn, rebuild>>
  PROVE  SlotInv'
<1>1. TypeOK
  BY DEF SlotInv
<1>2. \A i \in Inst : /\ child'[i].run = child[i].run
                      /\ child'[i].input = child[i].input
                      /\ child[i].st # "none" => child'[i].st # "none"
  <2> SUFFICES ASSUME NEW i \in Inst
               PROVE  /\ child'[i].run = child[i].run
                      /\ child'[i].input = child[i].input
                      /\ child[i].st # "none" => child'[i].st # "none"
    OBVIOUS
  <2>1. child'[i] = child[i] \/ child'[i] = [child[i] EXCEPT !.st = "interrupted"]
    BY DEF Cancel
  <2>2. child[i] \in Child
    BY <1>1 DEF TypeOK
  <2> QED
    BY <2>1, <2>2 DEF Child
<1>3. \A i \in Inst : /\ entry'[i].latest = entry[i].latest
                      /\ entry'[i].closed = entry[i].closed
  BY <1>1, ZenonT(40) DEF Cancel, TypeOK, Entry
<1>4. \A h \in Handles : ~Open(h) =>
         rec'[h] = rec[h] /\ log'[h] = log[h] /\ recov'[h] = recov[h]
  BY DEF Cancel
<1>5. EarlyIsUnknown'
  <2> SUFFICES ASSUME NEW h \in Handles, Early(h) PROVE Unknown(h)'
    BY DEF EarlyIsUnknown, Early
  <2>1. Unknown(h) /\ \A g \in Gens : <<h, g>> \in Inst
    BY <1>1, Instances DEF SlotInv, EarlyIsUnknown
  <2> QED
    BY <1>2, <1>4, <2>1 DEF Unknown, Active, Open
<1>6. RebuildIsFresh'
  <2> SUFFICES ASSUME NEW h \in Handles, NEW g \in rebuild[h]
               PROVE  /\ ~Active(<<h, g>>)' /\ live[h] # g
                      /\ entry'[<<h, g>>].latest = "none" /\ ~entry'[<<h, g>>].closed
    BY DEF RebuildIsFresh
  <2>1. <<h, g>> \in Inst
    BY <1>1, Instances
  <2> QED
    BY <1>2, <1>3, <2>1 DEF SlotInv, RebuildIsFresh, Active
<1>7. ActiveIsBuilt'
  BY <1>2 DEF SlotInv, ActiveIsBuilt, Active
<1>8. NoSlotLeaked'
  <2> SUFFICES ASSUME NEW h \in slots, spawn[h] \notin {"preparing", "building"},
                      rebuild[h] = {}
               PROVE  Open(h)' /\ entry'[Cur(h)].latest = "none"
    BY DEF NoSlotLeaked, Open, Cur
  <2>1. h \in Handles
    BY <1>1 DEF TypeOK
  <2>2. Open(h) /\ entry[Cur(h)].latest = "none" /\ Cur(h) \in Inst
    BY <1>1, <2>1, Instances DEF SlotInv, NoSlotLeaked
  <2> QED
    BY <1>3, <2>2 DEF Open, Cur
<1> QED
  BY <1>5, <1>6, <1>7, <1>8 DEF SlotInv

\* A step of run h that touches no other run, session or slot: only h is left
\* to look at.
Aside(h) ==
  /\ \A o \in Handles : o # h =>
        /\ (o \in slots' => o \in slots)
        /\ spawn'[o] = spawn[o] /\ live'[o] = live[o] /\ rebuild'[o] = rebuild[o]
        /\ rec'[o] = rec[o] /\ log'[o] = log[o] /\ recov'[o] = recov[o]
        /\ \A g \in Gens :
              child'[<<o, g>>] = child[<<o, g>>] /\ entry'[<<o, g>>] = entry[<<o, g>>]

\* The invariant of one run.
RunInv(h) ==
  /\ Early(h) => Unknown(h)
  /\ \A g \in rebuild[h] :
       /\ ~Active(<<h, g>>) /\ live[h] # g
       /\ entry[<<h, g>>].latest = "none" /\ ~entry[<<h, g>>].closed
  /\ \A g \in Gens : Active(<<h, g>>) => child[<<h, g>>].st # "none"
  /\ h \in slots =>
       \/ spawn[h] \in {"preparing", "building"} \/ rebuild[h] # {}
       \/ Open(h) /\ entry[Cur(h)].latest = "none"

LEMMA RunByRun ==
  /\ SlotInv <=> TypeOK /\ \A h \in Handles : RunInv(h)
  /\ SlotInv' <=> TypeOK' /\ \A h \in Handles : RunInv(h)'
<1>1. ActiveIsBuilt <=> \A h \in Handles : \A g \in Gens :
                           Active(<<h, g>>) => child[<<h, g>>].st # "none"
  BY DEF ActiveIsBuilt, Inst
<1>2. ActiveIsBuilt' <=> \A h \in Handles : \A g \in Gens :
                            Active(<<h, g>>)' => child'[<<h, g>>].st # "none"
  BY DEF ActiveIsBuilt, Inst
<1>3. (TypeOK => slots \subseteq Handles) /\ (TypeOK' => slots' \subseteq Handles)
  BY DEF TypeOK
<1>4. SlotInv <=> TypeOK /\ \A h \in Handles : RunInv(h)
  BY <1>1, <1>3 DEF SlotInv, EarlyIsUnknown, RebuildIsFresh, NoSlotLeaked, RunInv
<1>5. SlotInv' <=> TypeOK' /\ \A h \in Handles : RunInv(h)'
  BY <1>2, <1>3 DEF SlotInv, EarlyIsUnknown, RebuildIsFresh, NoSlotLeaked, RunInv
<1> QED
  BY <1>4, <1>5

LEMMA AsideKeeps ==
  ASSUME SlotInv, TypeOK', NEW h \in Handles, Aside(h), RunInv(h)'
  PROVE  SlotInv'
<1> SUFFICES ASSUME NEW o \in Handles, o # h PROVE RunInv(o)'
  BY RunByRun
<1>1. RunInv(o) /\ rebuild[o] \subseteq Gens /\ (Open(o) => live[o] \in Gens)
  BY RunByRun, Instances, CurType, TypeParts DEF SlotInv, TypeInParts
<1>2. \A g \in Gens : Active(<<o, g>>)' <=> Active(<<o, g>>)
  BY DEF Aside, Active
<1>3. Early(o)' => Early(o)
  BY DEF Aside, Early
<1>4. Unknown(o) => Unknown(o)'
  BY <1>2 DEF Aside, Unknown
<1>5. Open(o) /\ entry[Cur(o)].latest = "none"
        => Open(o)' /\ entry'[Cur(o)'].latest = "none"
  BY <1>1 DEF Aside, Open, Cur
<1> QED
  BY <1>1, <1>2, <1>3, <1>4, <1>5 DEF Aside, RunInv

\* The catch of runDelegation gives the slot back, whatever else it waits for.
LEMMA LaunchFailsKeeps ==
  ASSUME SlotInv, TypeOK', NEW h \in Handles, LaunchFails(h), Early(h),
         UNCHANGED <<live, rebuild, rec, log, recov, child, entry>>
  PROVE  SlotInv'
<1>1. TypeOK /\ Unknown(h)
  BY DEF SlotInv, EarlyIsUnknown
<1>2. /\ slots' = slots \ {h} /\ spawn'[h] \in {"cleanup", "done"}
      /\ \A o \in Handles : o # h => spawn'[o] = spawn[o]
  BY <1>1 DEF LaunchFails, TypeOK
<1>3. Aside(h)
  BY <1>2 DEF Aside
<1>4. RunInv(h)'
  BY <1>1, <1>2 DEF RunInv, Early, Unknown, Active
<1> QED
  BY <1>3, <1>4, AsideKeeps

LEMMA LaunchingKeeps ==
  ASSUME SlotInv, TypeOK', NEW h \in Handles, Launching(h)
  PROVE  SlotInv'
<1> USE DEF registryVars, callVars, recordVars
<1>1. TypeOK /\ (Early(h) => Unknown(h))
  BY DEF SlotInv, EarlyIsUnknown
<1>2. /\ spawn \in [Handles -> {"new", "preparing", "building", "cleanup", "done"}]
      /\ live \in [Handles -> 0 .. MaxBuilds]
      /\ child \in [Inst -> Child] /\ entry \in [Inst -> Entry]
  BY <1>1 DEF TypeOK
<1>3. CASE Spawn(h)
  <2>1. spawn[h] = "new" /\ spawn'[h] \in {"preparing", "building"}
    BY <1>2, <1>3 DEF Spawn
  <2>2. Aside(h)
    BY <1>2, <1>3 DEF Spawn, Aside
  <2>3. RunInv(h)'
    BY <1>1, <1>3, <2>1 DEF Spawn, RunInv, Early, Unknown, Active
  <2> QED BY <2>2, <2>3, AsideKeeps
<1>4. CASE SpawnOverLimit(h)
  <2>1. spawn[h] = "new" /\ spawn'[h] \in {"cleanup", "done"}
    BY <1>2, <1>4 DEF SpawnOverLimit
  <2>2. Aside(h)
    BY <1>2, <1>4 DEF SpawnOverLimit, Aside
  <2>3. RunInv(h)'
    BY <1>1, <1>4, <2>1 DEF SpawnOverLimit, RunInv, Early, Unknown, Active
  <2> QED BY <2>2, <2>3, AsideKeeps
<1>5. CASE PrepareDone(h)
  <2>1. spawn[h] = "preparing" /\ spawn'[h] = "building"
    BY <1>2, <1>5 DEF PrepareDone
  <2>2. Aside(h)
    BY <1>2, <1>5 DEF PrepareDone, Aside
  <2>3. RunInv(h)'
    BY <1>1, <1>5, <2>1 DEF PrepareDone, RunInv, Early, Unknown, Active
  <2> QED BY <2>2, <2>3, AsideKeeps
<1>6. CASE LaunchRejected(h) \/ LaunchOrphaned(h)
  BY <1>6, LaunchFailsKeeps DEF LaunchRejected, LaunchOrphaned, Early
<1>7. CASE Launched(h)
  <2> DEFINE i == <<h, 1>>
  <2>1. i \in Inst /\ 1 \in Gens /\ rebuild[h] = {} /\ \A g \in Gens : ~Active(<<h, g>>)
    BY <1>1, <1>7, BoundsAssumption DEF Launched, Early, Unknown, Inst, Gens
  <2>2. /\ spawn'[h] = "done" /\ live'[h] = 1
        /\ entry'[i].latest = "none" /\ ~entry'[i].closed
        /\ child'[i].st # "none"
    BY <1>2, <1>7, <2>1 DEF Launched, NoEntry, NoChild
  <2>3. \A j \in Inst : j # i => child'[j] = child[j] /\ entry'[j] = entry[j]
    BY <1>2, <1>7 DEF Launched
  <2>4. \A o \in Handles : o # h =>
            rec'[o] = rec[o] /\ log'[o] = log[o] /\ recov'[o] = recov[o]
    <3>1. \E e, status : Save(h, e, status)
      BY <1>7 DEF Launched
    <3> QED BY <1>1, <3>1, SaveIsLocal
  <2>5. Aside(h)
    BY <1>2, <1>7, <2>3, <2>4 DEF Launched, Aside, Inst
  <2>6. \A g \in Gens : Active(<<h, g>>)' => child'[<<h, g>>].st # "none"
    BY <2>1, <2>2, <2>3 DEF Active, Inst
  <2>7. rebuild'[h] = {}
    BY <1>7, <2>1 DEF Launched
  <2>8. Open(h)' /\ entry'[Cur(h)'].latest = "none"
    BY <2>2 DEF Open, Cur
  <2>9. RunInv(h)'
    BY <2>2, <2>6, <2>7, <2>8 DEF RunInv, Early
  <2> QED BY <2>5, <2>9, AsideKeeps
<1> QED
  BY <1>3, <1>4, <1>5, <1>6, <1>7 DEF Launching

LEMMA ReopeningKeeps ==
  ASSUME SlotInv, TypeOK', NEW h \in Handles, Reopening(h)
  PROVE  SlotInv'
<1> USE DEF registryVars, callVars, recordVars
<1>1. TypeOK /\ RunInv(h) /\ \A g \in Gens : <<h, g>> \in Inst
  BY RunByRun, Instances
<1>2. /\ live \in [Handles -> 0 .. MaxBuilds] /\ rebuild \in [Handles -> SUBSET Gens]
      /\ child \in [Inst -> Child] /\ entry \in [Inst -> Entry]
      /\ rec \in [Handles -> Record] /\ log \in [Handles -> Record]
      /\ recov \in [Handles -> [phase : {"none", "shared", "stale"}, copy : Record]]
  BY <1>1 DEF TypeOK
<1>3. ASSUME NEW g \in Gens, ResumeHistorical(h, g) PROVE SlotInv'
  <2>1. /\ rec[h].status # "absent" /\ live[h] = 0 /\ child[<<h, g>>].st = "none"
        /\ rebuild' = [rebuild EXCEPT ![h] = @ \cup {g}]
        /\ slots' = slots \cup {h}
        /\ \E atts : entry' = [entry EXCEPT ![<<h, g>>] =
                                 [NoEntry EXCEPT !.attempts = atts]]
        /\ UNCHANGED <<live, spawn, rec, log, recov, child>>
    BY <1>3 DEF ResumeHistorical, Resumable, Historical
  <2>2. ~Early(h)
    BY <1>1, <2>1 DEF RunInv, Unknown
  <2>3. /\ entry'[<<h, g>>].latest = "none" /\ ~entry'[<<h, g>>].closed
        /\ \A j \in Inst : j # <<h, g>> => entry'[j] = entry[j]
    BY <1>1, <1>2, <2>1 DEF NoEntry
  <2>4. ~Active(<<h, g>>) /\ live[h] # g
    BY <1>1, <2>1 DEF RunInv, Gens
  <2>5. Aside(h)
    BY <1>2, <2>1, <2>3 DEF Aside, Inst
  <2>6. RunInv(h)'
    BY <1>1, <1>2, <2>1, <2>2, <2>3, <2>4 DEF RunInv, Early, Active
  <2> QED BY <2>5, <2>6, AsideKeeps
<1>4. ASSUME NEW g \in Gens, ResumeRejected(h, g) PROVE SlotInv'
  <2>1. ~Early(h)
    BY <1>1, <1>4 DEF ResumeRejected, RunInv, Unknown
  <2>2. \A j \in Inst : j # <<h, g>> => entry'[j] = entry[j]
    BY <1>2, <1>4 DEF ResumeRejected
  <2>3. Aside(h)
    BY <1>2, <1>4, <2>2 DEF ResumeRejected, Aside, Inst
  <2>4. RunInv(h)'
    BY <1>1, <1>2, <1>4, <2>1, <2>2 DEF ResumeRejected, RunInv, Early, Active
  <2> QED BY <2>3, <2>4, AsideKeeps
<1>5. ASSUME NEW g \in Gens, Resumed(h, g) PROVE SlotInv'
  <2>1. /\ g \in rebuild[h] /\ rebuild' = [rebuild EXCEPT ![h] = @ \ {g}]
        /\ live' = [live EXCEPT ![h] = g]
        /\ child' = [child EXCEPT ![<<h, g>>] =
                       [StartInput(NoChild) EXCEPT !.reattach = TRUE]]
        /\ UNCHANGED <<slots, spawn, entry>>
    BY <1>5 DEF Resumed
  <2>2. ~Early(h) /\ g # 0
    BY <1>1, <2>1 DEF RunInv, Unknown, Gens
  <2>3. child'[<<h, g>>].st # "none"
    BY <1>1, <1>2, <2>1 DEF StartInput, NoChild
  <2>4. \A j \in Inst : j # <<h, g>> => child'[j] = child[j]
    BY <1>2, <2>1
  <2>5. entry[<<h, g>>].latest = "none" /\ ~entry[<<h, g>>].closed
    BY <1>1, <2>1 DEF RunInv
  <2>6. \A o \in Handles : o # h =>
            rec'[o] = rec[o] /\ log'[o] = log[o] /\ recov'[o] = recov[o]
    BY <1>1, <1>5, SaveIsLocal DEF Resumed
  <2>7. Aside(h)
    BY <1>2, <2>1, <2>4, <2>6 DEF Aside, Inst
  <2>8. Open(h)' /\ entry'[Cur(h)'].latest = "none"
    BY <1>2, <2>1, <2>2, <2>5 DEF Open, Cur
  <2>9. ~Early(h)'
    BY <2>1, <2>2 DEF Early
  <2>10. \A f \in rebuild'[h] :
            /\ f \in Gens /\ f \in rebuild[h] /\ f # g
            /\ <<h, f>> # <<h, g>>
    BY <1>2, <2>1
  <2>11. \A f \in rebuild'[h] :
            /\ ~Active(<<h, f>>)' /\ live'[h] # f
            /\ entry'[<<h, f>>].latest = "none" /\ ~entry'[<<h, f>>].closed
    BY <1>1, <1>2, <2>1, <2>4, <2>10 DEF RunInv, Active
  <2>12. \A f \in Gens : Active(<<h, f>>)' => child'[<<h, f>>].st # "none"
    BY <1>1, <2>3, <2>4 DEF RunInv, Active
  <2>13. RunInv(h)'
    BY <2>8, <2>9, <2>11, <2>12 DEF RunInv
  <2> QED BY <2>7, <2>13, AsideKeeps
<1>6. CASE ResumeOverLimit(h)
  <2>1. Aside(h)
    BY <1>6 DEF ResumeOverLimit, Aside
  <2>2. RunInv(h)'
    BY <1>1, <1>6 DEF ResumeOverLimit, RunInv, Early, Unknown, Active
  <2> QED BY <2>1, <2>2, AsideKeeps
<1>7. CASE WorkspaceMissing(h) \/ RecoverStart(h) \/ RecoverDone(h) \/ RecoverRefused(h)
  <2>1. /\ rec[h].status # "absent" \/ recov[h].phase # "none"
        /\ UNCHANGED <<slots, spawn, live, rebuild, child, entry>>
    BY <1>7 DEF WorkspaceMissing, RecoverStart, RecoverDone, RecoverRefused
  <2>2. \A o \in Handles : o # h =>
            rec'[o] = rec[o] /\ log'[o] = log[o] /\ recov'[o] = recov[o]
    BY <1>2, <1>7
       DEF WorkspaceMissing, RecoverStart, RecoverDone, RecoverRefused
  <2>3. ~Early(h)
    BY <1>1, <2>1 DEF RunInv, Unknown
  <2>4. Aside(h)
    BY <2>1, <2>2 DEF Aside
  <2>5. RunInv(h)'
    BY <1>1, <2>1, <2>3 DEF RunInv, Early, Active, Open, Cur
  <2> QED BY <2>4, <2>5, AsideKeeps
<1> QED
  BY <1>3, <1>4, <1>5, <1>6, <1>7 DEF Reopening

LEMMA OtherKeeps ==
  ASSUME SlotInv, TypeOK', [Next]_vars,
         ~ \E h \in Handles : Launching(h) \/ Calling(h) \/ Reopening(h),
         ~ \E i \in Inst : Turning(i)
  PROVE  SlotInv'
<1>1. TypeOK /\ \A h \in Handles : RunInv(h) /\ \A g \in Gens : <<h, g>> \in Inst
  BY RunByRun, Instances
<1> USE DEF registryVars, callVars, recordVars
<1>2. ASSUME NEW h \in Handles, UNCHANGED <<slots, live, rebuild, recov, child, entry>>,
             \A o \in Handles : o # h =>
               spawn'[o] = spawn[o] /\ rec'[o] = rec[o] /\ log'[o] = log[o],
             spawn'[h] = spawn[h] \/ (spawn[h] = "cleanup" /\ spawn'[h] = "done"),
             (rec'[h] = rec[h] /\ log'[h] = log[h]) \/ rec[h].status # "absent"
      PROVE  SlotInv'
  <2>1. Aside(h)
    BY <1>2 DEF Aside
  <2>2. RunInv(h)
    BY <1>1
  <2>3. RunInv(h)'
    BY <1>2, <2>2 DEF RunInv, Early, Unknown, Active, Open, Cur
  <2> QED BY <2>1, <2>3, AsideKeeps
<1>3. ASSUME NEW h \in Handles, ReleaseTree(h) PROVE SlotInv'
  BY <1>2, <1>3 DEF ReleaseTree
<1>4. ASSUME NEW h \in Handles, RecordRelease(h) PROVE SlotInv'
  <2>1. /\ UNCHANGED <<slots, live, rebuild, recov, child, entry>>
        /\ \A o \in Handles : o # h =>
             spawn'[o] = spawn[o] /\ rec'[o] = rec[o] /\ log'[o] = log[o]
        /\ spawn'[h] = spawn[h] \/ (spawn[h] = "cleanup" /\ spawn'[h] = "done")
        /\ (rec'[h] = rec[h] /\ log'[h] = log[h]) \/ rec[h].status # "absent"
    BY <1>1, <1>4 DEF RecordRelease, TypeOK
  <2> QED BY <1>2, <2>1
<1>5. ASSUME UNCHANGED <<slots, live, spawn, rebuild, recov, rec, log, child, entry>>
      PROVE  SlotInv'
  <2> SUFFICES ASSUME NEW h \in Handles PROVE RunInv(h)'
    BY RunByRun
  <2> QED
    BY <1>1, <1>5 DEF RunInv, Early, Unknown, Active, Open, Cur
<1>6. ASSUME NEW i \in Inst, ChildWrites(i) PROVE SlotInv'
  BY <1>5, <1>6 DEF ChildWrites
<1>7. CASE ParentAbort
  <2>1. foreground \in SUBSET Handles
    BY <1>1 DEF TypeOK
  <2> QED
    BY <1>7, <2>1, CancelKeeps DEF ParentAbort
<1>8. CASE Dispose
  <2> SUFFICES ASSUME NEW h \in Handles PROVE RunInv(h)'
    BY RunByRun
  <2>1. /\ slots' = {} /\ live'[h] = 0
        /\ UNCHANGED <<spawn, rebuild, rec, log, recov, entry>>
    BY <1>8 DEF Dispose
  <2>2. \A g \in Gens : /\ child'[<<h, g>>].run = child[<<h, g>>].run
                        /\ child'[<<h, g>>].input = child[<<h, g>>].input
                        /\ child[<<h, g>>].st # "none" => child'[<<h, g>>].st # "none"
    <3> SUFFICES ASSUME NEW g \in Gens
                 PROVE  /\ child'[<<h, g>>].run = child[<<h, g>>].run
                        /\ child'[<<h, g>>].input = child[<<h, g>>].input
                        /\ child[<<h, g>>].st # "none" => child'[<<h, g>>].st # "none"
      OBVIOUS
    <3> DEFINE c == child[<<h, g>>]
    <3>1. c \in Child /\ <<h, g>> \in Inst
      BY <1>1 DEF TypeOK
    <3>2. child'[<<h, g>>] = c \/ child'[<<h, g>>] = [c EXCEPT !.st = "closed"]
      BY <1>8, <3>1 DEF Dispose
    <3> QED
      BY <3>1, <3>2 DEF Child
  <2>3. \A g \in Gens : Active(<<h, g>>)' <=> Active(<<h, g>>)
    BY <2>2 DEF Active
  <2>4. RunInv(h) /\ rebuild[h] \subseteq Gens /\ 0 \notin Gens
    BY <1>1, Instances DEF Gens
  <2>5. (Early(h) => Unknown(h)') /\ (Early(h)' <=> Early(h))
    BY <2>1, <2>3, <2>4 DEF RunInv, Early, Unknown
  <2> QED
    BY <2>1, <2>2, <2>3, <2>4, <2>5 DEF RunInv
<1>9. CASE Restart
  <2> SUFFICES ASSUME NEW h \in Handles PROVE RunInv(h)'
    BY RunByRun
  <2>1. /\ slots' = {} /\ live'[h] = 0 /\ rebuild'[h] = {} /\ log' = log
        /\ recov'[h].phase = "none" /\ rec'[h] = Restored(log[h])
        /\ spawn'[h] = IF spawn[h] = "new" THEN "new" ELSE "done"
    BY <1>9 DEF Restart, NoRecovery
  <2>2. \A g \in Gens : ~Active(<<h, g>>)'
    BY <1>1, <1>9 DEF Restart, Active, NoChild
  <2>3. RunInv(h)
    BY <1>1
  <2>4. ASSUME Early(h)' PROVE Unknown(h)'
    <3>1. Early(h) /\ log[h].status = "absent"
      BY <2>1, <2>3, <2>4 DEF RunInv, Early, Unknown
    <3>2. rec'[h].status = "absent"
      BY <2>1, <3>1 DEF Restored
    <3> QED
      BY <2>1, <2>2, <3>1, <3>2 DEF Unknown
  <2> QED
    BY <2>1, <2>2, <2>4 DEF RunInv
<1>10. CASE UNCHANGED vars
  BY <1>5, <1>10 DEF vars
<1> QED
  BY <1>3, <1>4, <1>6, <1>7, <1>8, <1>9, <1>10 DEF Next, Releasing

LEMMA SlotStep == SlotInv /\ [Next]_vars => SlotInv'
<1> SUFFICES ASSUME SlotInv, [Next]_vars PROVE SlotInv'
  OBVIOUS
<1>1. TypeOK'
  BY StepTypes DEF SlotInv
<1>2. ASSUME NEW i \in Inst, Turning(i) PROVE SlotInv'
  BY <1>1, <1>2, TurningIsLocal, LocalKeeps DEF InUse
<1>3. ASSUME NEW h \in Handles, InterruptWithReason(h) PROVE SlotInv'
  BY <1>1, <1>3, CancelKeeps DEF InterruptWithReason, registryVars, callVars
<1>4. ASSUME NEW h \in Handles, Calling(h), ~InterruptWithReason(h) PROVE SlotInv'
  <2>1. Open(h) /\ Cur(h) \in Inst /\ Local(Cur(h)) /\ Cur(h)[1] = h
    BY <1>4, CallingIsLocal DEF Cur
  <2>2. InUse(Cur(h))
    BY <2>1 DEF InUse, Open
  <2> QED
    BY <1>1, <2>1, <2>2, LocalKeeps
<1> QED
  BY <1>1, <1>2, <1>3, <1>4, LaunchingKeeps, ReopeningKeeps, OtherKeeps

LEMMA SlotInit == Init => SlotInv
<1> SUFFICES ASSUME Init PROVE SlotInv
  OBVIOUS
<1>1. TypeOK
  BY InitTypes
<1>2. SUFFICES ASSUME NEW h \in Handles PROVE RunInv(h)
  BY <1>1, RunByRun
<1>3. \A g \in Gens : ~Active(<<h, g>>)
  BY DEF Init, Active, NoChild, Inst
<1> QED
  BY <1>3 DEF Init, RunInv, Unknown, NoRecord, NoRecovery

-----------------------------------------------------------------------------

\* Every path that takes a slot gives it back: refused, failed and orphaned
\* launches, refused and failed resumes, settlements, closes, dispose and
\* restart, in any order and for any number of runs.
THEOREM NoSlotEverLeaks == Spec => []NoSlotLeaked
<1>1. SlotInv => NoSlotLeaked
  BY DEF SlotInv
<1> QED
  BY <1>1, SlotInit, SlotStep, PTL DEF Spec
=============================================================================
