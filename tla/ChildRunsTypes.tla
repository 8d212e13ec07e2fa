--------------------------- MODULE ChildRunsTypes ---------------------------
(***************************************************************************)
(* Type correctness of ChildRuns: the records, entries and attempts that   *)
(* the handlers build from one another, and then every action.             *)
(***************************************************************************)
EXTENDS ChildRuns, TLAPS, SequenceTheorems

AttemptOutcomes == Outcomes \cup {"cancelled", "open"}
Statuses == Outcomes \cup {"absent", "created", "running", "closed"}
Workspaces == {"unset", "active", "released", "retained", "missing"}

-----------------------------------------------------------------------------
(* Attempts, entries and records. *)

\* Some update of the last attempt, when there is one.
LEMMA LastAttemptType ==
  ASSUME NEW atts \in Seq(Attempt), NEW a \in Attempt
  PROVE  [atts EXCEPT ![Len(atts)] = a] \in Seq(Attempt)
<1>1. CASE Len(atts) = 0
  <2>1. Len(atts) \notin DOMAIN atts
    BY <1>1, LenProperties
  <2>2. [atts EXCEPT ![Len(atts)] = a] = atts
    BY <2>1, LenProperties
  <2> QED BY <2>2
<1>2. CASE Len(atts) # 0
  <2>1. Len(atts) \in 1 .. Len(atts)
    BY <1>2, LenProperties
  <2> QED
    BY <2>1, ExceptSeq
<1> QED BY <1>1, <1>2

\* An empty list of attempts has no last one to update.
LEMMA NoLastAttempt ==
  ASSUME NEW atts \in Seq(Attempt), Len(atts) = 0, NEW a
  PROVE  [atts EXCEPT ![Len(atts)] = a] = atts
<1>1. Len(atts) \notin DOMAIN atts
  BY LenProperties
<1> QED BY <1>1, LenProperties

\* stampAttemptSettlement keeps a list of attempts.
LEMMA SetOutcomeType ==
  ASSUME NEW atts \in Seq(Attempt), NEW o \in AttemptOutcomes
  PROVE  SetOutcome(atts, o) \in Seq(Attempt)
<1>1. CASE Len(atts) = 0
  BY <1>1, NoLastAttempt DEF SetOutcome
<1>2. CASE Len(atts) # 0
  <2>1. atts[Len(atts)] \in Attempt
    BY <1>2, LenProperties, ElementOfSeq
  <2>2. [atts[Len(atts)] EXCEPT !.outcome = o] \in Attempt
    BY <2>1 DEF Attempt, AttemptOutcomes
  <2> QED
    BY <2>2, LastAttemptType DEF SetOutcome
<1> QED BY <1>1, <1>2

\* A resume turns a list of attempts into a longer one.
LEMMA EpochsType ==
  ASSUME NEW atts \in Seq(Attempt), NEW o \in AttemptOutcomes
  PROVE  Epochs(atts, o) \in Seq(Attempt)
<1> DEFINE close(a) == [outcome |-> IF a.outcome = "open" /\ ~a.ended
                                    THEN o ELSE a.outcome,
                        ended |-> TRUE]
<1>1. [atts EXCEPT ![Len(atts)] = close(@)] \in Seq(Attempt)
  <2>1. CASE Len(atts) = 0
    BY <2>1, NoLastAttempt
  <2>2. CASE Len(atts) # 0
    <3>1. atts[Len(atts)] \in Attempt
      BY <2>2, LenProperties, ElementOfSeq
    <3>2. close(atts[Len(atts)]) \in Attempt
      BY <3>1 DEF Attempt, AttemptOutcomes
    <3> QED
      BY <3>2, LastAttemptType
  <2> QED BY <2>1, <2>2
<1>2. NewAttempt \in Attempt
  BY DEF NewAttempt, Attempt
<1> QED
  BY <1>1, <1>2, AppendProperties DEF Epochs

LEMMA EntryFields ==
  ASSUME NEW e \in Entry
  PROVE  /\ e.attempts \in Seq(Attempt)
         /\ e.latest \in Outcomes \cup {"none"}
         /\ e.cancelled \in BOOLEAN /\ e.closed \in BOOLEAN
  BY DEF Entry

\* The changes the registry makes to an entry.
LEMMA EntryUpdates ==
  ASSUME NEW e \in Entry
  PROVE  /\ \A o \in Outcomes : [e EXCEPT !.latest = o] \in Entry
         /\ \A atts \in Seq(Attempt) : [e EXCEPT !.attempts = atts] \in Entry
         /\ \A o \in Outcomes, atts \in Seq(Attempt) :
              [e EXCEPT !.latest = o, !.attempts = atts] \in Entry
         /\ \A c \in BOOLEAN, atts \in Seq(Attempt) :
              [e EXCEPT !.cancelled = c, !.attempts = atts] \in Entry
         /\ \A c \in BOOLEAN, atts \in Seq(Attempt) :
              [e EXCEPT !.attempts = atts, !.cancelled = c] \in Entry
         /\ [e EXCEPT !.closed = TRUE] \in Entry
  BY DEF Entry

LEMMA RecordOfType ==
  ASSUME NEW e \in Entry, NEW status \in Statuses
  PROVE  RecordOf(e, status) \in Record
  BY EntryFields DEF RecordOf, Record, Statuses

LEMMA WorkspaceType ==
  ASSUME NEW r \in Record, NEW ws \in Workspaces
  PROVE  [r EXCEPT !.ws = ws] \in Record
  BY DEF Record, Workspaces

LEMMA NoRecordType ==
  /\ NoRecord \in Record
  /\ NoRecovery \in [phase : {"none", "shared", "stale"}, copy : Record]
<1>1. <<>> \in Seq(Attempt)
  BY EmptySeq
<1>2. NoRecord \in Record
  BY <1>1 DEF NoRecord, Record
<1> QED
  BY <1>2 DEF NoRecovery

LEMMA NoEntryType == NoEntry \in Entry
<1>1. <<>> \in Seq(Attempt)
  BY EmptySeq
<1> QED
  BY <1>1 DEF NoEntry, Entry

\* restore() turns records into records.
LEMMA RestoredType ==
  ASSUME NEW r \in Record
  PROVE  Restored(r) \in Record
<1> DEFINE last == r.attempts[Len(r.attempts)]
           stopped == [outcome |-> IF last.outcome = "open" THEN "interrupted"
                                                            ELSE last.outcome,
                       ended |-> TRUE]
           atts == [r.attempts EXCEPT ![Len(r.attempts)] = stopped]
<1>1. r.attempts \in Seq(Attempt)
  BY DEF Record
<1>2. atts \in Seq(Attempt)
  <2>1. CASE Len(r.attempts) = 0
    BY <1>1, <2>1, NoLastAttempt
  <2>2. CASE Len(r.attempts) # 0
    <3>1. last \in Attempt
      BY <1>1, <2>2, LenProperties, ElementOfSeq
    <3>2. stopped \in Attempt
      BY <3>1 DEF Attempt, Outcomes
    <3> QED
      BY <1>1, <3>2, LastAttemptType
  <2> QED BY <2>1, <2>2
<1>3. CASE r.status = "running"
  <2>1. Restored(r) = [r EXCEPT !.status = "interrupted", !.attempts = atts]
    BY <1>3 DEF Restored, Record
  <2> HIDE DEF atts
  <2> QED
    BY <1>2, <2>1 DEF Record, Outcomes
<1> QED
  BY <1>3 DEF Restored

-----------------------------------------------------------------------------
(* TypeOK in parts, one for each group of variables. *)

RegistryType ==
  /\ disposed \in BOOLEAN /\ slots \subseteq Handles
  /\ claims \in [Handles -> SUBSET Paths]
  /\ keys \in [Keys -> SUBSET Handles]
  /\ foreground \subseteq Handles
  /\ live \in [Handles -> 0 .. MaxBuilds]
TreesType ==
  /\ owner \in BOOLEAN
  /\ tracked \subseteq Handles /\ freed \subseteq Handles
  /\ freeing \in [Handles -> {"none", "running", "released", "retained",
                              "gone", "kept"}]
  /\ tree \in [Handles -> {"absent", "clean", "dirty"}]
CallsType ==
  /\ spawn \in [Handles -> {"new", "preparing", "building", "cleanup", "done"}]
  /\ rebuild \in [Handles -> SUBSET Gens]
  /\ aborted \subseteq Handles
RecordsType ==
  /\ rec \in [Handles -> Record] /\ log \in [Handles -> Record]
  /\ recov \in [Handles -> [phase : {"none", "shared", "stale"}, copy : Record]]
ChildType == child \in [Inst -> Child]
EntryType == entry \in [Inst -> Entry]
RestartsType == restarts \in 0 .. MaxRestarts

TypeInParts ==
  /\ RegistryType /\ TreesType /\ CallsType /\ RecordsType
  /\ ChildType /\ EntryType /\ RestartsType

LEMMA TypeParts == (TypeOK <=> TypeInParts) /\ (TypeOK' <=> TypeInParts')
  BY DEF TypeOK, TypeInParts, RegistryType, TreesType, CallsType, RecordsType,
         ChildType, EntryType, RestartsType

\* Parts a step leaves alone.
LEMMA Untouched ==
  /\ RegistryType /\ UNCHANGED registryVars => RegistryType'
  /\ TreesType /\ UNCHANGED treeVars => TreesType'
  /\ CallsType /\ UNCHANGED callVars => CallsType'
  /\ RecordsType /\ UNCHANGED recordVars => RecordsType'
  /\ ChildType /\ UNCHANGED child => ChildType'
  /\ EntryType /\ UNCHANGED entry => EntryType'
  /\ RestartsType /\ UNCHANGED restarts => RestartsType'
  BY DEF RegistryType, TreesType, CallsType, RecordsType, ChildType, EntryType,
         RestartsType, registryVars, treeVars, callVars, recordVars

LEMMA InitTypes == Init => TypeOK
<1> SUFFICES ASSUME Init PROVE TypeOK
  OBVIOUS
<1>1. RegistryType /\ TreesType /\ CallsType /\ RestartsType
  <2>1. 0 \in 0 .. MaxBuilds /\ 0 \in 0 .. MaxRestarts
    BY BoundsAssumption
  <2>2. RegistryType
    BY <2>1 DEF Init, RegistryType
  <2>3. TreesType
    BY DEF Init, TreesType
  <2>4. CallsType /\ RestartsType
    BY <2>1 DEF Init, CallsType, RestartsType
  <2> QED BY <2>2, <2>3, <2>4
<1>2. RecordsType
  <2>1. /\ rec = [h \in Handles |-> NoRecord] /\ log = [h \in Handles |-> NoRecord]
        /\ recov = [h \in Handles |-> NoRecovery]
    BY DEF Init
  <2> QED BY <2>1, NoRecordType DEF RecordsType
<1>3. ChildType
  BY DEF Init, ChildType, NoChild, Child
<1>4. EntryType
  BY NoEntryType DEF Init, EntryType
<1> QED
  BY <1>1, <1>2, <1>3, <1>4, TypeParts DEF TypeInParts

-----------------------------------------------------------------------------
(* The parts several handlers share. *)

LEMMA DetachType ==
  ASSUME RecordsType, NEW h \in Handles, Detach(h)
  PROVE  recov' \in [Handles -> [phase : {"none", "shared", "stale"},
                                 copy : Record]]
  BY DEF RecordsType, Detach

LEMMA SaveType ==
  ASSUME RecordsType, NEW h \in Handles, NEW e \in Entry,
         NEW status \in Statuses, Save(h, e, status)
  PROVE  RecordsType'
<1>1. RecordOf(e, status) \in Record
  BY RecordOfType
<1> QED
  BY <1>1, DetachType DEF Save, RecordsType

LEMMA InstParts ==
  ASSUME NEW i \in Inst
  PROVE  i[1] \in Handles /\ i[2] \in Gens
  BY DEF Inst

LEMMA CurType ==
  ASSUME RegistryType, NEW h \in Handles, Open(h)
  PROVE  Cur(h) \in Inst /\ live[h] \in Gens
  BY BoundsAssumption DEF RegistryType, Open, Cur, Inst, Gens

LEMMA ReportedType ==
  ASSUME ChildType, NEW i \in Inst
  PROVE  Reported(i) \in Outcomes
  BY DEF ChildType, Child, Reported, Outcomes

LEMMA EndedType ==
  ASSUME NEW st, NEW o \in TurnOutcomes
  PROVE  /\ Ended(st, o).st \in {"idle", "interrupted", "closed"}
         /\ Ended(st, o).last \in Outcomes
         /\ Ended(st, o).ok \in BOOLEAN
  BY DEF Ended, Outcomes

\* persistSettlement keeps slots, claims, entries and records in their types.
LEMMA SettleType ==
  ASSUME TypeOK, NEW i \in Inst, NEW out \in Outcomes, NEW giveBack \in BOOLEAN,
         Settle(i, out, giveBack)
  PROVE  /\ slots' \subseteq Handles /\ claims' \in [Handles -> SUBSET Paths]
         /\ EntryType' /\ RecordsType'
<1> DEFINE e == entry[i]
           stamp == IF out = "interrupted" /\ e.cancelled THEN "cancelled" ELSE out
           done == [e EXCEPT !.latest = out, !.attempts = SetOutcome(@, stamp)]
<1>1. /\ RegistryType /\ EntryType /\ RecordsType
      /\ e \in Entry /\ i[1] \in Handles /\ stamp \in AttemptOutcomes
  BY TypeParts, InstParts DEF TypeInParts, EntryType, AttemptOutcomes
<1>2. SetOutcome(e.attempts, stamp) \in Seq(Attempt)
  BY <1>1, EntryFields, SetOutcomeType
<1>3. done = [e EXCEPT !.latest = out, !.attempts = SetOutcome(e.attempts, stamp)]
  BY <1>1 DEF Entry
<1>4. done \in Entry
  BY <1>1, <1>2, <1>3, EntryUpdates
<1>5. slots' \subseteq Handles /\ claims' \in [Handles -> SUBSET Paths]
  BY <1>1 DEF Settle, RegistryType
<1>6. CASE e.closed
  <2>1. entry' = [entry EXCEPT ![i].latest = out] /\ UNCHANGED recordVars
    BY <1>6 DEF Settle
  <2>2. [e EXCEPT !.latest = out] \in Entry
    BY <1>1, EntryUpdates
  <2>3. EntryType'
    BY <1>1, <2>1, <2>2 DEF EntryType
  <2> QED
    BY <1>1, <1>5, <2>1, <2>3, Untouched
<1>7. CASE ~e.closed
  <2>1. entry' = [entry EXCEPT ![i] = done] /\ Save(i[1], done, out)
    BY <1>7 DEF Settle
  <2>2. out \in Statuses
    BY DEF Statuses
  <2>3. EntryType'
    BY <1>1, <1>4, <2>1 DEF EntryType
  <2> QED
    BY <1>1, <1>4, <1>5, <2>1, <2>2, <2>3, SaveType
<1> QED
  BY <1>6, <1>7

LEMMA ReleaseOnceType ==
  ASSUME TreesType, NEW H \in SUBSET Handles, ReleaseOnce(H)
  PROVE  TreesType'
  BY DEF ReleaseOnce, TreesType

LEMMA LaunchFailsType ==
  ASSUME TypeOK, NEW h \in Handles, LaunchFails(h)
  PROVE  /\ TreesType' /\ slots' \subseteq Handles
         /\ claims' \in [Handles -> SUBSET Paths]
         /\ spawn' \in [Handles -> {"new", "preparing", "building", "cleanup", "done"}]
<1>1. RegistryType /\ TreesType /\ CallsType
  BY TypeParts DEF TypeInParts
<1>2. TreesType'
  <2>1. ReleaseOnce({h})
    BY DEF LaunchFails
  <2> QED
    BY <1>1, <2>1, ReleaseOnceType
<1> QED
  BY <1>1, <1>2 DEF LaunchFails, RegistryType, CallsType

LEMMA CancelType ==
  ASSUME TypeOK, NEW H \in SUBSET Handles, Cancel(H)
  PROVE  ChildType' /\ EntryType' /\ RecordsType'
<1> DEFINE cancel(i) == [entry[i] EXCEPT !.cancelled = TRUE,
                                         !.attempts = SetOutcome(@, "cancelled")]
           hit(i) == i[1] \in H /\ i = Cur(i[1]) /\ Open(i[1])
           saved(h) == IF h \in H /\ Open(h)
                       THEN RecordOf(cancel(Cur(h)), "interrupted") ELSE rec[h]
<1>1. RegistryType /\ ChildType /\ EntryType /\ RecordsType
  BY TypeParts DEF TypeInParts
<1>2. ASSUME NEW i \in Inst PROVE cancel(i) \in Entry
  <2>1. entry[i] \in Entry
    BY <1>1 DEF EntryType
  <2>2. SetOutcome(entry[i].attempts, "cancelled") \in Seq(Attempt)
    BY <2>1, EntryFields, SetOutcomeType DEF AttemptOutcomes
  <2>3. cancel(i) = [entry[i] EXCEPT !.cancelled = TRUE,
                       !.attempts = SetOutcome(entry[i].attempts, "cancelled")]
    BY <2>1 DEF Entry
  <2> QED
    BY <2>1, <2>2, <2>3, EntryUpdates
<1>3. ASSUME NEW h \in Handles PROVE saved(h) \in Record
  <2>1. CASE h \in H /\ Open(h)
    <3>1. cancel(Cur(h)) \in Entry
      BY <1>1, <1>2, <2>1, CurType
    <3>2. "interrupted" \in Statuses
      BY DEF Statuses, Outcomes
    <3> HIDE DEF cancel
    <3> QED
      BY <2>1, <3>1, <3>2, RecordOfType
  <2>2. CASE ~(h \in H /\ Open(h))
    BY <1>1, <2>2 DEF RecordsType
  <2> QED BY <2>1, <2>2
<1>4. ChildType'
  <2>1. child' = [i \in Inst |-> IF hit(i) /\ child[i].st = "running"
                                 THEN [child[i] EXCEPT !.st = "interrupted"]
                                 ELSE child[i]]
    BY DEF Cancel
  <2> HIDE DEF hit
  <2> QED BY <1>1, <2>1 DEF ChildType, Child
<1>5. EntryType'
  <2>1. entry' = [i \in Inst |-> IF hit(i) THEN cancel(i) ELSE entry[i]]
    BY DEF Cancel
  <2> HIDE DEF hit, cancel
  <2> QED BY <1>1, <1>2, <2>1 DEF EntryType
<1>6. RecordsType'
  <2>1. /\ rec' = [h \in Handles |-> saved(h)]
        /\ log' = [h \in Handles |-> IF h \in H /\ Open(h) THEN saved(h) ELSE log[h]]
        /\ recov' = [h \in Handles |->
              IF h \in H /\ Open(h) /\ recov[h].phase = "shared"
              THEN [phase |-> "stale", copy |-> rec[h]] ELSE recov[h]]
    BY DEF Cancel
  <2> HIDE DEF saved
  <2> QED BY <1>1, <1>3, <2>1 DEF RecordsType
<1> QED
  BY <1>4, <1>5, <1>6

-----------------------------------------------------------------------------
(* Launches. *)

LEMMA LaunchingTypes ==
  ASSUME TypeOK, NEW h \in Handles, Launching(h)
  PROVE  TypeOK'
<1>0. /\ RegistryType /\ TreesType /\ CallsType /\ RecordsType
      /\ ChildType /\ EntryType /\ RestartsType
  BY TypeParts DEF TypeInParts
<1> USE DEF registryVars, treeVars, callVars, recordVars
<1>1. CASE Spawn(h)
  <2>1. RegistryType' /\ TreesType' /\ CallsType'
    BY <1>0, <1>1, SetsAssumption DEF Spawn, RegistryType, TreesType, CallsType
  <2> QED
    BY <1>0, <1>1, <2>1, Untouched, TypeParts DEF TypeInParts, Spawn
<1>2. CASE SpawnOverLimit(h)
  <2>1. RegistryType' /\ TreesType' /\ CallsType'
    BY <1>0, <1>2, SetsAssumption
       DEF SpawnOverLimit, RegistryType, TreesType, CallsType
  <2> QED
    BY <1>0, <1>2, <2>1, Untouched, TypeParts DEF TypeInParts, SpawnOverLimit
<1>3. CASE PrepareDone(h)
  <2>1. TreesType' /\ CallsType'
    BY <1>0, <1>3 DEF PrepareDone, TreesType, CallsType
  <2> QED
    BY <1>0, <1>3, <2>1, Untouched, TypeParts DEF TypeInParts, PrepareDone
<1>4. CASE LaunchRejected(h) \/ LaunchOrphaned(h)
  <2>1. LaunchFails(h)
    BY <1>4 DEF LaunchRejected, LaunchOrphaned
  <2>2. RegistryType' /\ TreesType' /\ CallsType'
    BY <1>0, <1>4, <2>1, LaunchFailsType
       DEF LaunchRejected, LaunchOrphaned, RegistryType, CallsType
  <2> QED
    BY <1>0, <1>4, <2>2, Untouched, TypeParts DEF TypeInParts, LaunchRejected, LaunchOrphaned
<1>5. CASE Launched(h)
  <2> DEFINE hit == h \in aborted
             first == [outcome |-> IF hit THEN "cancelled" ELSE "open",
                       ended |-> FALSE]
             e == [NoEntry EXCEPT !.attempts = <<first>>, !.cancelled = hit]
             status == IF hit THEN "interrupted" ELSE "created"
  <2>1. <<h, 1>> \in Inst /\ 1 \in 0 .. MaxBuilds
    BY BoundsAssumption DEF Inst, Gens
  <2>2. e \in Entry
    <3>1. first \in Attempt
      BY DEF Attempt
    <3>2. <<first>> \in Seq(Attempt)
      BY <3>1
    <3>3. hit \in BOOLEAN
      OBVIOUS
    <3> HIDE DEF first, hit
    <3> QED BY <3>2, <3>3, NoEntryType, EntryUpdates
  <2>3. Save(h, e, status) /\ status \in Statuses
    BY <1>5 DEF Launched, Statuses, Outcomes
  <2>4. RecordsType'
    BY <1>0, <2>2, <2>3, SaveType
  <2>5. EntryType'
    BY <1>0, <1>5, <2>1, <2>2 DEF Launched, EntryType
  <2>6. ChildType'
    BY <1>0, <1>5, <2>1 DEF Launched, ChildType, Child, NoChild
  <2>7. RegistryType' /\ CallsType'
    BY <1>0, <1>5, <2>1 DEF Launched, RegistryType, CallsType
  <2> QED
    BY <1>0, <1>5, <2>4, <2>5, <2>6, <2>7, Untouched, TypeParts DEF TypeInParts, Launched
<1> QED
  BY <1>1, <1>2, <1>3, <1>4, <1>5 DEF Launching

-----------------------------------------------------------------------------
(* Turns. *)

\* What a step of a child session's chain leaves to show: its session is well
\* formed, and it either left the holds and records alone or settled.
LEMMA ChainTypes ==
  ASSUME TypeOK, ChildType', NEW i \in Inst, NEW out \in Outcomes,
         NEW giveBack \in BOOLEAN,
         \/ UNCHANGED <<slots, claims, entry, recordVars>>
         \/ Settle(i, out, giveBack),
         foreground' \subseteq foreground,
         UNCHANGED <<disposed, keys, live, treeVars, callVars, restarts>>
  PROVE  TypeOK'
<1>0. /\ RegistryType /\ TreesType /\ CallsType /\ RecordsType
      /\ ChildType /\ EntryType /\ RestartsType
  BY TypeParts DEF TypeInParts
<1>1. /\ slots' \subseteq Handles /\ claims' \in [Handles -> SUBSET Paths]
      /\ EntryType' /\ RecordsType'
  BY <1>0, SettleType, Untouched DEF RegistryType
<1>2. RegistryType'
  BY <1>0, <1>1 DEF RegistryType
<1>3. TreesType' /\ CallsType' /\ RestartsType'
  BY <1>0, Untouched
<1> QED
  BY <1>1, <1>2, <1>3, TypeParts DEF TypeInParts

LEMMA TurningTypes ==
  ASSUME TypeOK, NEW i \in Inst, Turning(i)
  PROVE  TypeOK'
<1>0. ChildType /\ child[i] \in Child /\ Reported(i) \in Outcomes
      /\ foreground \ {i[1]} \subseteq foreground /\ "failed" \in Outcomes
  BY TypeParts, ReportedType DEF TypeInParts, ChildType, Outcomes
<1>1. ASSUME NEW o \in TurnOutcomes, RunTurnEnds(i, o) PROVE TypeOK'
  <2> DEFINE r == Ended(child[i].st, o)
  <2>1. /\ r.st \in {"idle", "interrupted", "closed"}
        /\ r.last \in Outcomes /\ r.ok \in BOOLEAN
    BY EndedType
  <2> HIDE DEF r
  <2>2. ChildType'
    BY <1>0, <1>1, <2>1 DEF RunTurnEnds, ChildType, Child, r
  <2>3. UNCHANGED <<slots, claims, entry, recordVars>> \/ Settle(i, r.last, FALSE)
    BY <1>1 DEF RunTurnEnds, r
  <2>4. /\ foreground' \subseteq foreground
        /\ UNCHANGED <<disposed, keys, live, treeVars, callVars, restarts>>
    BY <1>1 DEF RunTurnEnds
  <2> QED
    BY <2>1, <2>2, <2>3, <2>4, ChainTypes
<1>2. ASSUME NEW o \in TurnOutcomes, InputTurnEnds(i, o) PROVE TypeOK'
  <2> DEFINE r == Ended(child[i].st, o)
             back == child[i].reattach /\ ~r.ok
  <2>1. /\ r.st \in {"idle", "interrupted", "closed"}
        /\ r.last \in Outcomes /\ r.ok \in BOOLEAN
    BY EndedType
  <2> HIDE DEF r
  <2>2. ChildType'
    BY <1>0, <1>2, <2>1 DEF InputTurnEnds, ChildType, Child, r
  <2>3. UNCHANGED <<slots, claims, entry, recordVars>> \/ Settle(i, r.last, back)
    BY <1>2 DEF InputTurnEnds, r
  <2>4. /\ foreground' \subseteq foreground /\ back \in BOOLEAN
        /\ UNCHANGED <<disposed, keys, live, treeVars, callVars, restarts>>
    BY <1>2 DEF InputTurnEnds
  <2> QED
    BY <2>1, <2>2, <2>3, <2>4, ChainTypes
<1>3. ASSUME NEW pass \in BOOLEAN, RunVerified(i, pass) PROVE TypeOK'
  <2>1. ChildType'
    BY <1>0, <1>3 DEF RunVerified, ChildType, Child, Outcomes
  <2>2. /\ UNCHANGED <<slots, claims, entry, recordVars>> \/ Settle(i, "failed", FALSE)
        /\ foreground' \subseteq foreground
        /\ UNCHANGED <<disposed, keys, live, treeVars, callVars, restarts>>
    BY <1>0, <1>3 DEF RunVerified
  <2> QED
    BY <1>0, <2>1, <2>2, ChainTypes
<1>4. ASSUME NEW pass \in BOOLEAN, RunRechecked(i, pass) PROVE TypeOK'
  <2> DEFINE out == IF pass THEN Reported(i) ELSE "failed"
  <2>1. ChildType'
    BY <1>0, <1>4 DEF RunRechecked, ChildType, Child, Outcomes
  <2>2. /\ Settle(i, out, FALSE) /\ out \in Outcomes
        /\ foreground' \subseteq foreground
        /\ UNCHANGED <<disposed, keys, live, treeVars, callVars, restarts>>
    BY <1>0, <1>4 DEF RunRechecked
  <2> QED
    BY <2>1, <2>2, ChainTypes
<1>5. ASSUME NEW pass \in BOOLEAN, InputVerified(i, pass) PROVE TypeOK'
  <2> DEFINE out == IF pass THEN Reported(i) ELSE "failed"
             back == child[i].reattach /\ ~pass
  <2>1. ChildType'
    BY <1>0, <1>5 DEF InputVerified, ChildType, Child, Outcomes
  <2>2. /\ Settle(i, out, back) /\ out \in Outcomes /\ back \in BOOLEAN
        /\ foreground' \subseteq foreground
        /\ UNCHANGED <<disposed, keys, live, treeVars, callVars, restarts>>
    BY <1>0, <1>5 DEF InputVerified
  <2> QED
    BY <2>1, <2>2, ChainTypes
<1>6. CASE RunExpires(i)
  <2>1. ChildType'
    BY <1>0, <1>6 DEF RunExpires, ChildType, Child, Outcomes
  <2>2. /\ Settle(i, "failed", FALSE) /\ foreground' \subseteq foreground
        /\ UNCHANGED <<disposed, keys, live, treeVars, callVars, restarts>>
    BY <1>0, <1>6 DEF RunExpires
  <2> QED
    BY <1>0, <2>1, <2>2, ChainTypes
<1> QED
  BY <1>1, <1>2, <1>3, <1>4, <1>5, <1>6 DEF Turning

-----------------------------------------------------------------------------
(* Callers. *)

LEMMA StartInputType ==
  ASSUME NEW c \in Child
  PROVE  StartInput(c) \in Child /\ [StartInput(c) EXCEPT !.reattach = TRUE] \in Child
  BY DEF StartInput, Child

LEMMA CallingTypes ==
  ASSUME TypeOK, NEW h \in Handles, Calling(h)
  PROVE  TypeOK'
<1>0. TypeInParts
  BY TypeParts
<1> USE DEF TypeInParts, registryVars, treeVars, callVars, recordVars
<1> DEFINE i == Cur(h)
<1>1. ASSUME Open(h) PROVE i \in Inst /\ child[i] \in Child /\ entry[i] \in Entry
  BY <1>0, <1>1, CurType DEF ChildType, EntryType
<1> HIDE DEF i
<1>2. CASE SendInput(h)
  <2>1. i \in Inst /\ child[i] \in Child /\ child' = [child EXCEPT ![i] = StartInput(@)]
    BY <1>1, <1>2 DEF SendInput, i
  <2>2. ChildType'
    BY <1>0, <2>1, StartInputType DEF ChildType
  <2> QED
    BY <1>0, <1>2, <2>2, Untouched, TypeParts DEF SendInput
<1>3. CASE QueueInput(h)
  <2>1. i \in Inst /\ Settle(i, Reported(i), FALSE)
    BY <1>1, <1>3 DEF QueueInput, i
  <2>2. Reported(i) \in Outcomes
    BY <1>0, <2>1, ReportedType
  <2>3. ChildType'
    BY <1>0, <1>3 DEF QueueInput, ChildType
  <2> QED
    BY <1>3, <2>1, <2>2, <2>3, ChainTypes DEF QueueInput
<1>4. CASE Wait(h)
  <2>1. entry[i] \in Entry /\ "running" \in Statuses /\ Save(h, entry[i], "running")
    BY <1>1, <1>4 DEF Wait, i, Statuses
  <2>2. RecordsType'
    BY <1>0, <2>1, SaveType
  <2> QED
    BY <1>0, <1>4, <2>2, Untouched, TypeParts DEF Wait
<1>5. CASE Interrupt(h)
  <2>1. i \in Inst /\ child' = [child EXCEPT ![i].st = "interrupted"]
    BY <1>1, <1>5 DEF Interrupt, i
  <2>2. ChildType'
    BY <1>0, <2>1 DEF ChildType, Child
  <2> QED
    BY <1>0, <1>5, <2>2, Untouched, TypeParts DEF Interrupt
<1>6. CASE InterruptWithReason(h)
  <2>1. ChildType' /\ EntryType' /\ RecordsType'
    BY <1>6, CancelType DEF InterruptWithReason
  <2> QED
    BY <1>0, <1>6, <2>1, Untouched, TypeParts DEF InterruptWithReason
<1>7. CASE ResumeLive(h)
  <2> DEFINE outcome == IF entry[i].latest = "none" THEN "open" ELSE entry[i].latest
  <2>1. /\ i \in Inst /\ child[i] \in Child /\ entry[i] \in Entry
        /\ entry' = [entry EXCEPT ![i].attempts = Epochs(@, outcome)]
        /\ child' = [child EXCEPT ![i] = IF InFlight(i) THEN @ ELSE StartInput(@)]
    BY <1>1, <1>7 DEF ResumeLive, i
  <2>2. entry[i].attempts \in Seq(Attempt) /\ outcome \in AttemptOutcomes
    BY <2>1, EntryFields DEF AttemptOutcomes
  <2> HIDE DEF outcome
  <2>3. [entry[i] EXCEPT !.attempts = Epochs(entry[i].attempts, outcome)] \in Entry
    BY <2>1, <2>2, EpochsType, EntryUpdates
  <2>4. EntryType'
    BY <1>0, <2>1, <2>3 DEF EntryType
  <2>5. ChildType'
    BY <1>0, <2>1, StartInputType DEF ChildType
  <2> QED
    BY <1>0, <1>7, <2>4, <2>5, Untouched, TypeParts DEF ResumeLive
<1>8. CASE Close(h)
  <2> DEFINE e == [entry[i] EXCEPT !.closed = TRUE]
  <2>1. /\ i \in Inst /\ e \in Entry /\ "closed" \in Statuses
        /\ entry' = [entry EXCEPT ![i] = e] /\ Save(h, e, "closed")
        /\ child' = [child EXCEPT ![i].st = "closed"]
    BY <1>1, <1>8, EntryUpdates DEF Close, i, Statuses
  <2> HIDE DEF e
  <2>2. EntryType' /\ RecordsType'
    BY <1>0, <2>1, SaveType DEF EntryType
  <2>3. ChildType'
    BY <1>0, <2>1 DEF ChildType, Child
  <2>4. TreesType'
    BY <1>0, <1>8, ReleaseOnceType DEF Close
  <2>5. RegistryType'
    BY <1>0, <1>8 DEF Close, RegistryType
  <2> QED
    BY <1>0, <1>8, <2>2, <2>3, <2>4, <2>5, Untouched, TypeParts DEF Close
<1> QED
  BY <1>2, <1>3, <1>4, <1>5, <1>6, <1>7, <1>8 DEF Calling

-----------------------------------------------------------------------------
(* Resumes and recoveries. *)

LEMMA StatusOutcomeType ==
  ASSUME NEW r
  PROVE  StatusOutcome(r) \in AttemptOutcomes
  BY DEF StatusOutcome, AttemptOutcomes, Outcomes

LEMMA ReopeningTypes ==
  ASSUME TypeOK, NEW h \in Handles, Reopening(h)
  PROVE  TypeOK'
<1>0. TypeInParts
  BY TypeParts
<1> USE DEF TypeInParts, registryVars, treeVars, callVars, recordVars
<1>1. rec[h] \in Record /\ rec[h].attempts \in Seq(Attempt)
  BY <1>0 DEF RecordsType, Record
<1>2. ASSUME NEW g \in Gens, ResumeHistorical(h, g) PROVE TypeOK'
  <2> DEFINE atts == Epochs(rec[h].attempts, StatusOutcome(rec[h]))
             e == [NoEntry EXCEPT !.attempts = atts]
  <2>1. atts \in Seq(Attempt)
    BY <1>1, StatusOutcomeType, EpochsType
  <2>2. <<h, g>> \in Inst /\ entry' = [entry EXCEPT ![<<h, g>>] = e]
    BY <1>2 DEF ResumeHistorical, Inst
  <2> HIDE DEF atts
  <2>3. EntryType'
    BY <1>0, <2>1, <2>2, NoEntryType, EntryUpdates DEF EntryType
  <2>4. RegistryType' /\ CallsType'
    BY <1>0, <1>2, SetsAssumption DEF ResumeHistorical, RegistryType, CallsType
  <2> QED
    BY <1>0, <1>2, <2>3, <2>4, Untouched, TypeParts DEF ResumeHistorical
<1>3. ASSUME NEW g \in Gens, ResumeRejected(h, g) PROVE TypeOK'
  <2>1. EntryType' /\ RegistryType' /\ CallsType'
    BY <1>0, <1>3, NoEntryType
       DEF ResumeRejected, EntryType, RegistryType, CallsType
  <2> QED
    BY <1>0, <1>3, <2>1, Untouched, TypeParts DEF ResumeRejected
<1>4. ASSUME NEW g \in Gens, Resumed(h, g) PROVE TypeOK'
  <2>1. <<h, g>> \in Inst /\ g \in 0 .. MaxBuilds
    BY BoundsAssumption DEF Inst, Gens
  <2>2. NoChild \in Child
    BY DEF NoChild, Child
  <2>3. ChildType'
    BY <1>0, <1>4, <2>1, <2>2, StartInputType DEF Resumed, ChildType
  <2>4. entry[<<h, g>>] \in Entry /\ "running" \in Statuses
    BY <1>0, <2>1 DEF EntryType, Statuses
  <2>5. RecordsType'
    BY <1>0, <1>4, <2>4, SaveType DEF Resumed
  <2>6. RegistryType' /\ CallsType'
    BY <1>0, <1>4, <2>1 DEF Resumed, RegistryType, CallsType
  <2> QED
    BY <1>0, <1>4, <2>3, <2>5, <2>6, Untouched, TypeParts DEF Resumed
<1>5. CASE ResumeOverLimit(h)
  <2>1. RegistryType'
    BY <1>0, <1>5 DEF ResumeOverLimit, RegistryType
  <2> QED
    BY <1>0, <1>5, <2>1, Untouched, TypeParts DEF ResumeOverLimit
<1>6. CASE WorkspaceMissing(h)
  <2>1. [rec[h] EXCEPT !.ws = "missing"] \in Record
    BY <1>1, WorkspaceType DEF Workspaces
  <2>2. RecordsType'
    BY <1>0, <1>6, <2>1 DEF WorkspaceMissing, RecordsType
  <2> QED
    BY <1>0, <1>6, <2>2, Untouched, TypeParts DEF WorkspaceMissing
<1>7. CASE RecoverStart(h) \/ RecoverRefused(h)
  <2>1. RecordsType'
    BY <1>0, <1>7, NoRecordType DEF RecoverStart, RecoverRefused, RecordsType
  <2> QED
    BY <1>0, <1>7, <2>1, Untouched, TypeParts DEF RecoverStart, RecoverRefused
<1>8. CASE RecoverDone(h)
  <2> DEFINE old == IF recov[h].phase = "shared" THEN rec[h] ELSE recov[h].copy
             new == [old EXCEPT !.ws = "active"]
  <2>1. new \in Record
    <3>1. old \in Record
      BY <1>0, <1>1 DEF RecordsType
    <3> QED BY <3>1, WorkspaceType DEF Workspaces
  <2>2. /\ rec' = IF recov[h].phase = "shared" THEN [rec EXCEPT ![h] = new] ELSE rec
        /\ log' = [log EXCEPT ![h] = new]
        /\ recov' = [recov EXCEPT ![h] = NoRecovery]
    BY <1>8 DEF RecoverDone
  <2> HIDE DEF new
  <2>3. RecordsType'
    BY <1>0, <2>1, <2>2, NoRecordType DEF RecordsType
  <2> QED
    BY <1>0, <1>8, <2>3, Untouched, TypeParts DEF RecoverDone
<1> QED
  BY <1>2, <1>3, <1>4, <1>5, <1>6, <1>7, <1>8 DEF Reopening

-----------------------------------------------------------------------------
(* Worktrees, the parent, the process. *)

LEMMA ReleasingTypes ==
  ASSUME TypeOK, NEW h \in Handles, Releasing(h)
  PROVE  TypeOK'
<1>0. TypeInParts
  BY TypeParts
<1> USE DEF TypeInParts, registryVars, treeVars, callVars, recordVars
<1>1. CASE ReleaseTree(h)
  <2>1. TreesType'
    BY <1>0, <1>1 DEF ReleaseTree, TreesType
  <2> QED
    BY <1>0, <1>1, <2>1, Untouched, TypeParts DEF ReleaseTree
<1>2. CASE RecordRelease(h)
  <2>1. freeing[h] \in Workspaces /\ rec[h] \in Record
    BY <1>0, <1>2 DEF RecordRelease, Workspaces, RecordsType
  <2>2. [rec[h] EXCEPT !.ws = freeing[h]] \in Record
    BY <2>1, WorkspaceType
  <2>3. RecordsType'
    BY <1>0, <1>2, <2>2 DEF RecordRelease, RecordsType
  <2>4. TreesType' /\ CallsType' /\ RegistryType'
    BY <1>0, <1>2 DEF RecordRelease, TreesType, CallsType, RegistryType
  <2> QED
    BY <1>0, <1>2, <2>3, <2>4, Untouched, TypeParts DEF RecordRelease
<1> QED
  BY <1>1, <1>2 DEF Releasing

LEMMA RestartTypes ==
  ASSUME TypeOK, Restart
  PROVE  TypeOK'
<1>0. TypeInParts
  BY TypeParts
<1> USE DEF TypeInParts
<1>1. RegistryType'
  <2>1. 0 \in 0 .. MaxBuilds
    BY BoundsAssumption
  <2> QED
    BY <1>0, <2>1 DEF Restart, RegistryType
<1>2. TreesType' /\ CallsType'
  BY <1>0 DEF Restart, TreesType, CallsType
<1>3. RecordsType'
  <2>1. \A h \in Handles : Restored(log[h]) \in Record
    BY <1>0, RestoredType DEF RecordsType
  <2> QED
    BY <1>0, <2>1, NoRecordType DEF Restart, RecordsType
<1>4. ChildType'
  BY DEF Restart, ChildType, NoChild, Child
<1>5. EntryType'
  BY NoEntryType DEF Restart, EntryType
<1>6. RestartsType'
  BY <1>0, BoundsAssumption DEF Restart, RestartsType
<1> QED
  BY <1>1, <1>2, <1>3, <1>4, <1>5, <1>6, TypeParts

LEMMA StepTypes == TypeOK /\ [Next]_vars => TypeOK'
<1> SUFFICES ASSUME TypeOK, [Next]_vars PROVE TypeOK'
  OBVIOUS
<1>0. TypeInParts
  BY TypeParts
<1> USE DEF TypeInParts, registryVars, treeVars, callVars, recordVars
<1>1. ASSUME NEW i \in Inst, ChildWrites(i) PROVE TypeOK'
  <2>1. TreesType'
    BY <1>0, <1>1 DEF ChildWrites, TreesType
  <2> QED
    BY <1>0, <1>1, <2>1, Untouched, TypeParts DEF ChildWrites
<1>2. CASE ParentAbort
  <2>1. foreground \in SUBSET Handles /\ Cancel(foreground)
    BY <1>0, <1>2 DEF ParentAbort, RegistryType
  <2>2. ChildType' /\ EntryType' /\ RecordsType'
    BY <2>1, CancelType
  <2>3. CallsType'
    BY <1>0, <1>2, SetsAssumption DEF ParentAbort, CallsType
  <2> QED
    BY <1>0, <1>2, <2>2, <2>3, Untouched, TypeParts DEF ParentAbort
<1>3. CASE Dispose
  <2>1. TreesType'
    BY <1>0, <1>3, ReleaseOnceType DEF Dispose, TreesType
  <2>2. RegistryType'
    <3>1. 0 \in 0 .. MaxBuilds
      BY BoundsAssumption
    <3> QED
      BY <1>0, <1>3, <3>1 DEF Dispose, RegistryType
  <2>3. ChildType'
    BY <1>0, <1>3 DEF Dispose, ChildType, Child
  <2> QED
    BY <1>0, <1>3, <2>1, <2>2, <2>3, Untouched, TypeParts DEF Dispose
<1>4. CASE UNCHANGED vars
  <2>1. /\ UNCHANGED <<registryVars, treeVars, callVars, recordVars>>
        /\ UNCHANGED <<child, entry, restarts>>
    BY <1>4 DEF vars
  <2> QED
    BY <1>0, <2>1, Untouched, TypeParts
<1> QED
  BY <1>1, <1>2, <1>3, <1>4, LaunchingTypes, TurningTypes, CallingTypes,
     ReopeningTypes, ReleasingTypes, RestartTypes
     DEF Next

-----------------------------------------------------------------------------

\* Every record, entry, attempt and session the handlers build from one
\* another is well formed, through every crash and resume.
THEOREM RegistryTypes == Spec => []TypeOK
  BY InitTypes, StepTypes, PTL DEF Spec
=============================================================================
