-------------------------- MODULE ChildRunsRecords --------------------------
(***************************************************************************)
(* What the session file tells about child runs: attempts, closed runs,    *)
(* running runs and dedupe keys, through every save, crash and resume.     *)
(***************************************************************************)
EXTENDS ChildRunsSlots

-----------------------------------------------------------------------------
(* Lists of attempts. *)

\* Only the last attempt of a list may be open.
Tidy(atts) == \A n \in 1 .. Len(atts) : n < Len(atts) => atts[n].ended

\* The last attempt of a list is still open.
GoesOn(atts) == \A n \in 1 .. Len(atts) : n = Len(atts) => ~atts[n].ended

\* What ended in one list stands unchanged in the other.
Extends(old, new) ==
  \A n \in 1 .. Len(old) : old[n].ended => n <= Len(new) /\ new[n] = old[n]

\* stampAttemptSettlement touches the outcome of the last attempt only.
LEMMA SetOutcomeFacts ==
  ASSUME NEW atts \in Seq(Attempt), NEW o \in AttemptOutcomes
  PROVE  LET new == SetOutcome(atts, o) IN
         /\ new \in Seq(Attempt) /\ Len(new) = Len(atts)
         /\ \A n \in 1 .. Len(atts) : n # Len(atts) => new[n] = atts[n]
         /\ \A n \in 1 .. Len(atts) : new[n].ended = atts[n].ended
<1> DEFINE new == SetOutcome(atts, o)
<1>1. new \in Seq(Attempt) /\ DOMAIN new = DOMAIN atts /\ Len(atts) \in Nat
  BY SetOutcomeType, LenProperties DEF SetOutcome
<1>2. Len(new) = Len(atts)
  BY <1>1, LenProperties
<1>3. \A n \in 1 .. Len(atts) : atts[n] \in Attempt
  BY ElementOfSeq
<1>4. \A n \in 1 .. Len(atts) : n # Len(atts) => new[n] = atts[n]
  BY LenProperties DEF SetOutcome
<1>5. ASSUME NEW n \in 1 .. Len(atts), n = Len(atts)
      PROVE  new[n].ended = atts[n].ended
  <2>1. new[n] = [atts[n] EXCEPT !.outcome = o]
    BY <1>5, LenProperties DEF SetOutcome
  <2> QED BY <1>3, <2>1 DEF Attempt
<1> QED
  BY <1>1, <1>2, <1>4, <1>5

\* A resume closes the last attempt, keeps those that ended, and opens one.
LEMMA EpochsFacts ==
  ASSUME NEW atts \in Seq(Attempt), NEW o \in AttemptOutcomes
  PROVE  LET new == Epochs(atts, o) IN
         /\ new \in Seq(Attempt) /\ Len(new) = Len(atts) + 1
         /\ \A n \in 1 .. Len(atts) : n # Len(atts) => new[n] = atts[n]
         /\ \A n \in 1 .. Len(atts) : atts[n].ended => new[n] = atts[n]
         /\ \A n \in 1 .. Len(atts) : n = Len(atts) => new[n].ended
         /\ ~new[Len(new)].ended
<1> DEFINE L == Len(atts)
           close(a) == [outcome |-> IF a.outcome = "open" /\ ~a.ended
                                    THEN o ELSE a.outcome,
                        ended |-> TRUE]
           shut == [atts EXCEPT ![L] = close(@)]
           new == Append(shut, NewAttempt)
<1>1. L \in Nat /\ DOMAIN atts = 1 .. L /\ \A n \in 1 .. L : atts[n] \in Attempt
  BY LenProperties, ElementOfSeq
<1>2. shut \in Seq(Attempt) /\ Len(shut) = L
  <2>1. CASE L = 0
    <3>1. shut = atts
      BY <2>1, NoLastAttempt
    <3> QED BY <3>1
  <2>2. CASE L # 0
    <3>1. close(atts[L]) \in Attempt
      BY <1>1, <2>2 DEF Attempt, AttemptOutcomes
    <3>2. shut \in Seq(Attempt)
      BY <3>1, LastAttemptType
    <3> QED
      BY <1>1, <3>2, LenProperties
  <2> QED BY <2>1, <2>2
<1>3. NewAttempt \in Attempt /\ ~NewAttempt.ended
  BY DEF NewAttempt, Attempt
<1> HIDE DEF shut
<1>4. /\ new \in Seq(Attempt) /\ Len(new) = L + 1
      /\ \A n \in 1 .. L : new[n] = shut[n]
      /\ new[L + 1] = NewAttempt
  BY <1>2, <1>3, AppendProperties
<1>5. \A n \in 1 .. L : n # L => shut[n] = atts[n]
  BY <1>1 DEF shut
<1>6. \A n \in 1 .. L : n = L => shut[n] = close(atts[n])
  BY <1>1 DEF shut
<1>7. \A a \in Attempt : a.ended => close(a) = a
  BY DEF Attempt
<1>8. Epochs(atts, o) = new
  BY DEF Epochs, shut
<1> HIDE DEF new
<1>9. \A n \in 1 .. L : atts[n].ended => new[n] = atts[n]
  BY <1>1, <1>4, <1>5, <1>6, <1>7
<1>10. \A n \in 1 .. L : n = L => new[n].ended
  <2> TAKE n \in 1 .. L
  <2>1. n = L => new[n] = close(atts[n])
    BY <1>4, <1>6
  <2>2. close(atts[n]).ended
    OBVIOUS
  <2> QED BY <2>1, <2>2
<1> QED
  BY <1>3, <1>4, <1>5, <1>8, <1>9, <1>10

\* restore() ends the last attempt of a run that was running, and no other.
LEMMA RestoredFacts ==
  ASSUME NEW r \in Record
  PROVE  LET new == Restored(r) IN
         /\ new \in Record /\ new.status # "running"
         /\ Len(new.attempts) = Len(r.attempts)
         /\ \A n \in 1 .. Len(r.attempts) :
               n # Len(r.attempts) => new.attempts[n] = r.attempts[n]
         /\ r.status # "running" => new = r
         /\ r.status = "running" => new.status = "interrupted"
<1> DEFINE L == Len(r.attempts)
           last == r.attempts[L]
           stopped == [outcome |-> IF last.outcome = "open" THEN "interrupted"
                                                            ELSE last.outcome,
                       ended |-> TRUE]
           atts == [r.attempts EXCEPT ![L] = stopped]
<1>1. r.attempts \in Seq(Attempt) /\ L \in Nat /\ DOMAIN r.attempts = 1 .. L
  BY LenProperties DEF Record
<1>2. Restored(r) \in Record
  BY RestoredType
<1>3. CASE r.status = "running"
  <2>1. Restored(r) = [r EXCEPT !.status = "interrupted", !.attempts = atts]
    BY <1>3 DEF Restored, Record
  <2>2. DOMAIN atts = 1 .. L /\ \A n \in 1 .. L : n # L => atts[n] = r.attempts[n]
    BY <1>1
  <2> HIDE DEF atts
  <2>3. Restored(r).attempts = atts /\ Restored(r).status = "interrupted"
    BY <2>1 DEF Record
  <2>4. atts \in Seq(Attempt)
    BY <1>2, <2>3 DEF Record
  <2>5. Len(atts) = L
    BY <1>1, <2>2, <2>4, LenProperties
  <2> QED
    BY <1>2, <1>3, <2>2, <2>3, <2>5
<1>4. CASE r.status # "running"
  BY <1>2, <1>4 DEF Restored
<1> QED
  BY <1>3, <1>4

-----------------------------------------------------------------------------
(* The lists of attempts the handlers build from tidy lists are tidy, and  *)
(* what ended in the old list stands in the new one.                       *)

LEMMA TidySteps ==
  ASSUME NEW atts \in Seq(Attempt), Tidy(atts)
  PROVE  \A o \in AttemptOutcomes : Tidy(SetOutcome(atts, o)) /\ Tidy(Epochs(atts, o))
<1> SUFFICES ASSUME NEW o \in AttemptOutcomes
             PROVE  Tidy(SetOutcome(atts, o)) /\ Tidy(Epochs(atts, o))
  OBVIOUS
<1>1. Len(atts) \in Nat
  BY LenProperties
<1>2. Tidy(SetOutcome(atts, o))
  <2> DEFINE new == SetOutcome(atts, o)
  <2>1. Len(new) = Len(atts) /\ \A n \in 1 .. Len(atts) : new[n].ended = atts[n].ended
    BY SetOutcomeFacts
  <2> HIDE DEF new
  <2> QED BY <2>1 DEF Tidy, new
<1>3. Tidy(Epochs(atts, o))
  <2> DEFINE new == Epochs(atts, o)
  <2>1. /\ Len(new) = Len(atts) + 1
        /\ \A n \in 1 .. Len(atts) : atts[n].ended => new[n] = atts[n]
        /\ \A n \in 1 .. Len(atts) : n = Len(atts) => new[n].ended
    BY EpochsFacts
  <2> HIDE DEF new
  <2>2. ASSUME NEW n \in 1 .. Len(new), n < Len(new) PROVE new[n].ended
    <3>1. n \in 1 .. Len(atts)
      BY <1>1, <2>1, <2>2
    <3> QED BY <1>1, <2>1, <3>1 DEF Tidy
  <2> QED BY <2>2 DEF Tidy, new
<1> QED BY <1>2, <1>3

LEMMA TidyRestored ==
  ASSUME NEW r \in Record, Tidy(r.attempts)
  PROVE  Tidy(Restored(r).attempts)
<1>1. Len(r.attempts) \in Nat
  BY LenProperties DEF Record
<1> QED
  BY <1>1, RestoredFacts DEF Tidy

\* While the last attempt goes on, a settlement and a resume keep every
\* attempt that ended.
LEMMA GrowthExtends ==
  ASSUME NEW atts \in Seq(Attempt)
  PROVE  \A o \in AttemptOutcomes :
           /\ GoesOn(atts) => /\ Extends(atts, SetOutcome(atts, o))
                              /\ GoesOn(SetOutcome(atts, o))
           /\ Extends(atts, Epochs(atts, o)) /\ GoesOn(Epochs(atts, o))
<1> SUFFICES ASSUME NEW o \in AttemptOutcomes
             PROVE  /\ GoesOn(atts) => /\ Extends(atts, SetOutcome(atts, o))
                                       /\ GoesOn(SetOutcome(atts, o))
                    /\ Extends(atts, Epochs(atts, o)) /\ GoesOn(Epochs(atts, o))
  OBVIOUS
<1>1. Len(atts) \in Nat
  BY LenProperties
<1>2. ASSUME GoesOn(atts)
      PROVE  Extends(atts, SetOutcome(atts, o)) /\ GoesOn(SetOutcome(atts, o))
  <2> DEFINE new == SetOutcome(atts, o)
  <2>1. /\ Len(new) = Len(atts)
        /\ \A n \in 1 .. Len(atts) : n # Len(atts) => new[n] = atts[n]
        /\ \A n \in 1 .. Len(atts) : new[n].ended = atts[n].ended
    BY SetOutcomeFacts
  <2> HIDE DEF new
  <2> QED BY <1>1, <1>2, <2>1 DEF Extends, GoesOn, new
<1>3. Extends(atts, Epochs(atts, o)) /\ GoesOn(Epochs(atts, o))
  <2> DEFINE new == Epochs(atts, o)
  <2>1. /\ Len(new) = Len(atts) + 1
        /\ \A n \in 1 .. Len(atts) : atts[n].ended => new[n] = atts[n]
        /\ ~new[Len(new)].ended
    BY EpochsFacts
  <2> HIDE DEF new
  <2>2. Extends(atts, new)
    BY <1>1, <2>1 DEF Extends
  <2>3. GoesOn(new)
    BY <2>1 DEF GoesOn
  <2> QED BY <2>2, <2>3 DEF new
<1> QED BY <1>2, <1>3

\* restore() leaves what ended alone when a running record's last attempt
\* goes on.
LEMMA RestoredExtends ==
  ASSUME NEW r \in Record, r.status = "running" => GoesOn(r.attempts)
  PROVE  Extends(r.attempts, Restored(r).attempts)
<1>1. Len(r.attempts) \in Nat
  BY LenProperties DEF Record
<1> QED
  BY <1>1, RestoredFacts DEF Extends, GoesOn

LEMMA ExtendsOrder ==
  /\ \A x \in Seq(Attempt) : Extends(x, x)
  /\ \A x, y, z \in Seq(Attempt) : Extends(x, y) /\ Extends(y, z) => Extends(x, z)
<1>1. \A x \in Seq(Attempt) : Len(x) \in Nat
  BY LenProperties
<1>2. ASSUME NEW x \in Seq(Attempt) PROVE Extends(x, x)
  BY <1>1 DEF Extends
<1>3. ASSUME NEW x \in Seq(Attempt), NEW y \in Seq(Attempt), NEW z \in Seq(Attempt),
             Extends(x, y), Extends(y, z)
      PROVE  Extends(x, z)
  <2> SUFFICES ASSUME NEW n \in 1 .. Len(x), x[n].ended
               PROVE  n <= Len(z) /\ z[n] = x[n]
    BY DEF Extends
  <2>1. n <= Len(y) /\ y[n] = x[n]
    BY <1>3 DEF Extends
  <2>2. n \in 1 .. Len(y)
    BY <1>1, <2>1
  <2> QED
    BY <1>3, <2>1, <2>2 DEF Extends
<1> QED BY <1>2, <1>3

-----------------------------------------------------------------------------
(* What one step may do to the records of one run.                         *)

\* The sessions of run h that can still save its record.
InHand(h, g) ==
  \/ Active(<<h, g>>) \/ live[h] = g
  \/ ~disposed /\ g \in rebuild[h]

\* No session of h comes into hand, and only the one its id maps to starts a
\* turn.
SameHands(h) ==
  /\ \A f \in Gens : /\ InHand(h, f)' => InHand(h, f)
                     /\ Active(<<h, f>>)' => Active(<<h, f>>) \/ live'[h] = f
  /\ disposed => disposed'
  /\ live[h] # 0 => live'[h] # 0 \/ disposed'
  /\ rebuild'[h] \subseteq rebuild[h]

SameEntries(h) ==
  \A f \in Gens : /\ entry'[<<h, f>>].attempts = entry[<<h, f>>].attempts
                  /\ entry'[<<h, f>>].closed = entry[<<h, f>>].closed

\* Nothing happens to its records.
Still(h) ==
  /\ SameHands(h) /\ SameEntries(h)
  /\ rec'[h] = rec[h] /\ log'[h] = log[h]

\* Session g, in hand and not closed, saves the record: a settlement, a
\* cancellation, a wait, a close, or the start of a resumed turn.
Saves(h, g) ==
  LET i == <<h, g>>
      atts == entry[i].attempts
  IN /\ SameHands(h)
     /\ InHand(h, g) /\ ~entry[i].closed
     /\ \/ entry'[i].attempts = atts
        \/ \E o \in AttemptOutcomes : entry'[i].attempts = SetOutcome(atts, o)
     /\ \A f \in Gens : f # g => entry'[<<h, f>>] = entry[<<h, f>>]
     /\ log'[h] = rec'[h]
     /\ \E status \in Statuses \ {"absent"} :
          /\ rec'[h] = RecordOf(entry'[i], status)
          /\ status = "running" => live'[h] # 0
          /\ IF status = "closed"
             THEN ~disposed /\ live[h] = g /\ entry'[i].closed
             ELSE ~entry'[i].closed

\* A live run begins its next attempt.
BeginsAttempt(h, g) ==
  LET i == <<h, g>> IN
  /\ SameHands(h) /\ rec'[h] = rec[h] /\ log'[h] = log[h]
  /\ InHand(h, g)
  /\ \E o \in AttemptOutcomes : entry'[i].attempts = Epochs(entry[i].attempts, o)
  /\ entry'[i].closed = entry[i].closed
  /\ \A f \in Gens : f # g => entry'[<<h, f>>] = entry[<<h, f>>]

\* A launch registers the run: its first record.
Registers(h) ==
  LET i == <<h, 1>> IN
  /\ Unknown(h) /\ ~disposed /\ 1 \in Gens
  /\ \E a \in Attempt : ~a.ended /\ entry'[i].attempts = <<a>>
  /\ ~entry'[i].closed
  /\ \A f \in Gens : f # 1 => entry'[<<h, f>>] = entry[<<h, f>>]
  /\ log'[h] = rec'[h]
  /\ \E status \in Statuses \ {"absent", "running", "closed"} :
       rec'[h] = RecordOf(entry'[i], status)
  /\ \A f \in Gens : InHand(h, f)' => f = 1
  /\ live'[h] = 1 /\ rebuild'[h] = {}

\* The workspace's state is written into the record.
Marks(h) ==
  /\ SameHands(h) /\ SameEntries(h)
  /\ rec[h].status # "absent"
  /\ log'[h] = rec'[h]
  /\ \E ws \in Workspaces : rec'[h] = [rec[h] EXCEPT !.ws = ws]

\* A recovery persists the record object it read, which is no longer the
\* run's.
MarksStale(h) ==
  /\ SameHands(h) /\ SameEntries(h)
  /\ recov[h].phase = "stale" /\ rec'[h] = rec[h]
  /\ log'[h] = [recov[h].copy EXCEPT !.ws = "active"]

\* A historical resume starts to build session g.
Reopens(h, g) ==
  LET i == <<h, g>> IN
  /\ ~disposed /\ live[h] = 0 /\ rec[h].status \notin {"absent", "closed"}
  /\ ConcurrentResume \/ rebuild[h] = {}
  /\ ~Active(i)'
  /\ rec'[h] = rec[h] /\ log'[h] = log[h]
  /\ \E o \in AttemptOutcomes : entry'[i].attempts = Epochs(rec[h].attempts, o)
  /\ ~entry'[i].closed
  /\ \A f \in Gens : f # g => /\ entry'[<<h, f>>] = entry[<<h, f>>]
                              /\ InHand(h, f)' => InHand(h, f)
  /\ UNCHANGED <<live, disposed>>

\* The build is given up.
GivesUp(h, g) ==
  /\ SameHands(h) /\ rec'[h] = rec[h] /\ log'[h] = log[h]
  /\ g \in rebuild[h] /\ g \notin rebuild'[h] /\ ~InHand(h, g)'
  /\ entry'[<<h, g>>] = NoEntry
  /\ \A f \in Gens : f # g => entry'[<<h, f>>] = entry[<<h, f>>]

\* The process restarts and the record is read back.
Reloads(h) ==
  /\ rec'[h] = Restored(log[h]) /\ log'[h] = log[h]
  /\ recov'[h] = NoRecovery
  /\ rebuild'[h] = {}
  /\ \A f \in Gens : ~InHand(h, f)' /\ entry'[<<h, f>>] = NoEntry

RecordStep(h) ==
  \/ Still(h) \/ Registers(h) \/ Marks(h) \/ MarksStale(h) \/ Reloads(h)
  \/ \E g \in Gens : \/ Saves(h, g) \/ BeginsAttempt(h, g)
                     \/ Reopens(h, g) \/ GivesUp(h, g)

\* What a step may do to the recovery of one run.
RecoveryStep(h) ==
  \/ recov'[h] = recov[h] \/ recov'[h] = NoRecovery
  \/ /\ h \in Recovered /\ rec[h].status # "absent" /\ rec'[h] = rec[h]
     /\ recov'[h] = [recov[h] EXCEPT !.phase = "shared"]
  \/ /\ recov[h].phase = "shared"
     /\ recov'[h] = [phase |-> "stale", copy |-> rec[h]]

\* A recovery under way is about a run that has a record.
RecoveryIsKnown ==
  \A h \in Handles :
    /\ recov[h].phase = "shared" => rec[h].status # "absent"
    /\ recov[h].phase = "stale" => recov[h].copy.status # "absent"

-----------------------------------------------------------------------------
(* Every step is one of those, for every run.                              *)

\* A run a step does not touch.
LEMMA UntouchedIsStill ==
  ASSUME TypeOK, NEW h \in Handles,
         rec'[h] = rec[h], log'[h] = log[h], recov'[h] = recov[h],
         live'[h] = live[h], rebuild'[h] = rebuild[h], disposed' = disposed,
         \A g \in Gens : /\ child'[<<h, g>>].run = child[<<h, g>>].run
                         /\ child'[<<h, g>>].input = child[<<h, g>>].input
                         /\ entry'[<<h, g>>] = entry[<<h, g>>]
  PROVE  RecordStep(h) /\ RecoveryStep(h)
<1>1. SameHands(h)
  BY DEF SameHands, InHand, Active
<1> QED
  BY <1>1 DEF RecordStep, Still, SameEntries, RecoveryStep

\* So is every run but the one a local step is about.
LEMMA OthersAreStill ==
  ASSUME TypeOK, NEW i \in Inst, Local(i), disposed' = disposed,
         NEW h \in Handles, h # i[1]
  PROVE  RecordStep(h) /\ RecoveryStep(h)
<1>1. \A g \in Gens : <<h, g>> \in Inst /\ <<h, g>> # i
  BY Instances
<1>2. /\ rec'[h] = rec[h] /\ log'[h] = log[h] /\ recov'[h] = recov[h]
      /\ live'[h] = live[h] /\ rebuild'[h] = rebuild[h]
      /\ \A g \in Gens : /\ child'[<<h, g>>] = child[<<h, g>>]
                         /\ entry'[<<h, g>>] = entry[<<h, g>>]
  BY <1>1 DEF Local
<1> QED
  BY <1>2, UntouchedIsStill

LEMMA AsidesAreStill ==
  ASSUME TypeOK, NEW o \in Handles, Aside(o), disposed' = disposed,
         NEW h \in Handles, h # o
  PROVE  RecordStep(h) /\ RecoveryStep(h)
  BY UntouchedIsStill DEF Aside

\* A save that follows Save's own steps.
LEMMA SaveRecovery ==
  ASSUME TypeOK, NEW h \in Handles, NEW e, NEW status, Save(h, e, status)
  PROVE  /\ rec'[h] = RecordOf(e, status) /\ log'[h] = RecordOf(e, status)
         /\ RecoveryStep(h)
  BY DEF Save, Detach, RecoveryStep, TypeOK

\* persistSettlement.
LEMMA SettleSaves ==
  ASSUME TypeOK, NEW h \in Handles, NEW g \in Gens, NEW out \in Outcomes,
         NEW giveBack \in BOOLEAN, Settle(<<h, g>>, out, giveBack),
         SameHands(h), InHand(h, g)
  PROVE  RecordStep(h) /\ RecoveryStep(h)
<1> DEFINE i == <<h, g>>
           e == entry[i]
           stamp == IF out = "interrupted" /\ e.cancelled THEN "cancelled" ELSE out
           done == [e EXCEPT !.latest = out, !.attempts = SetOutcome(@, stamp)]
<1>1. i \in Inst /\ i[1] = h /\ e \in Entry /\ entry \in [Inst -> Entry]
  BY Instances DEF TypeOK
<1>2. stamp \in AttemptOutcomes /\ out \in Statuses \ {"absent", "running", "closed"}
  BY DEF AttemptOutcomes, Statuses, Outcomes
<1>3. /\ done.attempts = SetOutcome(e.attempts, stamp) /\ done.closed = e.closed
      /\ [e EXCEPT !.latest = out].attempts = e.attempts
      /\ [e EXCEPT !.latest = out].closed = e.closed
  BY <1>1 DEF Entry
<1>4. \A f \in Gens : <<h, f>> \in Inst /\ (f # g => <<h, f>> # i)
  BY Instances
<1> HIDE DEF stamp
<1>5. CASE e.closed
  <2>1. entry' = [entry EXCEPT ![i].latest = out] /\ UNCHANGED recordVars
    BY <1>5 DEF Settle
  <2>2. SameEntries(h)
    BY <1>1, <1>3, <1>4, <2>1 DEF SameEntries
  <2> QED
    BY <2>1, <2>2 DEF recordVars, RecordStep, Still, RecoveryStep
<1>6. CASE ~e.closed
  <2>1. entry' = [entry EXCEPT ![i] = done] /\ Save(h, done, out)
    BY <1>1, <1>6 DEF Settle, stamp
  <2>2. entry'[i] = done /\ \A f \in Gens : f # g => entry'[<<h, f>>] = entry[<<h, f>>]
    BY <1>1, <1>4, <2>1
  <2> HIDE DEF done
  <2>3. /\ rec'[h] = RecordOf(done, out) /\ log'[h] = RecordOf(done, out)
        /\ RecoveryStep(h)
    BY <2>1, SaveRecovery
  <2>4. Saves(h, g)
    BY <1>2, <1>3, <1>6, <2>2, <2>3 DEF Saves
  <2> QED
    BY <2>3, <2>4 DEF RecordStep
<1> QED
  BY <1>5, <1>6

\* A local step of a session in hand brings no session into hand.
LEMMA LocalHands ==
  ASSUME TypeOK, NEW h \in Handles, NEW g \in Gens, Local(<<h, g>>),
         Active(<<h, g>>) \/ live[h] = g, disposed' = disposed
  PROVE  SameHands(h)
<1>1. \A f \in Gens : <<h, f>> \in Inst /\ (f # g => <<h, f>> # <<h, g>>)
  BY Instances
<1>2. \A f \in Gens : f # g => child'[<<h, f>>] = child[<<h, f>>]
  BY <1>1 DEF Local
<1>3. live' = live /\ rebuild' = rebuild
  BY DEF Local
<1> QED
  BY <1>2, <1>3 DEF SameHands, InHand, Active

LEMMA TurningRecords ==
  ASSUME SlotInv, NEW i \in Inst, Turning(i), NEW h \in Handles
  PROVE  RecordStep(h) /\ RecoveryStep(h)
<1> USE DEF registryVars, callVars, recordVars
<1>1. TypeOK /\ Active(i) /\ Local(i) /\ disposed' = disposed
  BY TurningIsLocal
     DEF SlotInv, Turning, RunTurnEnds, InputTurnEnds, RunVerified, RunRechecked,
         InputVerified, RunExpires
<1>2. CASE h # i[1]
  BY <1>1, <1>2, OthersAreStill
<1>3. CASE h = i[1]
  <2>1. PICK g \in Gens : i = <<h, g>>
    BY <1>3 DEF Inst
  <2>2. InHand(h, g) /\ SameHands(h)
    BY <1>1, <2>1, LocalHands DEF InHand
  <2>3. ASSUME UNCHANGED <<entry, recordVars>> PROVE RecordStep(h) /\ RecoveryStep(h)
    BY <2>2, <2>3 DEF RecordStep, Still, SameEntries, RecoveryStep
  <2>4. ASSUME NEW out \in Outcomes, NEW back \in BOOLEAN, Settle(i, out, back)
        PROVE  RecordStep(h) /\ RecoveryStep(h)
    BY <1>1, <2>1, <2>2, <2>4, SettleSaves
  <2>5. Reported(i) \in Outcomes /\ "failed" \in Outcomes
    BY <1>1, ReportedType, TypeParts DEF TypeInParts, Outcomes
  <2>6. ASSUME NEW o \in TurnOutcomes, RunTurnEnds(i, o)
        PROVE  RecordStep(h) /\ RecoveryStep(h)
    <3>1. Ended(child[i].st, o).last \in Outcomes
      BY EndedType
    <3>2. UNCHANGED <<entry, recordVars>> \/ Settle(i, Ended(child[i].st, o).last, FALSE)
      BY <2>6 DEF RunTurnEnds
    <3> QED BY <2>3, <2>4, <3>1, <3>2
  <2>7. ASSUME NEW o \in TurnOutcomes, InputTurnEnds(i, o)
        PROVE  RecordStep(h) /\ RecoveryStep(h)
    <3> DEFINE back == child[i].reattach /\ ~Ended(child[i].st, o).ok
    <3>1. Ended(child[i].st, o).last \in Outcomes /\ back \in BOOLEAN
      BY EndedType
    <3>2. UNCHANGED <<entry, recordVars>> \/ Settle(i, Ended(child[i].st, o).last, back)
      BY <2>7 DEF InputTurnEnds
    <3> HIDE DEF back
    <3> QED BY <2>3, <2>4, <3>1, <3>2
  <2>8. ASSUME NEW pass \in BOOLEAN, RunVerified(i, pass)
        PROVE  RecordStep(h) /\ RecoveryStep(h)
    <3>1. UNCHANGED <<entry, recordVars>> \/ Settle(i, "failed", FALSE)
      BY <2>8 DEF RunVerified
    <3> QED BY <2>3, <2>4, <2>5, <3>1
  <2>9. ASSUME NEW pass \in BOOLEAN, RunRechecked(i, pass)
        PROVE  RecordStep(h) /\ RecoveryStep(h)
    <3>1. Settle(i, IF pass THEN Reported(i) ELSE "failed", FALSE)
      BY <2>9 DEF RunRechecked
    <3> QED BY <2>4, <2>5, <3>1
  <2>10. ASSUME NEW pass \in BOOLEAN, InputVerified(i, pass)
         PROVE  RecordStep(h) /\ RecoveryStep(h)
    <3> DEFINE back == child[i].reattach /\ ~pass
    <3>1. back \in BOOLEAN /\ Settle(i, IF pass THEN Reported(i) ELSE "failed", back)
      BY <2>10 DEF InputVerified
    <3> HIDE DEF back
    <3> QED BY <2>4, <2>5, <3>1
  <2>11. CASE RunExpires(i)
    <3>1. Settle(i, "failed", FALSE)
      BY <2>11 DEF RunExpires
    <3> QED BY <2>4, <2>5, <3>1
  <2> QED
    BY <2>6, <2>7, <2>8, <2>9, <2>10, <2>11 DEF Turning
<1> QED
  BY <1>2, <1>3

\* interrupt with a reason saves every open run it reaches.
LEMMA CancelRecords ==
  ASSUME SlotInv, NEW H \in SUBSET Handles, Cancel(H), ~disposed,
         UNCHANGED <<live, rebuild, disposed>>, NEW h \in Handles
  PROVE  RecordStep(h) /\ RecoveryStep(h)
<1> DEFINE i == Cur(h)
           done == [entry[i] EXCEPT !.cancelled = TRUE,
                                    !.attempts = SetOutcome(@, "cancelled")]
<1>1. TypeOK /\ \A f \in Gens : <<h, f>> \in Inst
  BY Instances DEF SlotInv
<1>2. \A f \in Gens : /\ child'[<<h, f>>].run = child[<<h, f>>].run
                      /\ child'[<<h, f>>].input = child[<<h, f>>].input
  <2> SUFFICES ASSUME NEW f \in Gens
               PROVE  /\ child'[<<h, f>>].run = child[<<h, f>>].run
                      /\ child'[<<h, f>>].input = child[<<h, f>>].input
    OBVIOUS
  <2> DEFINE c == child[<<h, f>>]
  <2>1. c \in Child
    BY <1>1 DEF TypeOK
  <2>2. child'[<<h, f>>] = c \/ child'[<<h, f>>] = [c EXCEPT !.st = "interrupted"]
    BY <1>1 DEF Cancel
  <2> QED BY <2>1, <2>2 DEF Child
<1>3. SameHands(h)
  BY <1>2 DEF SameHands, InHand, Active
<1>4. CASE ~(h \in H /\ Open(h))
  <2>1. rec'[h] = rec[h] /\ log'[h] = log[h] /\ recov'[h] = recov[h]
    BY <1>4 DEF Cancel
  <2>2. \A f \in Gens : entry'[<<h, f>>] = entry[<<h, f>>]
    BY <1>1, <1>4 DEF Cancel
  <2> QED
    BY <1>1, <1>2, <2>1, <2>2, UntouchedIsStill
<1>5. CASE h \in H /\ Open(h)
  <2>1. live[h] \in Gens /\ i = <<h, live[h]>> /\ i \in Inst /\ ~entry[i].closed
    BY <1>1, <1>5, CurType, TypeParts DEF TypeInParts, Open, Cur
  <2>2. entry[i] \in Entry
    BY <1>1, <2>1 DEF TypeOK
  <2>3. /\ done.attempts = SetOutcome(entry[i].attempts, "cancelled")
        /\ ~done.closed
    BY <2>1, <2>2 DEF Entry
  <2>4. /\ entry'[i] = done
        /\ \A f \in Gens : f # live[h] => entry'[<<h, f>>] = entry[<<h, f>>]
    BY <1>1, <1>5, <2>1 DEF Cancel, Cur
  <2>5. /\ rec'[h] = RecordOf(done, "interrupted")
        /\ log'[h] = RecordOf(done, "interrupted")
    BY <1>5 DEF Cancel
  <2>6. RecoveryStep(h)
    BY <1>5 DEF Cancel, RecoveryStep
  <2> HIDE DEF done
  <2>7. "cancelled" \in AttemptOutcomes /\ "interrupted" \in Statuses \ {"absent"}
    BY DEF AttemptOutcomes, Statuses, Outcomes
  <2>8. InHand(h, live[h])
    BY DEF InHand
  <2>9. Saves(h, live[h])
    BY <1>3, <2>1, <2>3, <2>4, <2>5, <2>7, <2>8 DEF Saves
  <2> QED
    BY <2>1, <2>6, <2>9 DEF RecordStep
<1> QED
  BY <1>4, <1>5

LEMMA CallingRecords ==
  ASSUME SlotInv, NEW o \in Handles, Calling(o), NEW h \in Handles
  PROVE  RecordStep(h) /\ RecoveryStep(h)
<1> USE DEF registryVars, callVars, recordVars
<1>1. TypeOK
  BY DEF SlotInv
<1>2. CASE InterruptWithReason(o)
  BY <1>2, CancelRecords DEF InterruptWithReason
<1>3. ASSUME ~InterruptWithReason(o) PROVE RecordStep(h) /\ RecoveryStep(h)
  <2> DEFINE i == Cur(o)
             g == live[o]
  <2>1. /\ Open(o) /\ i \in Inst /\ Local(i) /\ i[1] = o /\ i = <<o, g>> /\ g \in Gens
        /\ ~entry[i].closed /\ g # 0
    BY <1>1, <1>3, CallingIsLocal, CurType, TypeParts DEF TypeInParts, Cur, Open
  <2>2. ~disposed /\ disposed' = disposed
    BY <1>3 DEF Calling, SendInput, QueueInput, Wait, Interrupt, ResumeLive, Close
  <2>3. CASE h # o
    BY <1>1, <2>1, <2>2, <2>3, OthersAreStill
  <2>4. CASE h = o
    <3>1. InHand(h, g) /\ SameHands(h)
      BY <1>1, <2>1, <2>2, <2>4, LocalHands DEF InHand
    <3>2. \A f \in Gens : f # g => entry'[<<h, f>>] = entry[<<h, f>>]
      <4>1. \A f \in Gens : <<h, f>> \in Inst /\ (f # g => <<h, f>> # i)
        BY <1>1, <2>1, Instances
      <4> QED BY <2>1, <4>1 DEF Local
    <3>3. i \in Inst /\ entry[i] \in Entry /\ entry \in [Inst -> Entry]
      BY <1>1, <2>1 DEF TypeOK
    <3> HIDE DEF i, g
    <3>4. CASE SendInput(o) \/ Interrupt(o)
      BY <2>4, <3>1, <3>4
         DEF SendInput, Interrupt, RecordStep, Still, SameEntries, RecoveryStep
    <3>5. CASE QueueInput(o)
      <4>1. Settle(<<h, g>>, Reported(i), FALSE) /\ Reported(i) \in Outcomes
        BY <1>1, <2>1, <2>4, <3>5, ReportedType, TypeParts
           DEF QueueInput, TypeInParts, i
      <4> QED BY <1>1, <2>1, <3>1, <4>1, SettleSaves
    <3>6. CASE Wait(o)
      <4>1. Save(h, entry[i], "running") /\ entry' = entry /\ live' = live
        BY <2>4, <3>6 DEF Wait, i
      <4>2. /\ rec'[h] = RecordOf(entry[i], "running")
            /\ log'[h] = RecordOf(entry[i], "running") /\ RecoveryStep(h)
        BY <1>1, <4>1, SaveRecovery
      <4>3. "running" \in Statuses \ {"absent"} /\ "running" # "closed"
        BY DEF Statuses
      <4>4. Saves(h, g)
        BY <2>1, <2>4, <3>1, <3>2, <4>1, <4>2, <4>3 DEF Saves, g
      <4> QED BY <2>1, <4>2, <4>4 DEF RecordStep
    <3>7. CASE ResumeLive(o)
      <4> DEFINE out == IF entry[i].latest = "none" THEN "open" ELSE entry[i].latest
      <4>1. entry' = [entry EXCEPT ![i].attempts = Epochs(@, out)] /\ UNCHANGED recordVars
        BY <3>7 DEF ResumeLive, i
      <4>2. out \in AttemptOutcomes
        BY <3>3 DEF Entry, AttemptOutcomes
      <4> HIDE DEF out
      <4>3. /\ entry'[i].attempts = Epochs(entry[i].attempts, out)
            /\ entry'[i].closed = entry[i].closed
        BY <3>3, <4>1 DEF Entry
      <4>4. BeginsAttempt(h, g)
        BY <2>1, <2>4, <3>1, <3>2, <4>1, <4>2, <4>3 DEF BeginsAttempt
      <4> QED BY <2>1, <4>1, <4>4 DEF RecordStep, RecoveryStep
    <3>8. CASE Close(o)
      <4> DEFINE e == [entry[i] EXCEPT !.closed = TRUE]
      <4>1. entry' = [entry EXCEPT ![i] = e] /\ Save(h, e, "closed")
        BY <2>4, <3>8 DEF Close, i
      <4>2. e.attempts = entry[i].attempts /\ e.closed
        BY <3>3 DEF Entry
      <4>3. entry'[i] = e
        BY <3>3, <4>1
      <4> HIDE DEF e
      <4>4. /\ rec'[h] = RecordOf(e, "closed") /\ log'[h] = RecordOf(e, "closed")
            /\ RecoveryStep(h)
        BY <1>1, <4>1, SaveRecovery
      <4>5. "closed" \in Statuses \ {"absent"} /\ "closed" # "running"
        BY DEF Statuses
      <4>6. Saves(h, g)
        BY <2>1, <2>2, <2>4, <3>1, <3>2, <4>2, <4>3, <4>4, <4>5 DEF Saves, g
      <4> QED BY <2>1, <4>4, <4>6 DEF RecordStep
    <3> QED
      BY <1>3, <3>4, <3>5, <3>6, <3>7, <3>8 DEF Calling
  <2> QED BY <2>3, <2>4
<1> QED BY <1>2, <1>3

LEMMA LaunchingRecords ==
  ASSUME SlotInv, NEW o \in Handles, Launching(o), NEW h \in Handles
  PROVE  RecordStep(h) /\ RecoveryStep(h)
<1> USE DEF registryVars, callVars, recordVars
<1>1. TypeOK /\ \A f \in Gens : <<h, f>> \in Inst
  BY Instances DEF SlotInv
<1>2. CASE ~Launched(o)
  <2>1. UNCHANGED <<rec, log, recov, live, rebuild, disposed, child, entry>>
    BY <1>2
       DEF Launching, Spawn, SpawnOverLimit, PrepareDone, LaunchRejected,
           LaunchOrphaned
  <2> QED BY <1>1, <2>1, UntouchedIsStill
<1>3. CASE Launched(o)
  <2> DEFINE i == <<o, 1>>
             hit == o \in aborted
             first == [outcome |-> IF hit THEN "cancelled" ELSE "open",
                       ended |-> FALSE]
             e == [NoEntry EXCEPT !.attempts = <<first>>, !.cancelled = hit]
             status == IF hit THEN "interrupted" ELSE "created"
  <2>1. /\ Unknown(o) /\ 1 \in Gens /\ i \in Inst
        /\ child \in [Inst -> Child] /\ entry \in [Inst -> Entry]
        /\ live \in [Handles -> 0 .. MaxBuilds]
    BY <1>3, BoundsAssumption
       DEF SlotInv, EarlyIsUnknown, Early, Launched, TypeOK, Gens, Inst
  <2>2. /\ ~disposed /\ live' = [live EXCEPT ![o] = 1]
        /\ entry' = [entry EXCEPT ![i] = e] /\ Save(o, e, status)
        /\ UNCHANGED <<disposed, rebuild>>
        /\ \A j \in Inst : j # i => child'[j] = child[j]
    BY <1>3, <2>1 DEF Launched
  <2>3. /\ first \in Attempt /\ ~first.ended /\ e.attempts = <<first>> /\ ~e.closed
        /\ status \in Statuses \ {"absent", "running", "closed"}
    BY DEF Attempt, NoEntry, Statuses, Outcomes
  <2>4. entry'[i] = e /\ \A j \in Inst : j # i => entry'[j] = entry[j]
    BY <2>1, <2>2
  <2> HIDE DEF e, status
  <2>5. /\ rec'[o] = RecordOf(e, status) /\ log'[o] = RecordOf(e, status)
        /\ RecoveryStep(o)
        /\ \A m \in Handles : m # o =>
              rec'[m] = rec[m] /\ log'[m] = log[m] /\ recov'[m] = recov[m]
    BY <1>1, <2>2, SaveRecovery, SaveIsLocal
  <2>6. CASE h # o
    <3>1. \A g \in Gens : /\ child'[<<h, g>>] = child[<<h, g>>]
                          /\ entry'[<<h, g>>] = entry[<<h, g>>]
      BY <1>1, <2>2, <2>4, <2>6
    <3>2. live'[h] = live[h]
      BY <2>1, <2>2, <2>6
    <3> QED BY <1>1, <2>2, <2>5, <2>6, <3>1, <3>2, UntouchedIsStill
  <2>7. CASE h = o
    <3>1. live'[h] = 1 /\ rebuild'[h] = {}
      BY <2>1, <2>2, <2>7 DEF Unknown
    <3>2. \A f \in Gens : InHand(h, f)' => f = 1
      <4> SUFFICES ASSUME NEW f \in Gens, f # 1 PROVE ~InHand(h, f)'
        OBVIOUS
      <4>1. <<h, f>> # i
        OBVIOUS
      <4>2. child'[<<h, f>>] = child[<<h, f>>] /\ ~Active(<<h, f>>)
        BY <1>1, <2>1, <2>2, <2>7, <4>1 DEF Unknown
      <4> QED BY <3>1, <4>2 DEF InHand, Active
    <3>3. \A f \in Gens : f # 1 => entry'[<<h, f>>] = entry[<<h, f>>]
      BY <1>1, <2>4, <2>7
    <3>4. Registers(h)
      BY <2>1, <2>2, <2>3, <2>4, <2>5, <2>7, <3>1, <3>2, <3>3 DEF Registers
    <3> QED BY <2>5, <2>7, <3>4 DEF RecordStep
  <2> QED BY <2>6, <2>7
<1> QED BY <1>2, <1>3

LEMMA ReopeningRecords ==
  ASSUME SlotInv, RecoveryIsKnown, NEW o \in Handles, Reopening(o), NEW h \in Handles
  PROVE  RecordStep(h) /\ RecoveryStep(h)
<1> USE DEF registryVars, callVars, recordVars
<1>1. /\ TypeOK /\ \A f \in Gens : <<h, f>> \in Inst /\ <<o, f>> \in Inst
      /\ child \in [Inst -> Child] /\ entry \in [Inst -> Entry]
      /\ live \in [Handles -> 0 .. MaxBuilds] /\ rebuild \in [Handles -> SUBSET Gens]
      /\ rec \in [Handles -> Record] /\ log \in [Handles -> Record]
      /\ recov \in [Handles -> [phase : {"none", "shared", "stale"}, copy : Record]]
  BY Instances DEF SlotInv, TypeOK
<1>2. ASSUME NEW g \in Gens, ResumeHistorical(o, g)
      PROVE  RecordStep(h) /\ RecoveryStep(h)
  <2> DEFINE out == StatusOutcome(rec[o])
             e == [NoEntry EXCEPT !.attempts = Epochs(rec[o].attempts, out)]
  <2>1. /\ ~disposed /\ live[o] = 0 /\ rec[o].status \notin {"absent", "closed"}
        /\ rebuild' = [rebuild EXCEPT ![o] = @ \cup {g}]
        /\ entry' = [entry EXCEPT ![<<o, g>>] = e]
        /\ child[<<o, g>>].st = "none" /\ (ConcurrentResume \/ rebuild[o] = {})
        /\ UNCHANGED <<disposed, live, child, rec, log, recov>>
    BY <1>2 DEF ResumeHistorical, Resumable, Historical
  <2>2. e.attempts = Epochs(rec[o].attempts, out) /\ ~e.closed /\ out \in AttemptOutcomes
    BY StatusOutcomeType DEF NoEntry
  <2> HIDE DEF e, out
  <2>3. entry'[<<o, g>>] = e
    BY <1>1, <2>1
  <2>4. \A f \in Gens : <<h, f>> # <<o, g>> => entry'[<<h, f>>] = entry[<<h, f>>]
    BY <1>1, <2>1
  <2>5. CASE h # o
    BY <1>1, <2>1, <2>4, <2>5, UntouchedIsStill
  <2>6. CASE h = o
    <3>1. \A f \in Gens : f # g => (InHand(h, f)' => InHand(h, f))
      BY <1>1, <2>1, <2>6 DEF InHand, Active
    <3>2. ~Active(<<h, g>>)'
      BY <1>1, <2>1, <2>6 DEF SlotInv, ActiveIsBuilt, Active
    <3>3. Reopens(h, g)
      BY <2>1, <2>2, <2>3, <2>4, <2>6, <3>1, <3>2 DEF Reopens
    <3> QED BY <2>1, <3>3 DEF RecordStep, RecoveryStep
  <2> QED BY <2>5, <2>6
<1>3. ASSUME NEW g \in Gens, ResumeRejected(o, g)
      PROVE  RecordStep(h) /\ RecoveryStep(h)
  <2>1. /\ g \in rebuild[o] /\ rebuild' = [rebuild EXCEPT ![o] = @ \ {g}]
        /\ entry' = [entry EXCEPT ![<<o, g>>] = NoEntry]
        /\ UNCHANGED <<disposed, live, child, rec, log, recov>>
    BY <1>3 DEF ResumeRejected
  <2>2. \A f \in Gens : <<h, f>> # <<o, g>> => entry'[<<h, f>>] = entry[<<h, f>>]
    BY <1>1, <2>1
  <2>3. CASE h # o
    BY <1>1, <2>1, <2>2, <2>3, UntouchedIsStill
  <2>4. CASE h = o
    <3>1. ~Active(<<h, g>>) /\ live[h] # g
      BY <2>1, <2>4 DEF SlotInv, RebuildIsFresh
    <3>2. ~InHand(h, g)'
      BY <1>1, <2>1, <2>4, <3>1 DEF InHand, Active
    <3>3. SameHands(h) /\ entry'[<<h, g>>] = NoEntry
      BY <1>1, <2>1, <2>4 DEF SameHands, InHand, Active
    <3>4. GivesUp(h, g)
      BY <1>1, <2>1, <2>2, <2>4, <3>2, <3>3 DEF GivesUp
    <3> QED BY <2>1, <3>4 DEF RecordStep, RecoveryStep
  <2> QED BY <2>3, <2>4
<1>4. ASSUME NEW g \in Gens, Resumed(o, g)
      PROVE  RecordStep(h) /\ RecoveryStep(h)
  <2> DEFINE i == <<o, g>>
  <2>1. /\ ~disposed /\ g \in rebuild[o] /\ rebuild' = [rebuild EXCEPT ![o] = @ \ {g}]
        /\ live' = [live EXCEPT ![o] = g] /\ Save(o, entry[i], "running")
        /\ \A j \in Inst : j # i => child'[j] = child[j]
        /\ UNCHANGED <<disposed, entry>>
    BY <1>1, <1>4 DEF Resumed
  <2>2. /\ rec'[o] = RecordOf(entry[i], "running")
        /\ log'[o] = RecordOf(entry[i], "running") /\ RecoveryStep(o)
        /\ \A m \in Handles : m # o =>
              rec'[m] = rec[m] /\ log'[m] = log[m] /\ recov'[m] = recov[m]
    BY <1>1, <2>1, SaveRecovery, SaveIsLocal
  <2>3. CASE h # o
    <3>1. \A f \in Gens : child'[<<h, f>>] = child[<<h, f>>]
      BY <1>1, <2>1, <2>3
    <3> QED BY <1>1, <2>1, <2>2, <2>3, <3>1, UntouchedIsStill
  <2>4. CASE h = o
    <3>1. ~entry[i].closed /\ g # 0
      BY <2>1 DEF SlotInv, RebuildIsFresh, Gens
    <3>2. InHand(h, g) /\ live'[h] = g
      BY <1>1, <2>1, <2>4 DEF InHand
    <3>3. \A f \in Gens : f # g => child'[<<h, f>>] = child[<<h, f>>]
      BY <1>1, <2>1, <2>4
    <3>4. \A f \in Gens : /\ InHand(h, f)' => InHand(h, f)
                          /\ Active(<<h, f>>)' => Active(<<h, f>>) \/ live'[h] = f
      BY <1>1, <2>1, <2>4, <3>2, <3>3 DEF InHand, Active
    <3>5. SameHands(h)
      BY <1>1, <2>1, <2>4, <3>1, <3>2, <3>4 DEF SameHands
    <3>6. "running" \in Statuses \ {"absent"} /\ "running" # "closed"
      BY DEF Statuses
    <3>7. Saves(h, g)
      BY <2>1, <2>2, <2>4, <3>1, <3>2, <3>5, <3>6 DEF Saves
    <3> QED BY <2>2, <2>4, <3>7 DEF RecordStep
  <2> QED BY <2>3, <2>4
<1>5. CASE ResumeOverLimit(o) \/ RecoverRefused(o)
  <2>1. /\ UNCHANGED <<rec, log, live, rebuild, disposed, child, entry>>
        /\ recov'[h] = recov[h] \/ recov'[h] = NoRecovery
    BY <1>1, <1>5 DEF ResumeOverLimit, RecoverRefused
  <2>2. SameHands(h)
    BY <2>1 DEF SameHands, InHand, Active
  <2> QED
    BY <2>1, <2>2 DEF RecordStep, Still, SameEntries, RecoveryStep
<1>6. CASE RecoverStart(o)
  <2>1. /\ UNCHANGED <<rec, log, live, rebuild, disposed, child, entry>>
        /\ \/ recov'[h] = recov[h]
           \/ /\ h \in Recovered /\ rec[h].status # "absent"
              /\ recov'[h] = [recov[h] EXCEPT !.phase = "shared"]
    BY <1>1, <1>6 DEF RecoverStart
  <2>2. SameHands(h)
    BY <2>1 DEF SameHands, InHand, Active
  <2> QED
    BY <2>1, <2>2 DEF RecordStep, Still, SameEntries, RecoveryStep
<1>7. CASE WorkspaceMissing(o) \/ RecoverDone(o)
  <2>1. UNCHANGED <<live, rebuild, disposed, child, entry>>
    BY <1>7 DEF WorkspaceMissing, RecoverDone
  <2>2. SameHands(h) /\ SameEntries(h)
    BY <2>1 DEF SameHands, InHand, Active, SameEntries
  <2>3. RecoveryStep(h)
    BY <1>1, <1>7 DEF WorkspaceMissing, RecoverDone, RecoveryStep
  <2>4. CASE h # o
    <3>1. rec'[h] = rec[h] /\ log'[h] = log[h]
      BY <1>1, <1>7, <2>4 DEF WorkspaceMissing, RecoverDone
    <3> QED BY <2>2, <2>3, <3>1 DEF RecordStep, Still
  <2>5. CASE h = o /\ WorkspaceMissing(o)
    <3>1. /\ rec[h].status # "absent" /\ "missing" \in Workspaces
          /\ rec'[h] = [rec[h] EXCEPT !.ws = "missing"] /\ log'[h] = rec'[h]
      BY <1>1, <2>5 DEF WorkspaceMissing, Workspaces
    <3> QED BY <2>2, <2>3, <3>1 DEF RecordStep, Marks
  <2>6. CASE h = o /\ RecoverDone(o) /\ recov[h].phase = "shared"
    <3>1. /\ "active" \in Workspaces
          /\ rec'[h] = [rec[h] EXCEPT !.ws = "active"] /\ log'[h] = rec'[h]
      BY <1>1, <2>6 DEF RecoverDone, Workspaces
    <3>2. rec[h].status # "absent"
      BY <2>6 DEF RecoveryIsKnown
    <3> QED BY <2>2, <2>3, <3>1, <3>2 DEF RecordStep, Marks
  <2>7. CASE h = o /\ RecoverDone(o) /\ recov[h].phase # "shared"
    <3>1. /\ recov[h].phase = "stale" /\ rec'[h] = rec[h]
          /\ log'[h] = [recov[h].copy EXCEPT !.ws = "active"]
      BY <1>1, <2>7 DEF RecoverDone
    <3> QED BY <2>2, <2>3, <3>1 DEF RecordStep, MarksStale
  <2> QED BY <1>7, <2>4, <2>5, <2>6, <2>7
<1> QED
  BY <1>2, <1>3, <1>4, <1>5, <1>6, <1>7 DEF Reopening

LEMMA OtherRecords ==
  ASSUME SlotInv, [Next]_vars, NEW h \in Handles,
         ~ \E o \in Handles : Launching(o) \/ Calling(o) \/ Reopening(o),
         ~ \E i \in Inst : Turning(i)
  PROVE  RecordStep(h) /\ RecoveryStep(h)
<1> USE DEF registryVars, callVars, recordVars
<1>1. /\ TypeOK /\ \A f \in Gens : <<h, f>> \in Inst
      /\ child \in [Inst -> Child] /\ rec \in [Handles -> Record]
      /\ log \in [Handles -> Record]
  BY Instances DEF SlotInv, TypeOK
<1>2. ASSUME UNCHANGED <<rec, log, recov, live, rebuild, disposed, child, entry>>
      PROVE  RecordStep(h) /\ RecoveryStep(h)
  BY <1>1, <1>2, UntouchedIsStill
<1>3. ASSUME NEW o \in Handles, ReleaseTree(o) PROVE RecordStep(h) /\ RecoveryStep(h)
  BY <1>2, <1>3 DEF ReleaseTree
<1>4. ASSUME NEW i \in Inst, ChildWrites(i) PROVE RecordStep(h) /\ RecoveryStep(h)
  BY <1>2, <1>4 DEF ChildWrites
<1>5. ASSUME NEW o \in Handles, RecordRelease(o) PROVE RecordStep(h) /\ RecoveryStep(h)
  <2>1. UNCHANGED <<recov, live, rebuild, disposed, child, entry>>
    BY <1>5 DEF RecordRelease
  <2>2. SameHands(h) /\ SameEntries(h) /\ RecoveryStep(h)
    BY <2>1 DEF SameHands, InHand, Active, SameEntries, RecoveryStep
  <2>3. \/ rec'[h] = rec[h] /\ log'[h] = log[h]
        \/ /\ rec[h].status # "absent" /\ freeing[h] \in Workspaces
           /\ rec'[h] = [rec[h] EXCEPT !.ws = freeing[h]] /\ log'[h] = rec'[h]
    BY <1>1, <1>5 DEF RecordRelease, Workspaces
  <2> QED
    BY <2>2, <2>3 DEF RecordStep, Still, Marks
<1>6. CASE ParentAbort
  <2>1. foreground \in SUBSET Handles
    BY <1>1 DEF TypeOK
  <2> QED
    BY <1>6, <2>1, CancelRecords DEF ParentAbort
<1>7. CASE Dispose
  <2>1. /\ disposed' /\ UNCHANGED <<rec, log, recov, rebuild, entry>> /\ live'[h] = 0
    BY <1>7 DEF Dispose
  <2>2. \A f \in Gens : /\ child'[<<h, f>>].run = child[<<h, f>>].run
                        /\ child'[<<h, f>>].input = child[<<h, f>>].input
    <3> SUFFICES ASSUME NEW f \in Gens
                 PROVE  /\ child'[<<h, f>>].run = child[<<h, f>>].run
                        /\ child'[<<h, f>>].input = child[<<h, f>>].input
      OBVIOUS
    <3> DEFINE c == child[<<h, f>>]
    <3>1. c \in Child
      BY <1>1
    <3>2. child'[<<h, f>>] = c \/ child'[<<h, f>>] = [c EXCEPT !.st = "closed"]
      BY <1>1, <1>7 DEF Dispose
    <3> QED BY <3>1, <3>2 DEF Child
  <2>3. SameHands(h)
    BY <2>1, <2>2 DEF SameHands, InHand, Active, Gens
  <2> QED
    BY <2>1, <2>3 DEF RecordStep, Still, SameEntries, RecoveryStep
<1>8. CASE Restart
  <2>1. /\ rec'[h] = Restored(log[h]) /\ log' = log /\ recov'[h] = NoRecovery
        /\ rebuild'[h] = {} /\ live'[h] = 0
    BY <1>8 DEF Restart
  <2>2. \A f \in Gens : child'[<<h, f>>] = NoChild /\ entry'[<<h, f>>] = NoEntry
    BY <1>1, <1>8 DEF Restart
  <2>3. Reloads(h)
    BY <2>1, <2>2 DEF Reloads, InHand, Active, NoChild, Gens
  <2> QED
    BY <2>1, <2>3 DEF RecordStep, RecoveryStep
<1>9. CASE UNCHANGED vars
  BY <1>2, <1>9 DEF vars
<1> QED
  BY <1>3, <1>4, <1>5, <1>6, <1>7, <1>8, <1>9 DEF Next, Releasing

LEMMA EveryRecordStep ==
  ASSUME SlotInv, RecoveryIsKnown, [Next]_vars, NEW h \in Handles
  PROVE  RecordStep(h) /\ RecoveryStep(h)
  BY LaunchingRecords, TurningRecords, CallingRecords, ReopeningRecords, OtherRecords

-----------------------------------------------------------------------------
(* The records of one run, whatever callers, timers and crashes do.        *)

RecordInv(h) ==
  /\ recov[h].phase = "shared" => rec[h].status # "absent"
  /\ recov[h].phase = "stale" => recov[h].copy.status # "absent"
  /\ Tidy(rec[h].attempts) /\ Tidy(log[h].attempts) /\ Tidy(recov[h].copy.attempts)
  /\ \A g \in Gens : Tidy(entry[<<h, g>>].attempts)
  /\ ~disposed /\ live[h] = 0 => rec[h].status # "running"

RecordsInv == SlotInv /\ \A h \in Handles : RecordInv(h)

LEMMA TidyBasics ==
  /\ Tidy(NoEntry.attempts) /\ Tidy(NoRecord.attempts) /\ Tidy(NoRecovery.copy.attempts)
  /\ \A a \in Attempt : Tidy(<<a>>)
<1>1. NoEntry.attempts = <<>> /\ NoRecord.attempts = <<>> /\ NoRecovery.copy.attempts = <<>>
  BY DEF NoEntry, NoRecord, NoRecovery
<1>2. Tidy(<<>>)
  BY DEF Tidy
<1>3. \A a \in Attempt : Tidy(<<a>>)
  BY DEF Tidy
<1> QED BY <1>1, <1>2, <1>3

\* What RecordOf and a workspace mark keep of what they are made from.
LEMMA RecordFields ==
  /\ \A e, status : /\ RecordOf(e, status).attempts = e.attempts
                    /\ RecordOf(e, status).status = status
  /\ \A r \in Record : \A ws :
       /\ [r EXCEPT !.ws = ws].attempts = r.attempts
       /\ [r EXCEPT !.ws = ws].status = r.status
  BY DEF RecordOf, Record

\* What a step makes of the status and the attempts of a record, and of the
\* one persisted.
LEMMA StepKeepsKnown ==
  ASSUME TypeOK, NEW h \in Handles, RecordStep(h), RecordInv(h)
  PROVE  /\ log[h].status # "absent" => log'[h].status # "absent"
         /\ \/ rec[h].status # "absent" => rec'[h].status # "absent"
            \/ Reloads(h)
<1>1. rec[h] \in Record /\ log[h] \in Record /\ recov[h].copy \in Record
  BY DEF TypeOK
<1>2. ASSUME NEW g \in Gens, Saves(h, g)
      PROVE  rec'[h].status # "absent" /\ log'[h].status # "absent"
  BY <1>2, RecordFields DEF Saves
<1>3. ASSUME Registers(h)
      PROVE  rec'[h].status # "absent" /\ log'[h].status # "absent"
  BY <1>3, RecordFields DEF Registers
<1>4. ASSUME Marks(h)
      PROVE  rec'[h].status # "absent" /\ log'[h].status # "absent"
  BY <1>1, <1>4, RecordFields DEF Marks
<1>5. ASSUME MarksStale(h)
      PROVE  rec'[h] = rec[h] /\ log'[h].status # "absent"
  BY <1>1, <1>5, RecordFields DEF MarksStale, RecordInv
<1>6. ASSUME Reloads(h) PROVE log'[h] = log[h]
  BY <1>6 DEF Reloads
<1> QED
  BY <1>2, <1>3, <1>4, <1>5, <1>6
     DEF RecordStep, Still, BeginsAttempt, Reopens, GivesUp

LEMMA StepKeepsTidy ==
  ASSUME TypeOK, NEW h \in Handles, RecordStep(h), RecordInv(h)
  PROVE  /\ Tidy(rec'[h].attempts) /\ Tidy(log'[h].attempts)
         /\ \A g \in Gens : Tidy(entry'[<<h, g>>].attempts)
<1>1. /\ rec[h] \in Record /\ log[h] \in Record /\ recov[h].copy \in Record
      /\ rec[h].attempts \in Seq(Attempt)
      /\ \A g \in Gens : entry[<<h, g>>].attempts \in Seq(Attempt)
  BY Instances, EntryFields DEF TypeOK, Record
<1>2. /\ Tidy(rec[h].attempts) /\ Tidy(log[h].attempts) /\ Tidy(recov[h].copy.attempts)
      /\ \A g \in Gens : Tidy(entry[<<h, g>>].attempts)
  BY DEF RecordInv
<1>3. CASE Still(h)
  BY <1>2, <1>3 DEF Still, SameEntries
<1>4. CASE Registers(h)
  <2>1. Tidy(entry'[<<h, 1>>].attempts) /\ Tidy(rec'[h].attempts) /\ Tidy(log'[h].attempts)
    BY <1>4, TidyBasics, RecordFields DEF Registers
  <2>2. \A g \in Gens : g # 1 => Tidy(entry'[<<h, g>>].attempts)
    BY <1>2, <1>4 DEF Registers
  <2> QED BY <2>1, <2>2
<1>5. CASE Marks(h)
  BY <1>1, <1>2, <1>5, RecordFields DEF Marks, SameEntries
<1>6. CASE MarksStale(h)
  BY <1>1, <1>2, <1>6, RecordFields DEF MarksStale, SameEntries
<1>7. CASE Reloads(h)
  BY <1>1, <1>2, <1>7, TidyRestored, TidyBasics DEF Reloads
<1>8. ASSUME NEW g \in Gens, Saves(h, g)
      PROVE  /\ Tidy(rec'[h].attempts) /\ Tidy(log'[h].attempts)
             /\ \A f \in Gens : Tidy(entry'[<<h, f>>].attempts)
  <2>1. Tidy(entry'[<<h, g>>].attempts)
    BY <1>1, <1>2, <1>8, TidySteps DEF Saves
  <2> QED
    BY <1>2, <1>8, <2>1, RecordFields DEF Saves
<1>9. ASSUME NEW g \in Gens, BeginsAttempt(h, g)
      PROVE  /\ Tidy(rec'[h].attempts) /\ Tidy(log'[h].attempts)
             /\ \A f \in Gens : Tidy(entry'[<<h, f>>].attempts)
  <2>1. Tidy(entry'[<<h, g>>].attempts)
    BY <1>1, <1>2, <1>9, TidySteps DEF BeginsAttempt
  <2> QED
    BY <1>2, <1>9, <2>1 DEF BeginsAttempt
<1>10. ASSUME NEW g \in Gens, Reopens(h, g)
       PROVE  /\ Tidy(rec'[h].attempts) /\ Tidy(log'[h].attempts)
              /\ \A f \in Gens : Tidy(entry'[<<h, f>>].attempts)
  <2>1. Tidy(entry'[<<h, g>>].attempts)
    BY <1>1, <1>2, <1>10, TidySteps DEF Reopens
  <2> QED
    BY <1>2, <1>10, <2>1 DEF Reopens
<1>11. ASSUME NEW g \in Gens, GivesUp(h, g)
       PROVE  /\ Tidy(rec'[h].attempts) /\ Tidy(log'[h].attempts)
              /\ \A f \in Gens : Tidy(entry'[<<h, f>>].attempts)
  BY <1>2, <1>11, TidyBasics DEF GivesUp
<1> QED
  BY <1>3, <1>4, <1>5, <1>6, <1>7, <1>8, <1>9, <1>10, <1>11 DEF RecordStep

LEMMA StepKeepsLive ==
  ASSUME TypeOK, NEW h \in Handles, RecordStep(h), RecordInv(h),
         ~disposed', live'[h] = 0
  PROVE  rec'[h].status # "running"
<1>1. rec[h] \in Record /\ log[h] \in Record
  BY DEF TypeOK
<1>2. CASE Reloads(h)
  BY <1>1, <1>2, RestoredFacts DEF Reloads
<1>3. CASE Registers(h)
  BY <1>3, RecordFields DEF Registers
<1>4. ASSUME NEW g \in Gens, Saves(h, g) PROVE rec'[h].status # "running"
  BY <1>4, RecordFields DEF Saves
<1>5. ASSUME NEW g \in Gens, Reopens(h, g) PROVE rec'[h].status # "running"
  BY <1>5 DEF Reopens, RecordInv
<1>6. ASSUME SameHands(h), rec'[h].status = rec[h].status
      PROVE  rec'[h].status # "running"
  BY <1>6 DEF SameHands, RecordInv
<1>7. ASSUME \/ Still(h) \/ Marks(h) \/ MarksStale(h)
             \/ \E g \in Gens : BeginsAttempt(h, g) \/ GivesUp(h, g)
      PROVE  SameHands(h) /\ rec'[h].status = rec[h].status
  <2>1. Marks(h) => rec'[h].status = rec[h].status
    BY <1>1, RecordFields DEF Marks
  <2>2. Marks(h) => SameHands(h)
    BY DEF Marks
  <2> QED
    BY <1>7, <2>1, <2>2 DEF Still, MarksStale, BeginsAttempt, GivesUp
<1> QED
  BY <1>2, <1>3, <1>4, <1>5, <1>6, <1>7 DEF RecordStep

LEMMA RecordsStep == RecordsInv /\ [Next]_vars => RecordsInv'
<1> SUFFICES ASSUME RecordsInv, [Next]_vars PROVE RecordsInv'
  OBVIOUS
<1>1. SlotInv /\ TypeOK /\ SlotInv'
  BY SlotStep DEF RecordsInv, SlotInv
<1> SUFFICES ASSUME NEW h \in Handles PROVE RecordInv(h)'
  BY <1>1 DEF RecordsInv
<1>2. RecordInv(h) /\ RecoveryIsKnown
  BY DEF RecordsInv, RecordInv, RecoveryIsKnown
<1>3. RecordStep(h) /\ RecoveryStep(h)
  BY <1>1, <1>2, EveryRecordStep
<1>4. /\ Tidy(rec'[h].attempts) /\ Tidy(log'[h].attempts)
      /\ \A g \in Gens : Tidy(entry'[<<h, g>>].attempts)
  BY <1>1, <1>2, <1>3, StepKeepsTidy
<1>5. ~disposed' /\ live'[h] = 0 => rec'[h].status # "running"
  BY <1>1, <1>2, <1>3, StepKeepsLive
<1>6. Tidy(recov'[h].copy.attempts)
  <2>1. recov[h] \in [phase : {"none", "shared", "stale"}, copy : Record]
    BY <1>1 DEF TypeOK
  <2> QED
    BY <1>2, <1>3, <2>1, TidyBasics DEF RecoveryStep, RecordInv
<1>7. /\ recov'[h].phase = "shared" => rec'[h].status # "absent"
      /\ recov'[h].phase = "stale" => recov'[h].copy.status # "absent"
  <2>1. \/ rec[h].status # "absent" => rec'[h].status # "absent"
        \/ recov'[h].phase = "none"
    BY <1>1, <1>2, <1>3, StepKeepsKnown DEF Reloads, NoRecovery
  <2>2. recov[h] \in [phase : {"none", "shared", "stale"}, copy : Record]
    BY <1>1 DEF TypeOK
  <2>3. CASE recov'[h] = recov[h]
    BY <1>2, <2>1, <2>3 DEF RecordInv
  <2>4. CASE recov'[h] = NoRecovery
    BY <2>4 DEF NoRecovery
  <2>5. CASE /\ rec[h].status # "absent" /\ rec'[h] = rec[h]
             /\ recov'[h] = [recov[h] EXCEPT !.phase = "shared"]
    BY <2>2, <2>5
  <2>6. CASE /\ recov[h].phase = "shared"
             /\ recov'[h] = [phase |-> "stale", copy |-> rec[h]]
    BY <1>2, <2>6 DEF RecordInv
  <2> QED BY <1>3, <2>3, <2>4, <2>5, <2>6 DEF RecoveryStep
<1> QED
  BY <1>4, <1>5, <1>6, <1>7 DEF RecordInv

LEMMA RecordsInit == Init => RecordsInv
<1> SUFFICES ASSUME Init PROVE RecordsInv
  OBVIOUS
<1>1. SlotInv
  BY SlotInit
<1> SUFFICES ASSUME NEW h \in Handles PROVE RecordInv(h)
  BY <1>1 DEF RecordsInv
<1>2. /\ rec[h] = NoRecord /\ log[h] = NoRecord /\ recov[h] = NoRecovery
      /\ \A g \in Gens : entry[<<h, g>>] = NoEntry
  BY DEF Init, Inst
<1>3. NoRecovery.phase = "none" /\ NoRecord.status = "absent"
  BY DEF NoRecovery, NoRecord
<1> QED
  BY <1>2, <1>3, TidyBasics DEF RecordInv

LEMMA RecordsInvariant == Spec => []RecordsInv
  BY RecordsInit, RecordsStep, PTL DEF Spec

\* restore(), wait and resumeHistorical: whenever a record says running, this
\* process has a session for the run or is going down.
THEOREM RunningMeansLive == Spec => []RunningRecordIsLive
<1>1. RecordsInv => RunningRecordIsLive
  BY DEF RecordsInv, RecordInv, RunningRecordIsLive
<1> QED
  BY <1>1, RecordsInvariant, PTL

\* Settlements, cancellations, resumes, restores and stale recoveries in any
\* order never persist an open attempt before the last one.
THEOREM EarlierAttemptsAreClosed == Spec => []OnlyLastAttemptOpen
<1>1. RecordsInv => OnlyLastAttemptOpen
  BY DEF RecordsInv, RecordInv, Tidy, OnlyLastAttemptOpen
<1> QED
  BY <1>1, RecordsInvariant, PTL

-----------------------------------------------------------------------------
(* Idempotent spawns. *)

\* The run a key maps to has a persisted record, which a restart finds.
KeysAreKnown ==
  \A k \in Keys : keys[k] # {} =>
    \E h \in Handles : KeyOf[h] = k /\ log[h].status # "absent"

LEMMA KeysStep ==
  ASSUME RecordsInv, KeysAreKnown, [Next]_vars
  PROVE  KeysAreKnown' /\ \A k \in Keys : keys[k] # {} => keys'[k] # {}
<1> USE DEF registryVars, callVars, recordVars, treeVars
<1>1. /\ TypeOK /\ SlotInv /\ RecoveryIsKnown /\ \A h \in Handles : RecordInv(h)
      /\ keys \in [Keys -> SUBSET Handles]
  BY DEF RecordsInv, SlotInv, RecordInv, RecoveryIsKnown, TypeOK
<1>2. \A h \in Handles : log[h].status # "absent" => log'[h].status # "absent"
  BY <1>1, EveryRecordStep, StepKeepsKnown
<1>3. CASE keys' = keys
  BY <1>2, <1>3 DEF KeysAreKnown
<1>4. ASSUME NEW o \in Handles, Launched(o)
      PROVE  KeysAreKnown' /\ \A k \in Keys : keys[k] # {} => keys'[k] # {}
  <2>1. keys' = [k \in Keys |-> IF k = KeyOf[o] THEN {o} ELSE keys[k]]
    BY <1>4 DEF Launched
  <2>2. log'[o].status # "absent"
    <3>1. \E e : \E status \in {"interrupted", "created"} : Save(o, e, status)
      BY <1>4 DEF Launched
    <3> QED BY <1>1, <3>1, SaveRecovery, RecordFields
  <2> QED BY <1>2, <2>1, <2>2 DEF KeysAreKnown
<1>5. CASE Restart
  <2>1. /\ log' = log
        /\ \A k \in Keys : IF KeyedRuns(k) = {} THEN keys'[k] = {}
                           ELSE \E h \in KeyedRuns(k) : keys'[k] = {h}
    BY <1>5 DEF Restart
  <2>2. \A k \in Keys : keys[k] # {} => KeyedRuns(k) # {}
    BY DEF KeysAreKnown, KeyedRuns
  <2>3. KeysAreKnown'
    BY <2>1 DEF KeysAreKnown, KeyedRuns
  <2> QED BY <2>1, <2>2, <2>3
<1>6. ASSUME NEW h \in Handles, Launching(h), ~Launched(h) PROVE keys' = keys
  BY <1>6
     DEF Launching, Spawn, SpawnOverLimit, PrepareDone, LaunchRejected, LaunchOrphaned
<1>7. ASSUME NEW h \in Handles, Calling(h) PROVE keys' = keys
  BY <1>7
     DEF Calling, SendInput, QueueInput, Wait, Interrupt, InterruptWithReason,
         ResumeLive, Close
<1>8. ASSUME NEW h \in Handles, Reopening(h) PROVE keys' = keys
  BY <1>8
     DEF Reopening, ResumeHistorical, ResumeRejected, Resumed, ResumeOverLimit,
         WorkspaceMissing, RecoverStart, RecoverDone, RecoverRefused
<1>9. ASSUME NEW i \in Inst, Turning(i) PROVE keys' = keys
  BY <1>9
     DEF Turning, RunTurnEnds, InputTurnEnds, RunVerified, RunRechecked,
         InputVerified, RunExpires
<1>10. ASSUME \/ \E h \in Handles : Releasing(h)
              \/ \E i \in Inst : ChildWrites(i)
              \/ ParentAbort \/ Dispose \/ UNCHANGED vars
       PROVE  keys' = keys
  BY <1>10
     DEF Releasing, ReleaseTree, RecordRelease, ChildWrites, ParentAbort, Dispose, vars
<1> QED
  BY <1>3, <1>4, <1>5, <1>6, <1>7, <1>8, <1>9, <1>10 DEF Next

\* A key that reached a run reaches one after every later step, because the
\* run's record never leaves the session file and a restart reads it back.
THEOREM KeysAlwaysSurvive == Spec => KeysSurvive
<1>1. Init => KeysAreKnown
  BY DEF Init, KeysAreKnown
<1>2. RecordsInv /\ KeysAreKnown /\ [Next]_vars
        => KeysAreKnown' /\ [\A k \in Keys : keys[k] # {} => keys'[k] # {}]_keys
  BY KeysStep
<1> QED
  BY <1>1, <1>2, RecordsInvariant, PTL DEF Spec, KeysSurvive

-----------------------------------------------------------------------------
(* Verified success. *)

\* A verifying session that rests on a completed settlement has passed.
RestsVerified(i) ==
  i[1] \in Verifying /\ ~entry[i].closed /\ ~Busy(i) /\ entry[i].latest = "completed"
    => child[i].verified

VerifiedInv == \A i \in Inst : RestsVerified(i)

LEMMA SettleEntry ==
  ASSUME TypeOK, NEW i \in Inst, NEW out, NEW giveBack, Settle(i, out, giveBack)
  PROVE  entry'[i].latest = out /\ entry'[i].closed = entry[i].closed
<1>1. entry \in [Inst -> Entry] /\ entry[i] \in Entry
  BY DEF TypeOK
<1>2. CASE entry[i].closed
  <2>1. entry' = [entry EXCEPT ![i].latest = out]
    BY <1>2 DEF Settle
  <2> QED BY <1>1, <2>1 DEF Entry
<1>3. CASE ~entry[i].closed
  <2>1. \E atts : entry' = [entry EXCEPT ![i] =
                              [entry[i] EXCEPT !.latest = out, !.attempts = atts]]
    BY <1>1, <1>3 DEF Settle, Entry
  <2> QED BY <1>1, <2>1 DEF Entry
<1> QED BY <1>2, <1>3

LEMMA TurningVerified ==
  ASSUME SlotInv, NEW i \in Inst, Turning(i)
  PROVE  RestsVerified(i)'
<1>1. TypeOK /\ child \in [Inst -> Child] /\ child[i] \in Child
  BY DEF SlotInv, TypeOK
<1>2. Reported(i) \in Outcomes /\ "failed" \in Outcomes /\ "failed" # "completed"
  BY <1>1, ReportedType, TypeParts DEF TypeInParts, Outcomes
<1>3. ASSUME NEW o \in TurnOutcomes, RunTurnEnds(i, o) PROVE RestsVerified(i)'
  <2> DEFINE r == Ended(child[i].st, o)
  <2>1. r.last \in Outcomes /\ (r.last = "completed" => r.ok)
    BY EndedType DEF Ended
  <2>2. CASE r.ok /\ i[1] \in Verifying
    <3>1. child'[i].run \in {"verify", "recheck"}
      BY <1>1, <1>3, <2>2 DEF RunTurnEnds, Child
    <3> QED BY <3>1 DEF RestsVerified, Busy
  <2>3. CASE ~(r.ok /\ i[1] \in Verifying)
    <3>1. Settle(i, r.last, FALSE)
      BY <1>3, <2>3 DEF RunTurnEnds
    <3>2. entry'[i].latest = r.last
      BY <1>1, <2>1, <3>1, SettleEntry
    <3> QED BY <2>1, <2>3, <3>2 DEF RestsVerified
  <2> QED BY <2>2, <2>3
<1>4. ASSUME NEW o \in TurnOutcomes, InputTurnEnds(i, o) PROVE RestsVerified(i)'
  <2> DEFINE r == Ended(child[i].st, o)
  <2>1. r.last \in Outcomes /\ (r.last = "completed" => r.ok)
    BY EndedType DEF Ended
  <2>2. CASE r.ok /\ i[1] \in Verifying
    <3>1. child'[i].input = "verify"
      BY <1>1, <1>4, <2>2 DEF InputTurnEnds, Child
    <3> QED BY <3>1 DEF RestsVerified, Busy
  <2>3. CASE ~(r.ok /\ i[1] \in Verifying)
    <3>1. Settle(i, r.last, child[i].reattach /\ ~r.ok)
      BY <1>4, <2>3 DEF InputTurnEnds
    <3>2. entry'[i].latest = r.last
      BY <1>1, <2>1, <3>1, SettleEntry
    <3> QED BY <2>1, <2>3, <3>2 DEF RestsVerified
  <2> QED BY <2>2, <2>3
<1>5. ASSUME NEW pass \in BOOLEAN, RunVerified(i, pass) PROVE RestsVerified(i)'
  <2>1. CASE Settle(i, "failed", FALSE)
    <3>1. entry'[i].latest = "failed"
      BY <1>1, <1>2, <2>1, SettleEntry
    <3> QED BY <3>1 DEF RestsVerified
  <2>2. CASE pass \/ (child[i].st # "closed" /\ ~InFlight(i))
    <3>1. child'[i].run \in {"recheck", "fix"}
      BY <1>1, <1>5, <2>2 DEF RunVerified, Child
    <3> QED BY <3>1 DEF RestsVerified, Busy
  <2> QED BY <1>5, <2>1, <2>2 DEF RunVerified
<1>6. ASSUME NEW pass \in BOOLEAN, RunRechecked(i, pass) PROVE RestsVerified(i)'
  <2>1. child'[i].verified = pass
    BY <1>1, <1>6 DEF RunRechecked, Child
  <2>2. entry'[i].latest = IF pass THEN Reported(i) ELSE "failed"
    BY <1>1, <1>2, <1>6, SettleEntry DEF RunRechecked
  <2> QED BY <2>1, <2>2 DEF RestsVerified
<1>7. ASSUME NEW pass \in BOOLEAN, InputVerified(i, pass) PROVE RestsVerified(i)'
  <2>1. child'[i].verified = pass
    BY <1>1, <1>7 DEF InputVerified, Child
  <2>2. entry'[i].latest = IF pass THEN Reported(i) ELSE "failed"
    BY <1>1, <1>2, <1>7, SettleEntry DEF InputVerified
  <2> QED BY <2>1, <2>2 DEF RestsVerified
<1>8. CASE RunExpires(i)
  <2>1. entry'[i].latest = "failed"
    BY <1>1, <1>2, <1>8, SettleEntry DEF RunExpires
  <2> QED BY <2>1 DEF RestsVerified
<1> QED
  BY <1>3, <1>4, <1>5, <1>6, <1>7, <1>8 DEF Turning

\* What RestsVerified reads of a session is left alone.
LEMMA VerifiedStays ==
  ASSUME NEW i \in Inst, RestsVerified(i),
         child'[i].run = child[i].run, child'[i].input = child[i].input,
         child'[i].verified = child[i].verified,
         entry'[i].latest = entry[i].latest,
         entry'[i].closed = entry[i].closed
  PROVE  RestsVerified(i)'
  BY DEF RestsVerified, Busy

LEMMA CancelVerified ==
  ASSUME TypeOK, VerifiedInv, NEW H \in SUBSET Handles, Cancel(H)
  PROVE  VerifiedInv'
<1> SUFFICES ASSUME NEW i \in Inst PROVE RestsVerified(i)'
  BY DEF VerifiedInv
<1>1. child[i] \in Child /\ entry[i] \in Entry /\ RestsVerified(i)
  BY DEF TypeOK, VerifiedInv
<1>2. child'[i] = child[i] \/ child'[i] = [child[i] EXCEPT !.st = "interrupted"]
  BY DEF Cancel
<1>3. entry'[i].latest = entry[i].latest /\ entry'[i].closed = entry[i].closed
  BY <1>1 DEF Cancel, Entry
<1> QED
  BY <1>1, <1>2, <1>3, VerifiedStays DEF Child

LEMMA CallingVerified ==
  ASSUME SlotInv, VerifiedInv, NEW o \in Handles, Calling(o), NEW j \in Inst
  PROVE  RestsVerified(j)'
<1> DEFINE i == Cur(o)
<1>1. /\ TypeOK /\ child \in [Inst -> Child] /\ entry \in [Inst -> Entry]
      /\ RestsVerified(j)
  BY DEF SlotInv, TypeOK, VerifiedInv
<1>2. CASE InterruptWithReason(o)
  BY <1>1, <1>2, CancelVerified DEF InterruptWithReason, VerifiedInv
<1>3. ASSUME ~InterruptWithReason(o) PROVE RestsVerified(j)'
  <2>1. i \in Inst /\ Local(i) /\ child[i] \in Child /\ entry[i] \in Entry
    BY <1>1, <1>3, CallingIsLocal
  <2>2. CASE j # i
    <3>1. child'[j] = child[j] /\ entry'[j] = entry[j]
      BY <2>1, <2>2 DEF Local
    <3> QED BY <1>1, <3>1, VerifiedStays
  <2> SUFFICES ASSUME j = i PROVE RestsVerified(j)'
    BY <2>2
  <2> HIDE DEF i
  <2>3. \A c \in Child : StartInput(c).input = "turn"
    BY DEF StartInput, Child
  <2>4. CASE SendInput(o)
    <3>1. child'[j].input = "turn"
      BY <1>1, <2>1, <2>3, <2>4 DEF SendInput, i
    <3> QED BY <3>1 DEF RestsVerified, Busy
  <2>5. CASE QueueInput(o)
    <3>1. child' = child /\ InFlight(j)
      BY <2>5 DEF QueueInput, i
    <3> QED BY <3>1 DEF RestsVerified, Busy, InFlight
  <2>6. CASE Wait(o)
    BY <1>1, <2>6, VerifiedStays DEF Wait
  <2>7. CASE Interrupt(o)
    <3>1. entry' = entry /\ child' = [child EXCEPT ![j].st = "interrupted"]
      BY <2>7 DEF Interrupt, i
    <3> QED BY <1>1, <2>1, <3>1, VerifiedStays DEF Child
  <2>8. CASE ResumeLive(o)
    <3>1. child' = [child EXCEPT ![j] = IF InFlight(j) THEN @ ELSE StartInput(@)]
      BY <2>8 DEF ResumeLive, i
    <3>2. \/ InFlight(j) /\ child'[j] = child[j]
          \/ child'[j].input = "turn"
      BY <1>1, <2>1, <2>3, <3>1
    <3> QED BY <3>2 DEF RestsVerified, Busy, InFlight
  <2>9. CASE Close(o)
    <3>1. entry'[j].closed
      BY <1>1, <2>1, <2>9 DEF Close, Entry, i
    <3> QED BY <3>1 DEF RestsVerified
  <2> QED
    BY <1>3, <2>4, <2>5, <2>6, <2>7, <2>8, <2>9 DEF Calling
<1> QED BY <1>2, <1>3

LEMMA VerifiedStep == SlotInv /\ VerifiedInv /\ [Next]_vars => VerifiedInv'
<1> SUFFICES ASSUME SlotInv, VerifiedInv, [Next]_vars, NEW j \in Inst
             PROVE  RestsVerified(j)'
  BY DEF VerifiedInv
<1> USE DEF registryVars, callVars, recordVars, treeVars
<1>1. /\ TypeOK /\ child \in [Inst -> Child] /\ entry \in [Inst -> Entry]
      /\ RestsVerified(j) /\ child[j] \in Child
  BY DEF SlotInv, TypeOK, VerifiedInv
<1>2. ASSUME child'[j] = child[j], entry'[j] = entry[j] PROVE RestsVerified(j)'
  BY <1>1, <1>2, VerifiedStays
<1>3. ASSUME entry'[j].latest # "completed" PROVE RestsVerified(j)'
  BY <1>3 DEF RestsVerified
<1>4. ASSUME NEW i \in Inst, Turning(i) PROVE RestsVerified(j)'
  <2>1. CASE j = i
    BY <1>4, <2>1, TurningVerified
  <2>2. CASE j # i
    <3>1. child'[j] = child[j] /\ entry'[j] = entry[j]
      BY <1>4, <2>2, TurningIsLocal DEF Local
    <3> QED BY <1>2, <3>1
  <2> QED BY <2>1, <2>2
<1>5. ASSUME NEW h \in Handles, Launching(h) PROVE RestsVerified(j)'
  <2>1. CASE Launched(h)
    <3>1. (entry'[j] = entry[j] /\ child'[j] = child[j]) \/ entry'[j].latest = "none"
      BY <1>1, <2>1 DEF Launched, NoEntry
    <3> QED BY <1>2, <1>3, <3>1
  <2>2. CASE ~Launched(h)
    BY <1>2, <1>5, <2>2
       DEF Launching, Spawn, SpawnOverLimit, PrepareDone, LaunchRejected,
           LaunchOrphaned
  <2> QED BY <2>1, <2>2
<1>6. ASSUME NEW h \in Handles, Reopening(h) PROVE RestsVerified(j)'
  <2>1. ASSUME NEW g \in Gens, ResumeHistorical(h, g) PROVE RestsVerified(j)'
    <3>1. /\ child' = child
          /\ entry' = [entry EXCEPT ![<<h, g>>] =
               [NoEntry EXCEPT !.attempts = Epochs(rec[h].attempts,
                                                   StatusOutcome(rec[h]))]]
      BY <2>1 DEF ResumeHistorical
    <3>2. entry'[j] = entry[j] \/ entry'[j].latest = "none"
      BY <1>1, <3>1 DEF NoEntry
    <3> QED BY <1>2, <1>3, <3>1, <3>2
  <2>2. ASSUME NEW g \in Gens, ResumeRejected(h, g) PROVE RestsVerified(j)'
    <3>1. child' = child /\ entry' = [entry EXCEPT ![<<h, g>>] = NoEntry]
      BY <2>2 DEF ResumeRejected
    <3>2. entry'[j] = entry[j] \/ entry'[j].latest = "none"
      BY <1>1, <3>1 DEF NoEntry
    <3> QED BY <1>2, <1>3, <3>1, <3>2
  <2>3. ASSUME NEW g \in Gens, Resumed(h, g) PROVE RestsVerified(j)'
    <3>1. entry' = entry /\ (child'[j] = child[j] \/ child'[j].input = "turn")
      BY <1>1, <2>3 DEF Resumed, StartInput, NoChild
    <3>2. CASE child'[j] = child[j]
      BY <1>2, <3>1, <3>2
    <3>3. CASE child'[j].input = "turn"
      BY <3>3 DEF RestsVerified, Busy
    <3> QED BY <3>1, <3>2, <3>3
  <2>4. CASE \/ ResumeOverLimit(h) \/ WorkspaceMissing(h) \/ RecoverStart(h)
             \/ RecoverDone(h) \/ RecoverRefused(h)
    BY <1>2, <2>4
       DEF ResumeOverLimit, WorkspaceMissing, RecoverStart, RecoverDone, RecoverRefused
  <2> QED BY <1>6, <2>1, <2>2, <2>3, <2>4 DEF Reopening
<1>7. CASE ParentAbort
  <2>1. foreground \in SUBSET Handles
    BY <1>1 DEF TypeOK
  <2> QED BY <1>1, <1>7, <2>1, CancelVerified DEF ParentAbort, VerifiedInv
<1>8. CASE Dispose
  <2>1. /\ entry' = entry
        /\ child'[j] = child[j] \/ child'[j] = [child[j] EXCEPT !.st = "closed"]
    BY <1>8 DEF Dispose
  <2> QED BY <1>1, <2>1, VerifiedStays DEF Child
<1>9. CASE Restart
  BY <1>3, <1>9 DEF Restart, NoEntry
<1>10. ASSUME \/ \E h \in Handles : Releasing(h)
              \/ \E i \in Inst : ChildWrites(i)
              \/ UNCHANGED vars
       PROVE  RestsVerified(j)'
  BY <1>2, <1>10 DEF Releasing, ReleaseTree, RecordRelease, ChildWrites, vars
<1> QED
  BY <1>4, <1>5, <1>6, <1>7, <1>8, <1>9, <1>10, CallingVerified DEF Next

\* requireVerifiedTurn: no interleaving of the run, its repair turn, inputs,
\* interrupts and late results leaves a verifying run at rest on a completed
\* settlement without a verification that passed since its last turn.
THEOREM SuccessRestsOnVerification == Spec => []SuccessIsVerified
<1>1. Init => VerifiedInv
  BY DEF Init, VerifiedInv, RestsVerified, NoEntry
<1>2. SlotInv /\ VerifiedInv => SuccessIsVerified
  <2> SUFFICES ASSUME SlotInv, VerifiedInv, NEW h \in Verifying,
                      Open(h), ~Busy(Cur(h)), entry[Cur(h)].latest = "completed"
               PROVE  child[Cur(h)].verified
    BY DEF SuccessIsVerified
  <2>1. h \in Handles /\ Cur(h)[1] = h /\ ~entry[Cur(h)].closed
    BY SetsAssumption DEF Cur, Open
  <2>2. Cur(h) \in Inst
    BY <2>1, Instances DEF SlotInv
  <2> QED BY <2>1, <2>2 DEF VerifiedInv, RestsVerified
<1> QED
  BY <1>1, <1>2, SlotInit, SlotStep, VerifiedStep, PTL DEF Spec

-----------------------------------------------------------------------------
(* History: what a save may never rewrite.  A run is watched by one session *)
(* at a time unless callers resume it twice at once, and its record is only *)
(* replaced behind its back by a recovery, so both are excluded here.       *)

\* At most one session of a run is in hand; none has a turn once the id maps
\* to none.
OneInHand(h) ==
  /\ \A f, g \in Gens : InHand(h, f) /\ InHand(h, g) => f = g
  /\ ~disposed /\ live[h] = 0 => \A g \in Gens : ~Active(<<h, g>>)

\* Recovery is not asked for.
Unrecovered(h) == h \notin Recovered /\ recov[h].phase = "none"

\* Once the record says closed, so does every session in hand.
ShutInv(h) ==
  /\ log[h].status = "closed" <=> rec[h].status = "closed"
  /\ rec[h].status = "closed"
       => \A g \in Gens : InHand(h, g) => entry[<<h, g>>].closed

\* The session file, the map and the session in hand each hold a later
\* version of the attempts.
HistoryInv(h) ==
  /\ log[h].status = "absent" => Len(log[h].attempts) = 0
  /\ Extends(log[h].attempts, rec[h].attempts)
  /\ log[h].status = "running" => GoesOn(log[h].attempts)
  /\ rec[h].status = "running" => GoesOn(rec[h].attempts)
  /\ \A g \in Gens : InHand(h, g) =>
       /\ Extends(rec[h].attempts, entry[<<h, g>>].attempts)
       /\ GoesOn(entry[<<h, g>>].attempts)

LEMMA StepKeepsOne ==
  ASSUME TypeOK, ~ConcurrentResume, NEW h \in Handles, RecordStep(h), OneInHand(h)
  PROVE  OneInHand(h)'
<1>0. \A g \in Gens : g # 0
  BY DEF Gens
<1>1. ASSUME SameHands(h) PROVE OneInHand(h)'
  BY <1>0, <1>1 DEF SameHands, OneInHand
<1>2. CASE Registers(h)
  BY <1>2 DEF Registers, OneInHand
<1>3. CASE Reloads(h)
  BY <1>3 DEF Reloads, OneInHand, InHand
<1>4. ASSUME NEW g \in Gens, Reopens(h, g) PROVE OneInHand(h)'
  <2>1. \A f \in Gens : ~InHand(h, f)
    BY <1>0, <1>4 DEF Reopens, OneInHand, InHand
  <2>2. \A f \in Gens : InHand(h, f)' => f = g
    BY <1>4, <2>1 DEF Reopens
  <2>3. \A f \in Gens : ~Active(<<h, f>>)'
    BY <1>4, <2>2 DEF Reopens, InHand
  <2> QED BY <2>2, <2>3 DEF OneInHand
<1> QED
  BY <1>1, <1>2, <1>3, <1>4
     DEF RecordStep, Still, Saves, BeginsAttempt, Marks, MarksStale, GivesUp

LEMMA StepKeepsUnrecovered ==
  ASSUME NEW h \in Handles, RecoveryStep(h), Unrecovered(h)
  PROVE  Unrecovered(h)'
  BY DEF RecoveryStep, Unrecovered, NoRecovery

LEMMA StepKeepsShut ==
  ASSUME TypeOK, NEW h \in Handles, RecordStep(h),
         OneInHand(h), Unrecovered(h), ShutInv(h)
  PROVE  /\ ShutInv(h)'
         /\ log[h].status = "closed" => log'[h].status = "closed"
<1>1. rec[h] \in Record /\ log[h] \in Record
  BY DEF TypeOK
<1> DEFINE Kept == log[h].status = "closed" => log'[h].status = "closed"
<1>2. CASE Still(h)
  BY <1>2 DEF Still, SameHands, SameEntries, ShutInv
<1>3. CASE Registers(h)
  <2>1. rec'[h].status # "closed" /\ log'[h] = rec'[h]
    BY <1>3, RecordFields DEF Registers
  <2>2. log[h].status # "closed"
    BY <1>3 DEF Registers, Unknown
  <2> QED BY <2>1, <2>2 DEF ShutInv
<1>4. CASE Marks(h)
  <2>1. rec'[h].status = rec[h].status /\ log'[h].status = rec[h].status
    BY <1>1, <1>4, RecordFields DEF Marks
  <2> QED
    BY <1>4, <2>1 DEF Marks, SameHands, SameEntries, ShutInv
<1>5. CASE Reloads(h)
  <2>1. rec'[h].status = "closed" <=> log[h].status = "closed"
    BY <1>1, <1>5, RestoredFacts DEF Reloads
  <2> QED
    BY <1>5, <2>1 DEF Reloads, ShutInv
<1>6. ASSUME NEW g \in Gens, Saves(h, g) PROVE ShutInv(h)' /\ Kept
  <2>1. InHand(h, g) /\ ~entry[<<h, g>>].closed /\ log'[h] = rec'[h]
    BY <1>6 DEF Saves
  <2>2. rec'[h].status = "closed" => entry'[<<h, g>>].closed
    BY <1>6, RecordFields DEF Saves
  <2>3. \A f \in Gens : InHand(h, f)' => f = g
    BY <1>6 DEF Saves, SameHands, OneInHand
  <2>4. log[h].status # "closed"
    BY <2>1 DEF ShutInv
  <2> QED BY <2>1, <2>2, <2>3, <2>4 DEF ShutInv
<1>7. ASSUME NEW g \in Gens, BeginsAttempt(h, g) PROVE ShutInv(h)' /\ Kept
  BY <1>7 DEF BeginsAttempt, SameHands, ShutInv
<1>8. ASSUME NEW g \in Gens, Reopens(h, g) PROVE ShutInv(h)' /\ Kept
  BY <1>8 DEF Reopens, ShutInv
<1>9. ASSUME NEW g \in Gens, GivesUp(h, g) PROVE ShutInv(h)' /\ Kept
  BY <1>9 DEF GivesUp, SameHands, ShutInv
<1> QED
  BY <1>2, <1>3, <1>4, <1>5, <1>6, <1>7, <1>8, <1>9
     DEF RecordStep, MarksStale, Unrecovered

LEMMA StepKeepsHistory ==
  ASSUME TypeOK, TypeOK', NEW h \in Handles, RecordStep(h),
         OneInHand(h), Unrecovered(h), HistoryInv(h)
  PROVE  HistoryInv(h)' /\ Extends(log[h].attempts, log'[h].attempts)
<1> DEFINE R == rec[h].attempts
           L == log[h].attempts
           A(g) == entry[<<h, g>>].attempts
           Goal == HistoryInv(h)' /\ Extends(L, log'[h].attempts)
<1>1. /\ rec[h] \in Record /\ log[h] \in Record
      /\ R \in Seq(Attempt) /\ L \in Seq(Attempt)
      /\ \A g \in Gens : A(g) \in Seq(Attempt)
      /\ rec'[h].attempts \in Seq(Attempt)
      /\ \A g \in Gens : entry'[<<h, g>>].attempts \in Seq(Attempt)
  <2>1. /\ rec[h] \in Record /\ log[h] \in Record /\ rec'[h] \in Record
        /\ \A i \in Inst : entry[i] \in Entry /\ entry'[i] \in Entry
    BY DEF TypeOK
  <2>2. \A r \in Record : r.attempts \in Seq(Attempt)
    BY DEF Record
  <2>3. \A e \in Entry : e.attempts \in Seq(Attempt)
    BY DEF Entry
  <2>4. \A g \in Gens : <<h, g>> \in Inst
    BY DEF Inst
  <2> QED BY <2>1, <2>2, <2>3, <2>4
<1>2. /\ Extends(L, R) /\ Extends(L, L) /\ Extends(R, R)
      /\ \A g \in Gens : InHand(h, g) => Extends(R, A(g)) /\ GoesOn(A(g))
  BY <1>1, ExtendsOrder DEF HistoryInv
<1>3. CASE Still(h)
  BY <1>2, <1>3 DEF Still, SameHands, SameEntries, HistoryInv
<1>4. CASE Registers(h)
  <2> DEFINE i == <<h, 1>>
  <2>1. /\ log'[h] = rec'[h] /\ rec'[h].attempts = entry'[i].attempts
        /\ rec'[h].status \notin {"absent", "running"}
        /\ \E a \in Attempt : ~a.ended /\ entry'[i].attempts = <<a>>
        /\ \A f \in Gens : InHand(h, f)' => f = 1
    BY <1>4, RecordFields DEF Registers
  <2>2. GoesOn(entry'[i].attempts)
    BY <2>1 DEF GoesOn
  <2>3. Len(L) = 0
    BY <1>4 DEF Registers, Unknown, HistoryInv
  <2>4. Extends(L, log'[h].attempts)
    BY <2>3 DEF Extends
  <2>5. Extends(rec'[h].attempts, rec'[h].attempts)
    BY <1>1, ExtendsOrder
  <2> QED
    BY <2>1, <2>2, <2>4, <2>5 DEF HistoryInv
<1>5. CASE Marks(h)
  <2>1. /\ log'[h] = rec'[h] /\ rec'[h].attempts = R /\ rec'[h].status = rec[h].status
        /\ rec[h].status # "absent" /\ SameHands(h) /\ SameEntries(h)
    BY <1>1, <1>5, RecordFields DEF Marks
  <2> QED
    BY <1>2, <2>1 DEF SameHands, SameEntries, HistoryInv
<1>6. CASE Reloads(h)
  <2>1. /\ log[h].status = "running" => GoesOn(log[h].attempts)
        /\ log'[h] = log[h] /\ rec'[h] = Restored(log[h])
        /\ \A g \in Gens : ~InHand(h, g)'
    BY <1>6 DEF Reloads, HistoryInv
  <2>2. Extends(L, rec'[h].attempts) /\ rec'[h].status # "running"
    BY <1>1, <2>1, RestoredExtends, RestoredFacts
  <2> QED
    BY <1>2, <2>1, <2>2 DEF HistoryInv
<1>7. ASSUME NEW g \in Gens, Saves(h, g) PROVE Goal
  <2> DEFINE new == entry'[<<h, g>>].attempts
  <2>1. /\ log'[h] = rec'[h] /\ rec'[h].attempts = new /\ rec'[h].status # "absent"
        /\ InHand(h, g) /\ SameHands(h)
        /\ new = A(g) \/ \E o \in AttemptOutcomes : new = SetOutcome(A(g), o)
    BY <1>7, RecordFields DEF Saves
  <2>2. Extends(R, A(g)) /\ GoesOn(A(g)) /\ A(g) \in Seq(Attempt) /\ new \in Seq(Attempt)
    BY <1>1, <1>2, <2>1
  <2> HIDE DEF new, A
  <2>3. Extends(A(g), new) /\ GoesOn(new)
    <3>1. CASE new = A(g)
      BY <2>2, <3>1, ExtendsOrder
    <3>2. CASE \E o \in AttemptOutcomes : new = SetOutcome(A(g), o)
      <4>1. PICK o \in AttemptOutcomes : new = SetOutcome(A(g), o)
        BY <3>2
      <4> QED BY <2>2, <4>1, GrowthExtends
    <3> QED BY <2>1, <3>1, <3>2
  <2>4. Extends(R, new) /\ Extends(new, new)
    BY <1>1, <2>2, <2>3, ExtendsOrder
  <2>5. Extends(L, new)
    BY <1>1, <1>2, <2>2, <2>4, ExtendsOrder
  <2>6. \A f \in Gens : InHand(h, f)' => f = g
    BY <2>1 DEF SameHands, OneInHand
  <2> QED
    BY <2>1, <2>3, <2>4, <2>5, <2>6 DEF HistoryInv, new
<1>8. ASSUME NEW g \in Gens, BeginsAttempt(h, g) PROVE Goal
  <2> DEFINE new == entry'[<<h, g>>].attempts
  <2>1. /\ log'[h] = log[h] /\ rec'[h] = rec[h] /\ InHand(h, g) /\ SameHands(h)
        /\ \E o \in AttemptOutcomes : new = Epochs(A(g), o)
        /\ \A f \in Gens : f # g => entry'[<<h, f>>] = entry[<<h, f>>]
    BY <1>8 DEF BeginsAttempt
  <2>2. Extends(A(g), new) /\ GoesOn(new)
    BY <1>1, <2>1, GrowthExtends
  <2>3. A(g) \in Seq(Attempt) /\ new \in Seq(Attempt) /\ Extends(R, A(g))
    BY <1>1, <1>2, <2>1
  <2> HIDE DEF new
  <2>4. Extends(R, new)
    BY <1>1, <2>2, <2>3, ExtendsOrder
  <2>5. \A f \in Gens : InHand(h, f)' => f = g
    BY <2>1 DEF SameHands, OneInHand
  <2> QED
    BY <1>2, <2>1, <2>2, <2>4, <2>5 DEF HistoryInv, new
<1>9. ASSUME NEW g \in Gens, Reopens(h, g) PROVE Goal
  <2> DEFINE new == entry'[<<h, g>>].attempts
  <2>1. /\ log'[h] = log[h] /\ rec'[h] = rec[h]
        /\ \E o \in AttemptOutcomes : new = Epochs(R, o)
        /\ \A f \in Gens : f # g => /\ entry'[<<h, f>>] = entry[<<h, f>>]
                                    /\ InHand(h, f)' => InHand(h, f)
    BY <1>9 DEF Reopens
  <2>2. Extends(R, new) /\ GoesOn(new)
    BY <1>1, <2>1, GrowthExtends
  <2> HIDE DEF new
  <2>3. \A f \in Gens : InHand(h, f)' =>
           /\ Extends(R, entry'[<<h, f>>].attempts)
           /\ GoesOn(entry'[<<h, f>>].attempts)
    BY <1>2, <2>1, <2>2 DEF new
  <2> QED
    BY <1>2, <2>1, <2>3 DEF HistoryInv
<1>10. ASSUME NEW g \in Gens, GivesUp(h, g) PROVE Goal
  <2>1. /\ log'[h] = log[h] /\ rec'[h] = rec[h] /\ ~InHand(h, g)' /\ SameHands(h)
        /\ \A f \in Gens : f # g => entry'[<<h, f>>] = entry[<<h, f>>]
    BY <1>10 DEF GivesUp
  <2>2. \A f \in Gens : InHand(h, f)' =>
           /\ Extends(R, entry'[<<h, f>>].attempts)
           /\ GoesOn(entry'[<<h, f>>].attempts)
    BY <1>2, <2>1 DEF SameHands
  <2> QED
    BY <1>2, <2>1, <2>2 DEF HistoryInv
<1> QED
  BY <1>3, <1>4, <1>5, <1>6, <1>7, <1>8, <1>9, <1>10
     DEF RecordStep, MarksStale, Unrecovered

\* The invariant of the runs whose recovery is not asked for.
PastInv ==
  /\ RecordsInv
  /\ \A h \in Handles : OneInHand(h)
  /\ \A h \in Handles \ Recovered : Unrecovered(h) /\ ShutInv(h) /\ HistoryInv(h)

\* A closed run stays closed and what ended stays, for one run.
PastKept(h) ==
  /\ log[h].status = "closed" => log'[h].status = "closed"
  /\ Extends(log[h].attempts, log'[h].attempts)

LEMMA PastInit == Init => PastInv
<1> SUFFICES ASSUME Init PROVE PastInv
  OBVIOUS
<1>1. RecordsInv
  BY RecordsInit
<1>2. ASSUME NEW h \in Handles
      PROVE  /\ OneInHand(h)
             /\ h \notin Recovered => Unrecovered(h) /\ ShutInv(h) /\ HistoryInv(h)
  <2>1. /\ rec[h] = NoRecord /\ log[h] = NoRecord /\ recov[h] = NoRecovery
        /\ live[h] = 0 /\ rebuild[h] = {}
        /\ \A g \in Gens : child[<<h, g>>] = NoChild
    BY DEF Init, Inst
  <2>2. \A g \in Gens : ~Active(<<h, g>>) /\ ~InHand(h, g)
    BY <2>1 DEF Active, InHand, NoChild, Gens
  <2>3. /\ NoRecord.status = "absent" /\ NoRecord.attempts = <<>>
        /\ NoRecovery.phase = "none"
    BY DEF NoRecord, NoRecovery
  <2>4. Len(<<>>) = 0 /\ Extends(<<>>, <<>>)
    BY DEF Extends
  <2> QED
    BY <2>1, <2>2, <2>3, <2>4 DEF OneInHand, Unrecovered, ShutInv, HistoryInv
<1> QED
  BY <1>1, <1>2 DEF PastInv

LEMMA PastStep ==
  ASSUME ~ConcurrentResume, PastInv, [Next]_vars
  PROVE  PastInv' /\ \A h \in Handles \ Recovered : PastKept(h)
<1>1. RecordsInv' /\ TypeOK /\ TypeOK' /\ SlotInv /\ RecoveryIsKnown
  BY RecordsStep DEF PastInv, RecordsInv, RecordInv, SlotInv, RecoveryIsKnown
<1>2. \A h \in Handles : RecordStep(h) /\ RecoveryStep(h)
  BY <1>1, EveryRecordStep
<1>3. \A h \in Handles : OneInHand(h)'
  BY <1>1, <1>2, StepKeepsOne DEF PastInv
<1>4. ASSUME NEW h \in Handles \ Recovered
      PROVE  Unrecovered(h)' /\ ShutInv(h)' /\ HistoryInv(h)' /\ PastKept(h)
  <2>1. OneInHand(h) /\ Unrecovered(h) /\ ShutInv(h) /\ HistoryInv(h)
    BY DEF PastInv
  <2>2. Unrecovered(h)'
    BY <1>2, <2>1, StepKeepsUnrecovered
  <2>3. ShutInv(h)' /\ (log[h].status = "closed" => log'[h].status = "closed")
    BY <1>1, <1>2, <2>1, StepKeepsShut
  <2>4. HistoryInv(h)' /\ Extends(log[h].attempts, log'[h].attempts)
    BY <1>1, <1>2, <2>1, StepKeepsHistory
  <2> QED BY <2>2, <2>3, <2>4 DEF PastKept
<1> QED
  BY <1>1, <1>3, <1>4 DEF PastInv

\* Unless a worktree recovery puts back the record it read, or callers resume
\* one run twice at once, a run that was closed stays closed in the session
\* file: no late settlement, wait, cancellation, resume or restart reopens it.
THEOREM ClosedRunsStayClosed ==
  ASSUME ~ConcurrentResume, Recovered = {}
  PROVE  Spec => ClosedIsFinal
<1>1. PastInv /\ [Next]_vars
        => PastInv' /\ [\A h \in Handles :
                          log[h].status = "closed" => log'[h].status = "closed"]_log
  BY PastStep DEF PastKept
<1> QED
  BY <1>1, PastInit, PTL DEF Spec, ClosedIsFinal

\* Under the same two conditions, no save ever rewrites or drops an attempt
\* the session file holds as ended.
THEOREM EndedAttemptsStay ==
  ASSUME ~ConcurrentResume, Recovered = {}
  PROVE  Spec => EndedAttemptsAreFinal
<1>1. PastInv /\ [Next]_vars
        => PastInv' /\ [\A h \in Handles : \A n \in 1 .. Len(log[h].attempts) :
                          log[h].attempts[n].ended =>
                            /\ n <= Len(log'[h].attempts)
                            /\ log'[h].attempts[n] = log[h].attempts[n]]_log
  BY PastStep DEF PastKept, Extends
<1> QED
  BY <1>1, PastInit, PTL DEF Spec, EndedAttemptsAreFinal
=============================================================================
