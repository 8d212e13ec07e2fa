------------------------ MODULE AgentSessionProofs ------------------------
(***************************************************************************)
(* Theorems about AgentSession for every set of messages, every number of  *)
(* tool calls and retries, every bound and limit: aborts, types, the       *)
(* transcript, overflow recoveries, queued messages and their display, and *)
(* what a request rests on.                                                *)
(***************************************************************************)
EXTENDS AgentSession, SequenceTheorems, FiniteSetTheorems, WellFoundedInduction, TLAPS

-----------------------------------------------------------------------------
(* Aborts.  Where a continuation may start from: post-run handling is never *)
(* entered under a stop request, and a running session has a run whose      *)
(* signal abort() can set.                                                  *)

StopInv ==
  /\ sc = "run" => pc # "off"
  /\ sc = "run" /\ stopReq => aborted
  /\ sc = "post" => ~stopReq

LEMMA StopInit == Init => StopInv
  BY DEF Init, LoopInit, StopInv

\* Every step of the loop keeps the signal, and the run is not over yet.
LEMMA LoopKeeps ==
  ASSUME sc = "run", RunStep \/ EndTurn \/ BreakRun
  PROVE  aborted' = aborted /\ pc' # "off" /\ sc' = sc /\ stopReq' = stopReq
  <1>1. CASE RunStep
    <2>1. sc' = sc /\ stopReq' = stopReq
      BY <1>1 DEF RunStep
    <2>2. CASE Deliver
      BY <2>1, <2>2 DEF Deliver
    <2>3. CASE FirstPoll
      BY <2>1, <2>3 DEF FirstPoll
    <2>4. CASE Prepared
      BY <2>1, <2>4 DEF Prepared
    <2>5. CASE OutOfBudget
      BY <2>1, <2>5 DEF OutOfBudget
    <2>6. ASSUME NEW n, NEW s, NEW par, Answer(n, s, par)
          PROVE  aborted' = aborted /\ pc' # "off"
      BY <2>6, Zenon DEF Answer
    <2>7. ASSUME NEW s, Refuse(s)
          PROVE  aborted' = aborted /\ pc' # "off"
      BY <2>7 DEF Refuse
    <2>8. ASSUME NEW how, PrepareCall(how)
          PROVE  aborted' = aborted /\ pc' # "off"
      <3> DEFINE st == [batch.st EXCEPT ![batch.next] = IF how = "ready" /\ ~batch.par THEN "run" ELSE how]
      <3>1. aborted' = aborted
        BY <2>8, Zenon DEF PrepareCall
      <3>2. \/ pc' = (IF aborted \/ LastCall THEN "executing" ELSE "tools")
            \/ pc' = (IF how = "ready" THEN "executing" ELSE IF aborted \/ LastCall THEN "turnEnd" ELSE "tools")
        BY <2>8, Zenon DEF PrepareCall
      <3> QED BY <3>1, <3>2
    <2>9. CASE CutBatch
      BY <2>1, <2>9 DEF CutBatch
    <2>10. ASSUME NEW i, NEW how, FinishCall(i, how)
           PROVE  aborted' = aborted /\ pc' # "off"
      <3>1. aborted' = aborted /\ pc = "executing"
        BY <2>10, Zenon DEF FinishCall
      <3>2. pc' = pc \/ pc' = (IF aborted \/ LastCall THEN "turnEnd" ELSE "tools")
        BY <2>10, Zenon DEF FinishCall
      <3> QED BY <3>1, <3>2
    <2>11. CASE CollectResults
      BY <2>1, <2>11 DEF CollectResults
    <2>12. ASSUME NEW continue, FinishTurn(continue)
           PROVE  aborted' = aborted /\ pc' # "off"
      BY <2>12 DEF FinishTurn
    <2> QED
      BY <1>1, <2>1, <2>2, <2>3, <2>4, <2>5, <2>6, <2>7, <2>8, <2>9, <2>10, <2>11, <2>12, Zenon
      DEF RunStep
  <1>2. CASE EndTurn
    <2>1. sc' = sc /\ stopReq' = stopReq
      BY <1>2 DEF EndTurn
    <2>2. ASSUME NEW stop, NEW repeated, NEW flush, TurnEnd(stop, repeated, flush)
          PROVE  aborted' = aborted /\ pc' # "off"
      <3>1. aborted' = aborted
        BY <2>2, Zenon DEF TurnEnd
      <3>2. pc' = "ended" \/ pc' = "between"
        BY <2>2, Zenon DEF TurnEnd
      <3> QED BY <3>1, <3>2
    <2>3. ASSUME NEW flush, FailedTurnEnd(flush)
          PROVE  aborted' = aborted /\ pc' # "off"
      BY <2>3 DEF FailedTurnEnd
    <2>4. ASSUME NEW s, NEW flush, RunFails(s, flush)
          PROVE  aborted' = aborted /\ pc' # "off"
      BY <2>4 DEF RunFails
    <2> QED BY <1>2, <2>1, <2>2, <2>3, <2>4, Zenon DEF EndTurn
  <1>3. CASE BreakRun
    BY <1>3 DEF BreakRun, RunBreaks
  <1> QED BY <1>1, <1>2, <1>3

\* A continuation starts only where no stop was requested.
LEMMA GoOnKeeps ==
  ASSUME ~stopReq, stopReq' = stopReq, GoOn \/ GoOnIfQueued \/ Rest,
         StopInv
  PROVE  StopInv'
  <1>1. CASE Rest
    BY <1>1 DEF Rest, StopInv
  <1>2. CASE GoOn
    <2>1. CASE CanContinue(LastRole)
      <3>1. Continue(LastRole) /\ sc' = "run"
        BY <1>2, <2>1, Zenon DEF GoOn
      <3>2. pc' = "prompting"
        BY <3>1, Zenon DEF Continue, Start
      <3> QED BY <3>1, <3>2 DEF StopInv
    <2>2. CASE ~CanContinue(LastRole)
      BY <1>2, <2>2 DEF GoOn, StopInv
    <2> QED BY <2>1, <2>2
  <1> QED BY <1>1, <1>2 DEF GoOnIfQueued

LEMMA StopNext ==
  ASSUME StopInv, [Next]_vars
  PROVE  StopInv'
  <1> USE DEF StopInv
  <1>1. CASE UNCHANGED vars
    BY <1>1 DEF vars, loopVars
  <1>2. CASE Outside
    <2>1. ASSUME NEW u, Prompt(u) \/ PromptWhileSettling(u)
          PROVE  StopInv'
      BY <2>1 DEF Prompt, PromptWhileSettling, loopVars
    <2>2. ASSUME NEW u, QueueSteer(u) \/ QueueFollowUp(u)
          PROVE  StopInv'
      BY <2>2 DEF QueueSteer, QueueFollowUp, Steer, FollowUp
    <2>3. ASSUME NEW c, CustomNextTurn(c) \/ CustomQueued(c) \/ CustomTriggersLater(c)
          PROVE  StopInv'
      BY <2>3 DEF CustomNextTurn, CustomQueued, CustomTriggersLater, Steer, FollowUp, loopVars
    <2>4. ASSUME NEW c, CustomContext(c)
          PROVE  StopInv'
      BY <2>4 DEF CustomContext, Record, loopVars
    <2>5. ASSUME NEW c, CustomTriggers(c)
          PROVE  StopInv'
      BY <2>5 DEF CustomTriggers, BeginRun, StartPrompt, Start
    <2>6. CASE ClearQueue
      BY <2>6 DEF ClearQueue, ClearQueues
    <2>7. CASE Abort
      <3>1. sc \notin {"post", "finish"} /\ sc' = sc /\ pc' = pc /\ aborted' = (pc # "off")
        BY <2>7, Zenon DEF Abort, AbortRun, Quiet
      <3> QED BY <3>1
    <2> QED BY <1>2, <2>1, <2>2, <2>3, <2>4, <2>5, <2>6, <2>7, Zenon DEF Outside
  <1>3. CASE Program
    <2>1. CASE StartRun
      BY <2>1 DEF StartRun, BeginRun, StartPrompt, Start
    <2>2. CASE PreflightRefused
      BY <2>2 DEF PreflightRefused, loopVars
    <2>3. CASE RunStep \/ EndTurn \/ BreakRun
      <3>1. sc = "run"
        BY <2>3 DEF RunStep, EndTurn, BreakRun
      <3>2. aborted' = aborted /\ pc' # "off" /\ sc' = sc /\ stopReq' = stopReq
        BY <2>3, <3>1, LoopKeeps
      <3> QED BY <3>1, <3>2
    <2>4. CASE RunEnds
      BY <2>4 DEF RunEnds, EndRun
    <2>5. CASE PostMidRun
      BY <2>5 DEF PostMidRun, Wait
    <2>6. CASE PostRetry
      BY <2>6 DEF PostRetry, Wait
    <2>7. CASE PostCompact
      <3>1. sc = "post" /\ stopReq' = stopReq
        BY <2>7 DEF PostCompact
      <3>2. Wait("compactRetry") \/ Wait("compact") \/ GoOnIfQueued
        BY <2>7, Zenon DEF PostCompact
      <3>3. CASE GoOnIfQueued
        BY <3>1, <3>3, GoOnKeeps
      <3>4. CASE Wait("compactRetry") \/ Wait("compact")
        BY <3>4 DEF Wait
      <3> QED BY <3>2, <3>3, <3>4
    <2>8. ASSUME NEW slept \in BOOLEAN, BackoffEnds(slept)
          PROVE  StopInv'
      <3>1. stopReq' = stopReq /\ (slept => ~stopReq)
        BY <2>8 DEF BackoffEnds
      <3>2. \/ slept /\ GoOn
            \/ stopReq /\ Wait("finish")
            \/ ~stopReq /\ GoOnIfQueued
        BY <2>8, Zenon DEF BackoffEnds
      <3>3. CASE stopReq /\ Wait("finish")
        BY <3>3 DEF Wait
      <3>4. CASE ~stopReq /\ (GoOn \/ GoOnIfQueued)
        BY <3>1, <3>4, GoOnKeeps
      <3> QED BY <3>1, <3>2, <3>3, <3>4
    <2>9. ASSUME NEW ok \in BOOLEAN, CompactionEnds(ok)
          PROVE  StopInv'
      <3>1. stopReq' = stopReq
        BY <2>9 DEF CompactionEnds
      <3>2. \/ stopReq /\ Wait("finish")
            \/ ~stopReq /\ (GoOn \/ Rest \/ GoOnIfQueued)
        BY <2>9, Zenon DEF CompactionEnds
      <3>3. CASE stopReq /\ Wait("finish")
        BY <3>3 DEF Wait
      <3>4. CASE ~stopReq /\ (GoOn \/ Rest \/ GoOnIfQueued)
        BY <3>1, <3>4, GoOnKeeps
      <3> QED BY <3>2, <3>3, <3>4
    <2>10. ASSUME NEW handlers, NEW asked, BeforeSettle(handlers, asked)
           PROVE  StopInv'
      <3> DEFINE role == IF (IF handlers THEN Flushed ELSE <<>>) # <<>> THEN "custom" ELSE LastRole
      <3>1. stopReq' = stopReq
        BY <2>10 DEF BeforeSettle
      <3>2. \/ ~stopReq /\ Continue(role) /\ sc' = "run"
            \/ sc' = "finish"
        BY <2>10, Zenon DEF BeforeSettle
      <3>3. CASE ~stopReq /\ Continue(role) /\ sc' = "run"
        <4>1. pc' = "prompting"
          BY <3>3, Zenon DEF Continue, Start
        <4> QED BY <3>1, <3>3, <4>1
      <3>4. CASE sc' = "finish"
        BY <3>4
      <3> QED BY <3>2, <3>3, <3>4
    <2>11. CASE Settle
      BY <2>11 DEF Settle
    <2>12. CASE SettledEnds
      BY <2>12 DEF SettledEnds
    <2>13. CASE DeferredStarts
      <3>1. sc' = "idle" \/ BeginRun(<<Queued(Head(deferred), "prompt")>>)
        BY <2>13, Zenon DEF DeferredStarts
      <3>2. CASE BeginRun(<<Queued(Head(deferred), "prompt")>>)
        BY <3>2 DEF BeginRun, StartPrompt, Start
      <3> QED BY <3>1, <3>2
    <2>14. CASE PromptReturns
      BY <2>14 DEF PromptReturns, loopVars
    <2> QED
      BY <1>3, <2>1, <2>2, <2>3, <2>4, <2>5, <2>6, <2>7, <2>8, <2>9, <2>10, <2>11, <2>12, <2>13, <2>14
      DEF Program
  <1> QED BY <1>1, <1>2, <1>3 DEF Next

\* A stop request holds, whatever continuation, retry, compaction, handler or
\* deferred work the session was about to start when it came: no run goes on
\* under it with a signal that is not aborted (_runAgentPrompt, abort()).
THEOREM AbortHoldsAlways == Spec => []AbortHolds
  <1>1. StopInv => AbortHolds
    BY DEF StopInv, AbortHolds
  <1> QED BY <1>1, StopInit, StopNext, PTL DEF Spec

-----------------------------------------------------------------------------
(* Least and greatest elements, and short sequences.                        *)

LEMMA HasLeast ==
  ASSUME NEW T \in SUBSET Nat, T # {}
  PROVE  \E x \in T : \A y \in T : x <= y
  <1>1. PICK x \in T : \A y \in T : ~ (<<y, x>> \in OpToRel(<, Nat))
    BY NatLessThanWellFounded, WFMin, Zenon
  <1>2. \A y \in T : ~ (y < x)
    BY <1>1 DEF OpToRel
  <1> QED BY <1>2

LEMMA HasGreatest ==
  ASSUME NEW n \in Nat, NEW T \in SUBSET (1 .. n), T # {}
  PROVE  \E x \in T : \A y \in T : y <= x
  <1> DEFINE U == {k \in Nat : \A y \in T : y <= k}
  <1>1. n \in U
    OBVIOUS
  <1>2. PICK k \in U : \A j \in U : k <= j
    BY <1>1, HasLeast
  <1>3. ASSUME k \notin T PROVE FALSE
    <2>1. PICK z \in T : z <= k
      BY <1>2
    <2>2. k - 1 \in Nat /\ k \in Nat
      BY <1>2, <2>1
    <2>3. \A y \in T : y <= k - 1
      BY <1>2, <1>3, <2>2
    <2>4. k - 1 \in U
      BY <2>2, <2>3
    <2> QED BY <1>2, <2>2, <2>4
  <1> QED BY <1>2, <1>3

LEMMA OneElement ==
  ASSUME NEW S, NEW e \in S
  PROVE  <<e>> \in Seq(S) /\ Len(<<e>>) = 1 /\ <<e>>[1] = e
  OBVIOUS

LEMMA NoElement ==
  ASSUME NEW S
  PROVE  <<>> \in Seq(S) /\ Len(<<>>) = 0
  OBVIOUS

\* What a poll takes and what it leaves are parts of the queue.
LEMMA DrainTypes ==
  ASSUME NEW S, NEW q \in Seq(S)
  PROVE  /\ Drained(q) \in Seq(S) /\ Left(q) \in Seq(S)
         /\ \A i \in DOMAIN Drained(q) : i \in DOMAIN q /\ Drained(q)[i] = q[i]
         /\ OneAtATime => Len(Drained(q)) <= 1
  <1>1. CASE OneAtATime /\ q # <<>>
    <2>1. Head(q) \in S /\ Tail(q) \in Seq(S) /\ 1 \in DOMAIN q /\ Head(q) = q[1]
      BY <1>1, HeadTailProperties
    <2> QED BY <1>1, <2>1, OneElement DEF Drained, Left
  <1>2. CASE ~(OneAtATime /\ q # <<>>)
    BY <1>2, NoElement DEF Drained, Left
  <1> QED BY <1>1, <1>2

-----------------------------------------------------------------------------
(* Types.  What a recorded answer or a batch in flight looks like is part   *)
(* of them: the failures of a turn are counted after its answer, and the    *)
(* results of a batch are read from its calls.                              *)

LoopTypes ==
  /\ pc \in {"off", "prompting", "injecting", "tools", "executing", "turnEnd", "polling",
             "between", "failedTurn", "ended", "broken"}
  /\ steer \in Seq(QueuedMsg({"steer"})) /\ follow \in Seq(QueuedMsg({"follow"}))
  /\ pend \in Seq(QueuedMsg({"prompt", "steer", "follow"}))
  /\ ctx \in Seq(Entry)
  /\ batch \in [par : BOOLEAN, next : 1 .. MaxCalls + 1,
                st : Seq({"wait", "ready", "run"} \cup Hows)]
  /\ loop \in [skip : BOOLEAN, cont : BOOLEAN, fails : 0 .. RepeatLimit]
  /\ aborted \in BOOLEAN /\ spent \in BOOLEAN /\ thrown \in BOOLEAN

\* What preparing a call comes to.
Prep == {"ready", "fail", "stop"}

USE DEF Hows, Prep

\* The calls before the next one, the next one, and the rest.
BatchInv ==
  /\ Len(batch.st) <= MaxCalls /\ batch.next <= Len(batch.st) + 1
  /\ pc = "tools" \/ (pc = "executing" /\ ~batch.par) => batch.next <= Len(batch.st)
  /\ pc = "tools" => \A i \in Calls :
       /\ i < batch.next => batch.st[i] \in IF batch.par THEN Prep ELSE Hows
       /\ i >= batch.next => batch.st[i] = "wait"
  /\ pc = "executing" => \A i \in Calls :
       /\ i < batch.next => batch.st[i] \in IF batch.par THEN {"run"} \cup Hows ELSE Hows
       /\ i = batch.next => batch.st[i] = IF batch.par THEN "wait" ELSE "run"
       /\ i > batch.next => batch.st[i] = "wait"

HasAnswer(s) == \E i \in DOMAIN s : s[i].kind = "asst"

FrontInv == IF front.at = "preflight" THEN front.m \in Users ELSE front.m = None

\* A turn has its answer.
TurnInv == pc \in {"tools", "executing", "turnEnd", "polling"} => HasAnswer(ctx)
LoopInv == LoopTypes /\ BatchInv /\ TurnInv

\* So has an answer that post-run handling looks at.
SessionTypes ==
  /\ omitted \subseteq DOMAIN ctx /\ events \in 0 .. MaxEvents /\ retry \in 0 .. MaxRetries
  /\ sc \in Control /\ (pc # "off") = (sc = "run") /\ (aborted => sc = "run")
  /\ front \in [at : {"none", "preflight", "run", "after"}, m : Users \cup {None}]
  /\ FrontInv
  /\ mirror \in [steer : Seq(Users), follow : Seq(Users)]
  /\ customs \in Seq(Customs) /\ nextTurn \in Seq(QueuedMsg({"prompt"}))
  /\ last \in Stops \cup {"none"} /\ (last # "none" => HasAnswer(ctx))
  /\ deferred \in Seq(Messages)
  /\ sent \subseteq Messages /\ returned \subseteq Users /\ dropped \subseteq Users
  /\ stopReq \in BOOLEAN /\ tried \in BOOLEAN /\ midRun \in BOOLEAN /\ waiting \in BOOLEAN
  /\ threw \in BOOLEAN

TypeInv == LoopInv /\ SessionTypes

LEMMA TypeInvTypes == TypeInv => TypeOK
  BY DEF TypeInv, LoopInv, LoopTypes, SessionTypes, TypeOK

LEMMA Entries ==
  /\ \A x \in QueuedMsg({"prompt", "steer", "follow"}) : Delivered(x) \in Entry
  /\ \A n \in 0 .. MaxCalls, s \in Stops : Asst(n, s) \in Entry
  /\ \A i \in 1 .. MaxCalls, how \in Hows : Result(i, how) \in Entry
  /\ \A m \in Customs : Custom(m) \in Entry
  BY DEF Delivered, Asst, Result, Custom, Entry, QueuedMsg

LEMMA QueueKinds ==
  ASSUME NEW m \in Messages
  PROVE  /\ Queued(m, "steer") \in QueuedMsg({"steer"})
         /\ Queued(m, "follow") \in QueuedMsg({"follow"})
         /\ Queued(m, "prompt") \in QueuedMsg({"prompt"})
  BY DEF Queued, QueuedMsg

LEMMA AnyQueue ==
  /\ Seq(QueuedMsg({"steer"})) \subseteq Seq(QueuedMsg({"prompt", "steer", "follow"}))
  /\ Seq(QueuedMsg({"follow"})) \subseteq Seq(QueuedMsg({"prompt", "steer", "follow"}))
  /\ Seq(QueuedMsg({"prompt"})) \subseteq Seq(QueuedMsg({"prompt", "steer", "follow"}))
  <1> DEFINE S == QueuedMsg({"prompt", "steer", "follow"})
  <1>1. /\ QueuedMsg({"steer"}) \subseteq S
        /\ QueuedMsg({"follow"}) \subseteq S
        /\ QueuedMsg({"prompt"}) \subseteq S
    BY DEF QueuedMsg
  <1> HIDE DEF S
  <1>2. \A T : T \subseteq S => Seq(T) \subseteq Seq(S)
    BY SeqMonotonic
  <1> QED BY <1>1, <1>2 DEF S

LEMMA FlushedTypes ==
  ASSUME customs \in Seq(Customs)
  PROVE  /\ Flushed \in Seq(Entry) /\ Len(Flushed) = Len(customs)
         /\ \A i \in DOMAIN Flushed : i \in DOMAIN customs /\ Flushed[i] = Custom(customs[i])
  <1>1. \A i \in 1 .. Len(customs) : Custom(customs[i]) \in Entry
    BY Entries, ElementOfSeq
  <1>2. DOMAIN customs = 1 .. Len(customs) /\ Len(customs) \in Nat
    BY LenProperties
  <1> QED BY <1>1, <1>2 DEF Flushed

\* Recording only adds to the transcript.
LEMMA Grown ==
  ASSUME LoopTypes, NEW s \in Seq(Entry), ctx' = ctx \o s
  PROVE  /\ ctx' \in Seq(Entry) /\ DOMAIN ctx \subseteq DOMAIN ctx'
         /\ Len(ctx') = Len(ctx) + Len(s)
         /\ \A i \in DOMAIN ctx : ctx'[i] = ctx[i]
         /\ \A i \in DOMAIN s : ctx'[Len(ctx) + i] = s[i] /\ Len(ctx) + i \in DOMAIN ctx'
         /\ \A i \in DOMAIN ctx' : i \notin DOMAIN ctx =>
              i > Len(ctx) /\ i - Len(ctx) \in DOMAIN s /\ ctx'[i] = s[i - Len(ctx)]
         /\ HasAnswer(ctx) => HasAnswer(ctx')
         /\ HasAnswer(s) => HasAnswer(ctx')
  <1>1. ctx \in Seq(Entry)
    BY DEF LoopTypes
  <1>2. /\ ctx' \in Seq(Entry) /\ Len(ctx') = Len(ctx) + Len(s)
        /\ \A i \in 1 .. Len(ctx) + Len(s) :
             ctx'[i] = IF i <= Len(ctx) THEN ctx[i] ELSE s[i - Len(ctx)]
    BY <1>1, ConcatProperties
  <1>3. /\ DOMAIN ctx = 1 .. Len(ctx) /\ Len(ctx) \in Nat
        /\ DOMAIN ctx' = 1 .. Len(ctx')
        /\ DOMAIN s = 1 .. Len(s) /\ Len(s) \in Nat
    BY <1>1, <1>2, LenProperties
  <1>4. /\ DOMAIN ctx \subseteq DOMAIN ctx'
        /\ \A i \in DOMAIN ctx : ctx'[i] = ctx[i]
        /\ \A i \in DOMAIN s : ctx'[Len(ctx) + i] = s[i] /\ Len(ctx) + i \in DOMAIN ctx'
        /\ \A i \in DOMAIN ctx' : i \notin DOMAIN ctx =>
              i > Len(ctx) /\ i - Len(ctx) \in DOMAIN s /\ ctx'[i] = s[i - Len(ctx)]
    BY <1>2, <1>3
  <1>5. HasAnswer(ctx) => HasAnswer(ctx')
    BY <1>4 DEF HasAnswer
  <1>6. HasAnswer(s) => HasAnswer(ctx')
    BY <1>4, ZenonT(40) DEF HasAnswer
  <1> QED BY <1>2, <1>4, <1>5, <1>6

\* What a step of the loop does to the transcript and to the types.
Grows == \E s \in Seq(Entry) : ctx' = ctx \o s

LEMMA GrowsNot == ASSUME LoopTypes, ctx' = ctx PROVE Grows
  <1>1. ctx \in Seq(Entry)
    BY DEF LoopTypes
  <1>2. <<>> \in Seq(Entry) /\ ctx \o <<>> = ctx
    BY <1>1, EmptySeq, ConcatEmptySeq
  <1> QED BY <1>2 DEF Grows

LEMMA GrowsOne == ASSUME LoopTypes, NEW e \in Entry, ctx' = Append(ctx, e)
                  PROVE  Grows /\ (e.kind = "asst" => HasAnswer(ctx'))
  <1>1. ctx \in Seq(Entry)
    BY DEF LoopTypes
  <1>2. <<e>> \in Seq(Entry) /\ DOMAIN <<e>> = {1} /\ <<e>>[1] = e
    BY OneElement
  <1>3. ctx' = ctx \o <<e>>
    BY <1>1, AppendIsConcat
  <1>4. e.kind = "asst" => HasAnswer(<<e>>)
    BY <1>2 DEF HasAnswer
  <1>5. HasAnswer(<<e>>) => HasAnswer(ctx')
    BY <1>2, <1>3, Grown
  <1> QED BY <1>2, <1>3, <1>4, <1>5 DEF Grows

LEMMA GrowsKeeps ==
  ASSUME LoopTypes, Grows
  PROVE  ctx' \in Seq(Entry) /\ DOMAIN ctx \subseteq DOMAIN ctx' /\ (HasAnswer(ctx) => HasAnswer(ctx'))
  BY Grown DEF Grows

LEMMA NoBatchTypes ==
  /\ NoBatch \in [par : BOOLEAN, next : 1 .. MaxCalls + 1,
                  st : Seq({"wait", "ready", "run"} \cup Hows)]
  /\ NoBatch.next = 1 /\ Len(NoBatch.st) = 0
  BY LoopAssumption DEF NoBatch

\* The start of a run, and its end.
LEMMA StartTypes ==
  ASSUME LoopInv, NEW prompts \in Seq(QueuedMsg({"prompt", "steer", "follow"})), NEW skip \in BOOLEAN,
         Start(prompts, skip), ctx' = ctx, spent' \in BOOLEAN,
         steer' \in Seq(QueuedMsg({"steer"})), follow' \in Seq(QueuedMsg({"follow"}))
  PROVE  LoopInv'
  <1>1. /\ pc' = "prompting" /\ pend' = prompts /\ aborted' = FALSE /\ UNCHANGED <<batch, thrown>>
        /\ loop' = [NoLocals EXCEPT !.skip = skip]
    BY DEF Start
  <1>2. loop' = [skip |-> skip, cont |-> FALSE, fails |-> 0]
    BY <1>1 DEF NoLocals
  <1>3. loop' \in [skip : BOOLEAN, cont : BOOLEAN, fails : 0 .. RepeatLimit]
    BY <1>2, LoopAssumption
  <1>4. LoopTypes'
    BY <1>1, <1>3 DEF LoopInv, LoopTypes
  <1>5. BatchInv'
    BY <1>1 DEF LoopInv, BatchInv
  <1> QED BY <1>1, <1>4, <1>5 DEF LoopInv, TurnInv

LEMMA EndRunTypes ==
  ASSUME LoopInv, EndRun
  PROVE  LoopInv'
  <1>1. /\ pc' = "off" /\ aborted' = FALSE /\ loop' = NoLocals
        /\ UNCHANGED <<steer, follow, pend, ctx, batch, spent, thrown>>
    BY DEF EndRun
  <1>2. loop' \in [skip : BOOLEAN, cont : BOOLEAN, fails : 0 .. RepeatLimit]
    BY <1>1, LoopAssumption DEF NoLocals
  <1>3. LoopTypes'
    BY <1>1, <1>2 DEF LoopInv, LoopTypes
  <1>4. BatchInv'
    BY <1>1 DEF LoopInv, BatchInv
  <1> QED BY <1>1, <1>3, <1>4 DEF LoopInv, TurnInv

\* A continuation that a handler asked for, with the messages recorded first.
LEMMA ContinueTypes ==
  ASSUME LoopInv, NEW role, NEW s \in Seq(Entry), Continue(role), ctx' = ctx \o s
  PROVE  LoopInv'
  <1>1. Grows
    BY DEF Grows
  <1>2. ctx' \in Seq(Entry)
    BY <1>1, GrowsKeeps DEF LoopInv
  <1>3. /\ steer \in Seq(QueuedMsg({"steer"})) /\ follow \in Seq(QueuedMsg({"follow"}))
        /\ spent \in BOOLEAN /\ thrown \in BOOLEAN
    BY DEF LoopInv, LoopTypes
  <1>4. /\ Drained(steer) \in Seq(QueuedMsg({"prompt", "steer", "follow"}))
        /\ Drained(follow) \in Seq(QueuedMsg({"prompt", "steer", "follow"}))
        /\ Left(steer) \in Seq(QueuedMsg({"steer"}))
        /\ Left(follow) \in Seq(QueuedMsg({"follow"}))
        /\ <<>> \in Seq(QueuedMsg({"prompt", "steer", "follow"}))
    BY <1>3, DrainTypes, AnyQueue, NoElement
  <1>5. \/ Start(<<>>, FALSE) /\ steer' = steer /\ follow' = follow
        \/ Start(Drained(steer), TRUE) /\ steer' = Left(steer) /\ follow' = follow
        \/ Start(Drained(follow), FALSE) /\ steer' = steer /\ follow' = Left(follow)
    BY Zenon DEF Continue
  <1>6. /\ pc' = "prompting" /\ aborted' = FALSE /\ batch' = batch /\ thrown' = thrown /\ spent' = spent
        /\ \E skip \in BOOLEAN : loop' = [NoLocals EXCEPT !.skip = skip]
    BY <1>5 DEF Continue, Start
  <1>7. pend' \in Seq(QueuedMsg({"prompt", "steer", "follow"}))
    BY <1>4, <1>5 DEF Start
  <1>8. loop' \in [skip : BOOLEAN, cont : BOOLEAN, fails : 0 .. RepeatLimit]
    <2>1. PICK skip \in BOOLEAN : loop' = [NoLocals EXCEPT !.skip = skip]
      BY <1>6
    <2>2. loop' = [skip |-> skip, cont |-> FALSE, fails |-> 0]
      BY <2>1 DEF NoLocals
    <2> QED BY <2>2, LoopAssumption
  <1>9. steer' \in Seq(QueuedMsg({"steer"})) /\ follow' \in Seq(QueuedMsg({"follow"}))
    BY <1>3, <1>4, <1>5
  <1>10. LoopTypes'
    BY <1>2, <1>3, <1>6, <1>7, <1>8, <1>9 DEF LoopInv, LoopTypes
  <1>11. BatchInv'
    BY <1>6 DEF LoopInv, BatchInv
  <1>12. TurnInv'
    BY <1>6 DEF TurnInv
  <1> QED BY <1>10, <1>11, <1>12 DEF LoopInv

\* The steps between two answers.
LEMMA TurnTypes ==
  ASSUME LoopInv,
         \/ Deliver \/ FirstPoll \/ Prepared \/ OutOfBudget \/ CollectResults
         \/ \E s \in Failed \cup {"aborted"} : Refuse(s)
  PROVE  LoopInv' /\ Grows
  <1> USE DEF LoopInv
  <1>1. /\ Drained(steer) \in Seq(QueuedMsg({"prompt", "steer", "follow"}))
        /\ Left(steer) \in Seq(QueuedMsg({"steer"}))
    <2>1. steer \in Seq(QueuedMsg({"steer"}))
      BY DEF LoopTypes
    <2> QED BY <2>1, DrainTypes, AnyQueue
  <1>2. CASE Deliver
    <2>1. /\ ctx' = Append(ctx, Delivered(Head(pend))) /\ pend' = Tail(pend) /\ pend # <<>>
          /\ pc \in {"prompting", "injecting"}
          /\ UNCHANGED <<pc, steer, follow, aborted, batch, loop, spent, thrown>>
      BY <1>2 DEF Deliver
    <2>2. Head(pend) \in QueuedMsg({"prompt", "steer", "follow"})
          /\ Tail(pend) \in Seq(QueuedMsg({"prompt", "steer", "follow"}))
      BY <2>1, HeadTailProperties DEF LoopTypes
    <2>3. Grows
      BY <2>1, <2>2, Entries, GrowsOne
    <2>4. LoopTypes'
      BY <2>1, <2>2, <2>3, GrowsKeeps DEF LoopTypes
    <2>5. BatchInv' /\ TurnInv'
      BY <2>1 DEF BatchInv, TurnInv
    <2> QED BY <2>3, <2>4, <2>5
  <1>3. CASE FirstPoll \/ Prepared
    <2>1. /\ pc' = "injecting" /\ UNCHANGED <<follow, ctx, aborted, batch, spent, thrown>>
          /\ \/ UNCHANGED <<pend, steer>>
             \/ pend' = Drained(steer) /\ steer' = Left(steer)
      BY <1>3 DEF FirstPoll, Prepared
    <2>2. \/ loop' = loop \/ loop' = [loop EXCEPT !.skip = FALSE]
          \/ loop' = [loop EXCEPT !.fails = 0]
      BY <1>3 DEF FirstPoll, Prepared
    <2>3. loop' \in [skip : BOOLEAN, cont : BOOLEAN, fails : 0 .. RepeatLimit]
      <3>1. loop \in [skip : BOOLEAN, cont : BOOLEAN, fails : 0 .. RepeatLimit] /\ 0 \in 0 .. RepeatLimit
        BY LoopAssumption DEF LoopTypes
      <3> QED BY <2>2, <3>1
    <2>4. LoopTypes'
      BY <1>1, <2>1, <2>3 DEF LoopTypes
    <2>5. BatchInv' /\ TurnInv'
      BY <2>1 DEF BatchInv, TurnInv
    <2> QED BY <2>1, <2>4, <2>5, GrowsNot
  <1>4. CASE OutOfBudget
    <2>1. /\ pc' = "ended" /\ spent' = TRUE
          /\ UNCHANGED <<steer, follow, pend, ctx, aborted, batch, loop, thrown>>
      BY <1>4 DEF OutOfBudget
    <2>2. LoopTypes' /\ BatchInv' /\ TurnInv'
      BY <2>1 DEF LoopTypes, BatchInv, TurnInv
    <2> QED BY <2>1, <2>2, GrowsNot
  <1>5. ASSUME NEW s \in Failed \cup {"aborted"}, Refuse(s) PROVE LoopInv' /\ Grows
    <2>1. /\ pc' = "failedTurn" /\ ctx' = Append(ctx, Asst(0, s))
          /\ UNCHANGED <<steer, follow, pend, aborted, batch, loop, spent, thrown>>
      BY <1>5 DEF Refuse
    <2>2. Asst(0, s) \in Entry
      BY Entries, LoopAssumption DEF Stops, Failed
    <2>3. Grows
      BY <2>1, <2>2, GrowsOne
    <2>4. LoopTypes'
      BY <2>1, <2>3, GrowsKeeps DEF LoopTypes
    <2>5. BatchInv' /\ TurnInv'
      BY <2>1 DEF BatchInv, TurnInv
    <2> QED BY <2>3, <2>4, <2>5
  <1>6. CASE CollectResults
    <2> DEFINE n == Cardinality(Settled(batch.st))
               s == [i \in 1 .. n |-> Result(i, batch.st[i])]
    <2>1. /\ pc = "executing" /\ batch.par /\ ~Executing
          /\ pc' = "turnEnd" /\ ctx' = ctx \o s
          /\ UNCHANGED <<steer, follow, pend, aborted, batch, loop, spent, thrown>>
      BY <1>6 DEF CollectResults
    <2>2. /\ batch.next \in Nat \ {0} /\ Len(batch.st) \in Nat /\ Len(batch.st) <= MaxCalls
          /\ DOMAIN batch.st = 1 .. Len(batch.st) /\ batch.next <= Len(batch.st) + 1
      BY LoopAssumption DEF LoopTypes, BatchInv
    <2>3. Settled(batch.st) = 1 .. batch.next - 1
      <3>1. \A i \in Calls : /\ i < batch.next => batch.st[i] \in Hows
                             /\ i >= batch.next => batch.st[i] = "wait"
        BY <2>1, <2>2 DEF BatchInv, Executing, Calls
      <3> QED BY <2>2, <3>1 DEF Settled, Calls
    <2>4. n = batch.next - 1
      <3>1. \A k \in Nat : Cardinality(1 .. k) = k
        BY FS_Interval
      <3>2. batch.next - 1 \in Nat
        BY <2>2
      <3> QED BY <2>3, <3>1, <3>2
    <2>5. \A i \in 1 .. n : Result(i, batch.st[i]) \in Entry
      <3> TAKE i \in 1 .. n
      <3>1. i \in Settled(batch.st) /\ i \in 1 .. MaxCalls
        BY <2>2, <2>3, <2>4, LoopAssumption
      <3>2. batch.st[i] \in Hows
        BY <3>1 DEF Settled
      <3> QED BY <3>1, <3>2, Entries
    <2>6. s \in Seq(Entry)
      BY <2>2, <2>4, <2>5
    <2> HIDE DEF s
    <2>7. Grows
      BY <2>1, <2>6 DEF Grows
    <2>8. LoopTypes'
      BY <2>1, <2>7, GrowsKeeps DEF LoopTypes
    <2>9. BatchInv' /\ TurnInv'
      BY <2>1, <2>7, GrowsKeeps DEF BatchInv, TurnInv
    <2> QED BY <2>7, <2>8, <2>9
  <1> QED BY <1>2, <1>3, <1>4, <1>5, <1>6

LEMMA AnswerTypes ==
  ASSUME LoopInv, NEW n \in 0 .. MaxCalls, NEW s \in {"stop", "length"}, NEW par \in BOOLEAN,
         Answer(n, s, par)
  PROVE  LoopInv' /\ Grows
  <1> USE DEF LoopInv
  <1> DEFINE fails == IF s = "length" THEN [i \in 1 .. n |-> Result(i, "fail")] ELSE <<>>
  <1>1. /\ ctx' = Append(ctx, Asst(n, s)) \o fails
        /\ pc' = IF n = 0 \/ s = "length" THEN "turnEnd" ELSE "tools"
        /\ batch' = IF pc' = "tools"
                      THEN [par |-> par, next |-> 1, st |-> [i \in 1 .. n |-> "wait"]]
                      ELSE NoBatch
        /\ UNCHANGED <<steer, follow, pend, aborted, loop, spent, thrown>>
    BY Zenon DEF Answer
  <1>2. Asst(n, s) \in Entry
    BY Entries DEF Stops
  <1>3. fails \in Seq(Entry)
    <2>1. \A i \in 1 .. n : Result(i, "fail") \in Entry
      BY Entries, LoopAssumption
    <2>2. n \in Nat
      BY LoopAssumption
    <2>3. [i \in 1 .. n |-> Result(i, "fail")] \in Seq(Entry)
      BY <2>1, <2>2
    <2> QED BY <2>3, NoElement
  <1>4. <<Asst(n, s)>> \o fails \in Seq(Entry) /\ ctx' = ctx \o (<<Asst(n, s)>> \o fails)
        /\ HasAnswer(<<Asst(n, s)>> \o fails)
    <2> HIDE DEF fails
    <2>1. ctx \in Seq(Entry)
      BY DEF LoopTypes
    <2>2. <<Asst(n, s)>> \in Seq(Entry) /\ Append(ctx, Asst(n, s)) = ctx \o <<Asst(n, s)>>
          /\ Len(<<Asst(n, s)>>) = 1 /\ <<Asst(n, s)>>[1] = Asst(n, s)
      BY <1>2, <2>1, OneElement, AppendIsConcat
    <2>3. <<Asst(n, s)>> \o fails \in Seq(Entry)
      BY <1>3, <2>2, ConcatProperties
    <2>4. ctx' = ctx \o (<<Asst(n, s)>> \o fails)
      BY <1>1, <1>3, <2>1, <2>2, ConcatAssociative
    <2>5. 1 \in DOMAIN (<<Asst(n, s)>> \o fails) /\ (<<Asst(n, s)>> \o fails)[1] = Asst(n, s)
      <3>1. Len(fails) \in Nat
        BY <1>3
      <3> QED BY <1>3, <2>2, <2>3, <3>1, ConcatProperties
    <2>6. HasAnswer(<<Asst(n, s)>> \o fails)
      BY <2>5 DEF HasAnswer, Asst
    <2> QED BY <2>3, <2>4, <2>6
  <1> HIDE DEF fails
  <1>5. Grows /\ ctx' \in Seq(Entry) /\ HasAnswer(ctx')
    BY <1>4, Grown DEF Grows
  <1>6. pc' = "tools" => n \in 1 .. MaxCalls
    BY <1>1, LoopAssumption
  <1>7. batch' \in [par : BOOLEAN, next : 1 .. MaxCalls + 1,
                    st : Seq({"wait", "ready", "run"} \cup Hows)]
        /\ BatchInv'
    <2>1. CASE pc' = "tools"
      <3>1. /\ batch'.par = par /\ batch'.next = 1 /\ batch'.st = [i \in 1 .. n |-> "wait"]
            /\ batch' = [par |-> par, next |-> 1, st |-> [i \in 1 .. n |-> "wait"]]
        BY <1>1, <2>1
      <3>2. /\ [i \in 1 .. n |-> "wait"] \in Seq({"wait", "ready", "run"} \cup Hows)
            /\ Len([i \in 1 .. n |-> "wait"]) = n /\ n \in Nat /\ n <= MaxCalls /\ n >= 1
        BY <1>6, <2>1, LoopAssumption
      <3>3. 1 \in 1 .. MaxCalls + 1
        BY LoopAssumption
      <3>4. batch' \in [par : BOOLEAN, next : 1 .. MaxCalls + 1,
                    st : Seq({"wait", "ready", "run"} \cup Hows)]
        BY <3>1, <3>2, <3>3
      <3>5. BatchInv'
        BY <2>1, <3>1, <3>2 DEF BatchInv, Calls
      <3> QED BY <3>4, <3>5
    <2>2. CASE pc' # "tools"
      <3>1. batch' = NoBatch /\ pc' = "turnEnd"
        BY <1>1, <2>2
      <3> QED BY <3>1, NoBatchTypes, LoopAssumption DEF BatchInv
    <2> QED BY <2>1, <2>2
  <1>8. LoopTypes'
    BY <1>1, <1>5, <1>7 DEF LoopTypes
  <1> QED BY <1>5, <1>7, <1>8 DEF TurnInv

\* Launching changes ready calls only.
LEMMA LaunchTypes ==
  ASSUME NEW st \in Seq({"wait", "ready", "run"} \cup Hows)
  PROVE  /\ Launched(st) \in Seq({"wait", "ready", "run"} \cup Hows)
         /\ Len(Launched(st)) = Len(st)
         /\ \A i \in DOMAIN st : Launched(st)[i] = IF st[i] # "ready" THEN st[i]
                                                   ELSE IF aborted THEN "fail" ELSE "run"
  <1>1. DOMAIN st = 1 .. Len(st) /\ Len(st) \in Nat
        /\ \A i \in 1 .. Len(st) : st[i] \in {"wait", "ready", "run"} \cup Hows
    BY LenProperties, ElementOfSeq
  <1> QED BY <1>1 DEF Launched

LEMMA PrepareTypes ==
  ASSUME LoopInv, NEW how \in Prep, PrepareCall(how)
  PROVE  LoopInv' /\ Grows
  <1> USE DEF LoopInv
  <1> DEFINE new == IF how = "ready" /\ ~batch.par THEN "run" ELSE how
             st  == [batch.st EXCEPT ![batch.next] = new]
             C   == {"wait", "ready", "run"} \cup Hows
  <1>1. /\ pc = "tools" /\ (how # "fail" => ~aborted)
        /\ UNCHANGED <<steer, follow, pend, aborted, loop, spent, thrown>>
    BY DEF PrepareCall
  <1>2. PICK b, k, x : b = batch.par /\ k = batch.next /\ x = batch.st /\ batch = [par |-> b, next |-> k, st |-> x]
    BY DEF LoopTypes
  <1>3. /\ b \in BOOLEAN /\ k \in 1 .. MaxCalls /\ x \in Seq(C)
        /\ Len(x) \in Nat /\ DOMAIN x = 1 .. Len(x) /\ k <= Len(x) /\ Len(x) <= MaxCalls
    BY <1>1, <1>2, LoopAssumption DEF LoopTypes, BatchInv
  <1>4. \A i \in 1 .. Len(x) : /\ i < k => x[i] \in IF b THEN Prep ELSE Hows
                               /\ i >= k => x[i] = "wait"
    BY <1>1, <1>2, <1>3 DEF BatchInv, Calls
  <1>5. /\ st \in Seq(C) /\ Len(st) = Len(x)
        /\ \A i \in 1 .. Len(x) : st[i] = IF i = k THEN new ELSE x[i]
    BY <1>2, <1>3, ExceptSeq
  <1>6. new \in C
    OBVIOUS
  <1> HIDE DEF st
  <1>7. CASE b
    <2>1. /\ pc' = IF aborted \/ LastCall THEN "executing" ELSE "tools"
          /\ batch' = [batch EXCEPT !.next = @ + 1, !.st = IF pc' = "executing" THEN Launched(st) ELSE st]
          /\ UNCHANGED ctx
      BY <1>2, <1>7, Zenon DEF PrepareCall, st
    <2>2. batch' = [par |-> b, next |-> k + 1, st |-> IF pc' = "executing" THEN Launched(st) ELSE st]
      BY <1>2, <2>1
    <2>3. batch'.par = b /\ batch'.next = k + 1
          /\ batch'.st = IF pc' = "executing" THEN Launched(st) ELSE st
      BY <2>2
    <2>4. /\ batch'.st \in Seq(C) /\ Len(batch'.st) = Len(x)
          /\ pc' = "executing" => batch'.st = Launched(st)
          /\ pc' # "executing" => batch'.st = st
      BY <1>5, <2>3, LaunchTypes
    <2>5. batch' \in [par : BOOLEAN, next : 1 .. MaxCalls + 1, st : Seq(C)]
      <3>1. k + 1 \in 1 .. MaxCalls + 1
        BY <1>3, LoopAssumption
      <3>2. batch' = [par |-> b, next |-> k + 1, st |-> batch'.st]
        BY <2>2, <2>3
      <3> HIDE DEF C
      <3> QED BY <1>3, <2>4, <3>1, <3>2
    <2>6. LoopTypes'
      BY <1>1, <2>1, <2>5 DEF LoopTypes
    <2>7. pc' = "tools" => ~aborted /\ k < Len(x)
      BY <1>2, <1>3, <2>1 DEF LastCall
    <2>8. \A i \in 1 .. Len(x) :
            /\ i < k + 1 => batch'.st[i] \in IF pc' = "tools" THEN Prep ELSE {"run"} \cup Hows
            /\ i >= k + 1 => batch'.st[i] = "wait"
      <3> TAKE i \in 1 .. Len(x)
      <3>1. /\ i < k + 1 => st[i] \in Prep
            /\ i >= k + 1 => st[i] = "wait"
        BY <1>2, <1>3, <1>4, <1>5, <1>7
      <3>2. i \in DOMAIN st
        BY <1>5
      <3>3. pc' = "executing" =>
              batch'.st[i] = IF st[i] # "ready" THEN st[i] ELSE IF aborted THEN "fail" ELSE "run"
        BY <1>5, <2>4, <3>2, LaunchTypes
      <3> QED BY <2>1, <2>4, <3>1, <3>3
    <2>9. BatchInv'
      <3>1. DOMAIN batch'.st = 1 .. Len(x)
        BY <1>3, <2>4, LenProperties
      <3>2. pc' \in {"executing", "tools"} /\ batch'.par = TRUE /\ batch'.next = k + 1 /\ k \in Nat
        <4>1. pc' \in {"executing", "tools"}
          BY <2>1, Zenon
        <4>2. b = TRUE
          BY <1>3, <1>7
        <4> QED BY <1>3, <2>3, <4>1, <4>2
      <3>3. Len(batch'.st) <= MaxCalls /\ k + 1 <= Len(batch'.st) + 1
            /\ (pc' = "tools" => k + 1 <= Len(batch'.st))
        BY <1>3, <2>4, <2>7, <3>2
      <3>4. \A i \in 1 .. Len(x) :
              /\ i < k + 1 => batch'.st[i] \in IF pc' = "tools" THEN Prep ELSE {"run"} \cup Hows
              /\ i = k + 1 => batch'.st[i] = "wait"
              /\ i > k + 1 => batch'.st[i] = "wait"
        BY <2>8, <3>2
      <3> QED BY <2>8, <3>1, <3>2, <3>3, <3>4 DEF BatchInv, Calls
    <2>10. TurnInv'
      BY <1>1, <2>1 DEF TurnInv
    <2> QED BY <2>1, <2>6, <2>9, <2>10, GrowsNot
  <1>8. CASE ~b
    <2>1. /\ pc' = IF how = "ready" THEN "executing" ELSE IF aborted \/ LastCall THEN "turnEnd" ELSE "tools"
          /\ batch' = [batch EXCEPT !.next = IF how = "ready" THEN @ ELSE @ + 1, !.st = st]
          /\ ctx' = IF how = "ready" THEN ctx ELSE Append(ctx, Result(k, how))
      BY <1>2, <1>8, Zenon DEF PrepareCall, st
    <2>2. batch' = [par |-> b, next |-> IF how = "ready" THEN k ELSE k + 1, st |-> st]
      BY <1>2, <2>1
    <2>3. batch'.par = b /\ batch'.next = (IF how = "ready" THEN k ELSE k + 1) /\ batch'.st = st
      BY <2>2
    <2>4. batch' \in [par : BOOLEAN, next : 1 .. MaxCalls + 1, st : Seq(C)]
      <3>1. (IF how = "ready" THEN k ELSE k + 1) \in 1 .. MaxCalls + 1
        BY <1>3, LoopAssumption
      <3> HIDE DEF C
      <3> QED BY <1>3, <1>5, <2>2, <3>1
    <2>5. Grows
      <3>1. how # "ready" => Result(k, how) \in Entry
        BY <1>3, Entries
      <3> QED BY <2>1, <3>1, GrowsOne, GrowsNot
    <2>6. LoopTypes'
      BY <1>1, <2>1, <2>4, <2>5, GrowsKeeps DEF LoopTypes
    <2>7. TurnInv'
      BY <1>1, <2>1, <2>5, GrowsKeeps DEF TurnInv
    <2>8. DOMAIN batch'.st = 1 .. Len(x) /\ Len(batch'.st) = Len(x)
      BY <1>3, <1>5, <2>3, LenProperties
    <2>9. CASE how = "ready"
      <3>1. pc' = "executing" /\ batch'.next = k /\ new = "run"
        BY <1>8, <2>1, <2>3, <2>9, <1>2
      <3>2. \A i \in 1 .. Len(x) : /\ i < k => st[i] \in Hows
                                   /\ i = k => st[i] = "run"
                                   /\ i > k => st[i] = "wait"
        BY <1>3, <1>4, <1>5, <1>8, <3>1
      <3>3. BatchInv'
        BY <1>3, <1>8, <2>3, <2>8, <3>1, <3>2 DEF BatchInv, Calls
      <3> QED BY <2>5, <2>6, <2>7, <3>3
    <2>10. CASE how # "ready"
      <3>1. pc' \in {"turnEnd", "tools"} /\ batch'.next = k + 1 /\ new = how
        BY <2>1, <2>3, <2>10
      <3>2. \A i \in 1 .. Len(x) : /\ i < k + 1 => st[i] \in Hows
                                   /\ i >= k + 1 => st[i] = "wait"
        BY <1>3, <1>4, <1>5, <1>8, <2>10, <3>1
      <3>3. pc' = "tools" => k < Len(x)
        BY <1>2, <1>3, <2>1, <2>10 DEF LastCall
      <3>4. BatchInv'
        BY <1>3, <1>8, <2>3, <2>8, <3>1, <3>2, <3>3 DEF BatchInv, Calls
      <3> QED BY <2>5, <2>6, <2>7, <3>4
    <2> QED BY <2>9, <2>10
  <1> QED BY <1>3, <1>7, <1>8

LEMMA CutTypes ==
  ASSUME LoopInv, CutBatch
  PROVE  LoopInv' /\ Grows
  <1> USE DEF LoopInv
  <1> DEFINE C == {"wait", "ready", "run"} \cup Hows
  <1>1. /\ pc = "tools" /\ aborted
        /\ UNCHANGED <<steer, follow, pend, ctx, aborted, loop, spent, thrown>>
    BY DEF CutBatch
  <1>2. PICK b, k, x : b = batch.par /\ k = batch.next /\ x = batch.st /\ batch = [par |-> b, next |-> k, st |-> x]
    BY DEF LoopTypes
  <1>3. /\ b \in BOOLEAN /\ k \in 1 .. MaxCalls /\ x \in Seq(C)
        /\ Len(x) \in Nat /\ DOMAIN x = 1 .. Len(x) /\ k <= Len(x) /\ Len(x) <= MaxCalls
    BY <1>1, <1>2, LoopAssumption DEF LoopTypes, BatchInv
  <1>4. \A i \in 1 .. Len(x) : /\ i < k => x[i] \in IF b THEN Prep ELSE Hows
                               /\ i >= k => x[i] = "wait"
    BY <1>1, <1>2, <1>3 DEF BatchInv, Calls
  <1>5. CASE b
    <2>1. pc' = "executing" /\ batch' = [batch EXCEPT !.st = Launched(@)]
      BY <1>2, <1>5, Zenon DEF CutBatch
    <2>2. /\ Launched(x) \in Seq(C) /\ Len(Launched(x)) = Len(x)
          /\ \A i \in 1 .. Len(x) : Launched(x)[i] = IF x[i] # "ready" THEN x[i] ELSE "fail"
      BY <1>1, <1>3, LaunchTypes
    <2>3. batch' = [par |-> b, next |-> k, st |-> Launched(x)] /\ b = TRUE
      BY <1>2, <1>3, <1>5, <2>1
    <2> DEFINE y == Launched(x)
    <2> HIDE DEF y
    <2>4. batch'.par = TRUE /\ batch'.next = k /\ batch'.st = y
      BY <2>3 DEF y
    <2>5. \A i \in 1 .. Len(x) : /\ i < k => y[i] \in {"run"} \cup Hows
                                 /\ i >= k => y[i] = "wait"
      BY <1>3, <1>4, <1>5, <2>2 DEF y
    <2>6. DOMAIN y = 1 .. Len(x) /\ Len(y) = Len(x)
      BY <1>3, <2>2, LenProperties DEF y
    <2>7. BatchInv'
      BY <1>3, <2>1, <2>4, <2>5, <2>6 DEF BatchInv, Calls
    <2>8. batch' \in [par : BOOLEAN, next : 1 .. MaxCalls + 1, st : Seq(C)]
      <3>1. k \in 1 .. MaxCalls + 1
        BY <1>3, LoopAssumption
      <3> HIDE DEF C
      <3> QED BY <1>3, <2>2, <2>3, <3>1 DEF y
    <2>9. LoopTypes'
      BY <1>1, <2>1, <2>8 DEF LoopTypes
    <2> QED BY <1>1, <2>1, <2>7, <2>9, GrowsNot DEF TurnInv
  <1>6. CASE ~b
    <2>1. pc' = "turnEnd" /\ batch' = batch
      BY <1>2, <1>6, Zenon DEF CutBatch
    <2>2. LoopTypes' /\ BatchInv' /\ TurnInv'
      BY <1>1, <2>1 DEF LoopTypes, BatchInv, TurnInv
    <2> QED BY <1>1, <2>2, GrowsNot
  <1> QED BY <1>3, <1>5, <1>6

LEMMA FinishTypes ==
  ASSUME LoopInv, NEW i \in Calls, NEW how \in Hows, FinishCall(i, how)
  PROVE  LoopInv' /\ Grows
  <1> USE DEF LoopInv
  <1> DEFINE C == {"wait", "ready", "run"} \cup Hows
  <1>1. /\ pc = "executing" /\ batch.st[i] = "run"
        /\ UNCHANGED <<steer, follow, pend, aborted, loop, spent, thrown>>
    BY DEF FinishCall
  <1>2. PICK b, k, x : b = batch.par /\ k = batch.next /\ x = batch.st /\ batch = [par |-> b, next |-> k, st |-> x]
    BY DEF LoopTypes
  <1>3. /\ b \in BOOLEAN /\ k \in 1 .. MaxCalls + 1 /\ x \in Seq(C) /\ k <= Len(x) + 1 /\ k \in Nat
        /\ Len(x) \in Nat /\ DOMAIN x = 1 .. Len(x) /\ i \in 1 .. Len(x) /\ Len(x) <= MaxCalls
    BY <1>1, <1>2, LoopAssumption, SMTT(30) DEF LoopTypes, BatchInv, Calls
  <1>4. /\ ~b => k <= Len(x)
        /\ \A j \in 1 .. Len(x) : /\ j < k => x[j] \in IF b THEN {"run"} \cup Hows ELSE Hows
                                  /\ j = k => x[j] = IF b THEN "wait" ELSE "run"
                                  /\ j > k => x[j] = "wait"
    BY <1>1, <1>2, <1>3 DEF BatchInv, Calls
  <1> DEFINE y == [x EXCEPT ![i] = how]
  <1>5. /\ y \in Seq(C) /\ Len(y) = Len(x) /\ DOMAIN y = 1 .. Len(x)
        /\ \A j \in 1 .. Len(x) : y[j] = IF j = i THEN how ELSE x[j]
    BY <1>3, ExceptSeq, LenProperties
  <1> HIDE DEF y
  <1>6. CASE b
    <2>1. batch' = [batch EXCEPT !.st[i] = how] /\ UNCHANGED <<pc, ctx>>
      BY <1>2, <1>6, Zenon DEF FinishCall
    <2>2. batch' = [par |-> b, next |-> k, st |-> y] /\ b = TRUE
      BY <1>2, <1>3, <1>6, <2>1 DEF y
    <2>3. batch'.par = TRUE /\ batch'.next = k /\ batch'.st = y
      BY <2>2
    <2>4. \A j \in 1 .. Len(x) : /\ j < k => y[j] \in {"run"} \cup Hows
                                 /\ j >= k => y[j] = "wait"
      <3>1. i < k
        BY <1>1, <1>2, <1>3, <1>4, <1>6
      <3> QED BY <1>3, <1>4, <1>5, <1>6, <3>1
    <2>5. BatchInv'
      BY <1>1, <1>3, <1>5, <2>1, <2>3, <2>4 DEF BatchInv, Calls
    <2>6. batch' \in [par : BOOLEAN, next : 1 .. MaxCalls + 1, st : Seq(C)]
      <3> HIDE DEF C
      <3> QED BY <1>3, <1>5, <2>2
    <2>7. LoopTypes'
      BY <1>1, <2>1, <2>6 DEF LoopTypes
    <2> QED BY <2>1, <2>5, <2>7, GrowsNot DEF TurnInv
  <1>7. CASE ~b
    <2>1. /\ batch' = [batch EXCEPT !.st[i] = how, !.next = @ + 1]
          /\ pc' = IF aborted \/ LastCall THEN "turnEnd" ELSE "tools"
          /\ ctx' = Append(ctx, Result(i, how))
      BY <1>2, <1>7, Zenon DEF FinishCall
    <2>2. batch' = [par |-> b, next |-> k + 1, st |-> y] /\ b = FALSE
      BY <1>2, <1>3, <1>7, <2>1 DEF y
    <2>3. batch'.par = FALSE /\ batch'.next = k + 1 /\ batch'.st = y
      BY <2>2
    <2>4. i = k
      BY <1>1, <1>2, <1>3, <1>4, <1>7
    <2>5. \A j \in 1 .. Len(x) : /\ j < k + 1 => y[j] \in Hows
                                 /\ j >= k + 1 => y[j] = "wait"
      BY <1>3, <1>4, <1>5, <1>7, <2>4
    <2>6. pc' \in {"turnEnd", "tools"} /\ (pc' = "tools" => k < Len(x))
      <3>1. pc' \in {"turnEnd", "tools"} /\ (pc' = "tools" => k # Len(x))
        BY <1>2, <2>1 DEF LastCall
      <3>2. k <= Len(x)
        BY <1>4, <1>7, Zenon
      <3>3. k \in Nat /\ Len(x) \in Nat
        BY <1>3
      <3> HIDE DEF C
      <3> QED BY <3>1, <3>2, <3>3
    <2>7. BatchInv'
      <3>1. k + 1 <= Len(x) + 1 /\ (pc' = "tools" => k + 1 <= Len(x)) /\ pc' # "executing"
        BY <1>3, <1>4, <1>7, <2>6
      <3> QED BY <1>3, <1>5, <2>3, <2>5, <3>1 DEF BatchInv, Calls
    <2>8. batch' \in [par : BOOLEAN, next : 1 .. MaxCalls + 1, st : Seq(C)]
      <3>1. k + 1 \in 1 .. MaxCalls + 1
        BY <1>3, <1>4, <1>7, LoopAssumption
      <3> HIDE DEF C
      <3> QED BY <1>3, <1>5, <2>2, <3>1
    <2>9. Grows
      <3>1. Result(i, how) \in Entry
        <4>1. i \in 1 .. MaxCalls
          BY <1>3, LoopAssumption
        <4> QED BY <4>1, Entries
      <3> QED BY <2>1, <3>1, GrowsOne
    <2>10. LoopTypes'
      BY <1>1, <2>6, <2>8, <2>9, GrowsKeeps DEF LoopTypes
    <2>11. TurnInv'
      BY <1>1, <2>9, GrowsKeeps DEF TurnInv
    <2> QED BY <2>7, <2>9, <2>10, <2>11
  <1> QED BY <1>3, <1>6, <1>7

\* The last answer is the last answer.
LEMMA LastAsstIs ==
  ASSUME ctx \in Seq(Entry), HasAnswer(ctx)
  PROVE  /\ LastAsst \in DOMAIN ctx /\ ctx[LastAsst].kind = "asst"
         /\ \A j \in DOMAIN ctx : j > LastAsst => ctx[j].kind # "asst"
  <1> DEFINE A == {i \in DOMAIN ctx : ctx[i].kind = "asst"}
  <1>1. DOMAIN ctx = 1 .. Len(ctx) /\ Len(ctx) \in Nat
    BY LenProperties
  <1>2. A # {} /\ A \in SUBSET (1 .. Len(ctx))
    BY <1>1 DEF HasAnswer
  <1>3. PICK i \in A : \A j \in A : j <= i
    BY <1>1, <1>2, HasGreatest
  <1>4. /\ ctx[i].kind = "asst"
        /\ \A j \in DOMAIN ctx : j > i => ctx[j].kind # "asst"
    BY <1>1, <1>3
  <1> QED BY <1>3, <1>4 DEF LastAsst

LEMMA FailingIs == ASSUME LoopInv, pc = "turnEnd" PROVE Failing \in 0 .. RepeatLimit
  <1>1. ctx \in Seq(Entry) /\ HasAnswer(ctx) /\ loop.fails \in Nat
    BY LoopAssumption DEF LoopInv, LoopTypes, TurnInv
  <1>2. LastAsst \in Nat /\ Len(ctx) \in Nat
    BY <1>1, LastAsstIs, LenProperties
  <1>3. IsFiniteSet(LastAsst + 1 .. Len(ctx))
    BY <1>2, FS_Interval
  <1>4. TurnResults \subseteq LastAsst + 1 .. Len(ctx)
    BY DEF TurnResults
  <1>5. IsFiniteSet(TurnResults)
    BY <1>3, <1>4, FS_Subset
  <1>6. FailedNow \in Nat
    BY <1>5, FS_CardinalityType DEF FailedNow
  <1> QED BY <1>1, <1>6, LoopAssumption DEF Failing

LEMMA EndTypes ==
  ASSUME LoopInv, NEW flush \in Seq(Entry),
         \/ \E continue \in BOOLEAN : FinishTurn(continue)
         \/ \E stop, repeated \in BOOLEAN : TurnEnd(stop, repeated, flush)
         \/ FailedTurnEnd(flush)
         \/ \E s \in {"aborted", "error", "flaky"} : RunFails(s, flush)
         \/ RunBreaks
  PROVE  LoopInv' /\ Grows
  <1> USE DEF LoopInv
  <1>1. ASSUME NEW continue \in BOOLEAN, FinishTurn(continue) PROVE LoopInv' /\ Grows
    <2>1. /\ pc = "turnEnd" /\ pc' = "polling"
          /\ loop' = [loop EXCEPT !.cont = continue, !.fails = Failing]
          /\ UNCHANGED <<steer, follow, pend, ctx, aborted, batch, spent, thrown>>
      BY <1>1 DEF FinishTurn
    <2>2. loop' \in [skip : BOOLEAN, cont : BOOLEAN, fails : 0 .. RepeatLimit]
      <3>1. loop \in [skip : BOOLEAN, cont : BOOLEAN, fails : 0 .. RepeatLimit]
        BY DEF LoopTypes
      <3> QED BY <2>1, <3>1, FailingIs
    <2>3. LoopTypes' /\ BatchInv' /\ TurnInv'
      BY <2>1, <2>2 DEF LoopTypes, BatchInv, TurnInv
    <2> QED BY <2>1, <2>3, GrowsNot
  <1>2. ASSUME NEW stop \in BOOLEAN, NEW repeated \in BOOLEAN, TurnEnd(stop, repeated, flush)
        PROVE LoopInv' /\ Grows
    <2> DEFINE halted == /\ repeated /\ LastResults # {} /\ loop.fails = RepeatLimit
                         /\ Drained(steer) = <<>> /\ ~aborted
               more   == IF halted /\ ~stop THEN <<Asst(0, "error")>> ELSE <<>>
    <2>1. /\ ctx' = ctx \o flush \o more
          /\ batch' = NoBatch /\ loop' = [loop EXCEPT !.cont = FALSE]
          /\ UNCHANGED <<aborted, spent, thrown>>
      BY <1>2 DEF TurnEnd
    <2>2. pc' \in {"ended", "between"}
      <3>1. pc' = "ended" \/ pc' = "between"
        BY <1>2, Zenon DEF TurnEnd
      <3> QED BY <3>1
    <2>3. /\ steer' = steer \/ steer' = Left(steer)
          /\ follow' = follow \/ follow' = Left(follow)
          /\ pend' = pend \/ pend' = Drained(steer) \/ pend' = Drained(follow)
      BY <1>2, Zenon DEF TurnEnd
    <2>4. more \in Seq(Entry)
      <3>1. Asst(0, "error") \in Entry
        BY Entries, LoopAssumption DEF Stops, Failed
      <3> QED BY <3>1, OneElement, NoElement
    <2>5. Grows
      <3> HIDE DEF more
      <3>1. ctx \in Seq(Entry)
        BY DEF LoopTypes
      <3>2. flush \o more \in Seq(Entry)
        BY <2>4, ConcatProperties
      <3>3. ctx \o flush \o more = ctx \o (flush \o more)
        BY <2>4, <3>1, ConcatAssociative
      <3> QED BY <2>1, <3>2, <3>3 DEF Grows
    <2>6. steer' \in Seq(QueuedMsg({"steer"})) /\ follow' \in Seq(QueuedMsg({"follow"}))
          /\ pend' \in Seq(QueuedMsg({"prompt", "steer", "follow"}))
      <3>1. /\ steer \in Seq(QueuedMsg({"steer"})) /\ follow \in Seq(QueuedMsg({"follow"}))
            /\ pend \in Seq(QueuedMsg({"prompt", "steer", "follow"}))
        BY DEF LoopTypes
      <3> QED BY <2>3, <3>1, DrainTypes, AnyQueue
    <2>7. loop' \in [skip : BOOLEAN, cont : BOOLEAN, fails : 0 .. RepeatLimit]
      <3>1. loop \in [skip : BOOLEAN, cont : BOOLEAN, fails : 0 .. RepeatLimit]
        BY DEF LoopTypes
      <3> QED BY <2>1, <3>1
    <2>8. LoopTypes'
      BY <2>1, <2>2, <2>5, <2>6, <2>7, NoBatchTypes, GrowsKeeps DEF LoopTypes
    <2>9. BatchInv' /\ TurnInv'
      BY <2>1, <2>2, NoBatchTypes, LoopAssumption DEF BatchInv, TurnInv
    <2> QED BY <2>5, <2>8, <2>9
  <1>3. CASE FailedTurnEnd(flush)
    <2>1. /\ pc' = "ended" /\ ctx' = ctx \o flush
          /\ UNCHANGED <<steer, follow, pend, aborted, batch, loop, spent, thrown>>
      BY <1>3 DEF FailedTurnEnd
    <2>2. Grows
      BY <2>1 DEF Grows
    <2>3. LoopTypes' /\ BatchInv' /\ TurnInv'
      BY <2>1, <2>2, GrowsKeeps DEF LoopTypes, BatchInv, TurnInv
    <2> QED BY <2>2, <2>3
  <1>4. ASSUME pc' \in {"ended", "broken"}, NEW s \in {"aborted", "error", "flaky"},
               NEW rest \in Seq(Entry), ctx' = Append(ctx, Asst(0, s)) \o rest,
               thrown' = TRUE, pend' = <<>>, batch' = NoBatch,
               UNCHANGED <<spent, steer, follow, aborted, loop>>
        PROVE  LoopInv' /\ Grows
    <2>1. Asst(0, s) \in Entry /\ ctx \in Seq(Entry)
      BY Entries, LoopAssumption DEF Stops, Failed, LoopTypes
    <2>2. Append(ctx, Asst(0, s)) = ctx \o <<Asst(0, s)>> /\ <<Asst(0, s)>> \in Seq(Entry)
      BY <2>1, OneElement, AppendIsConcat
    <2>3. ctx' = ctx \o (<<Asst(0, s)>> \o rest) /\ <<Asst(0, s)>> \o rest \in Seq(Entry)
      BY <1>4, <2>1, <2>2, ConcatProperties, ConcatAssociative
    <2>4. Grows
      BY <2>3 DEF Grows
    <2>5. LoopTypes' /\ BatchInv' /\ TurnInv'
      BY <1>4, <2>4, GrowsKeeps, NoBatchTypes, LoopAssumption, SMTT(30) DEF LoopTypes, BatchInv, TurnInv
    <2> QED BY <2>4, <2>5
  <1>5. ASSUME NEW s \in {"aborted", "error", "flaky"}, RunFails(s, flush) PROVE LoopInv' /\ Grows
    <2>1. /\ pc' = "ended" /\ ctx' = Append(ctx, Asst(0, s)) \o flush
          /\ thrown' = TRUE /\ pend' = <<>> /\ batch' = NoBatch
          /\ UNCHANGED <<spent, steer, follow, aborted, loop>>
      BY <1>5 DEF RunFails
    <2> QED BY <1>4, <2>1
  <1>6. CASE RunBreaks
    <2> DEFINE s == IF aborted THEN "aborted" ELSE "error"
    <2>1. /\ pc' = "broken" /\ ctx' = Append(ctx, Asst(0, s))
          /\ thrown' = TRUE /\ pend' = <<>> /\ batch' = NoBatch
          /\ UNCHANGED <<spent, steer, follow, aborted, loop>>
      BY <1>6 DEF RunBreaks
    <2>2. s \in {"aborted", "error"}
      OBVIOUS
    <2>3. Append(ctx, Asst(0, s)) \o <<>> = Append(ctx, Asst(0, s)) /\ <<>> \in Seq(Entry)
      <3>1. Append(ctx, Asst(0, s)) \in Seq(Entry)
        BY <2>2, Entries, AppendProperties, LoopAssumption DEF Stops, Failed, LoopTypes
      <3> QED BY <3>1, ConcatEmptySeq, NoElement
    <2> HIDE DEF s
    <2>4. CASE s = "aborted"
      BY <1>4, <2>1, <2>3, <2>4
    <2>5. CASE s = "error"
      BY <1>4, <2>1, <2>3, <2>5
    <2> QED BY <2>2, <2>4, <2>5
  <1> QED BY <1>1, <1>2, <1>3, <1>5, <1>6

LEMMA LoopStepTypes ==
  ASSUME LoopInv, customs \in Seq(Customs), RunStep \/ EndTurn \/ BreakRun
  PROVE  LoopInv' /\ Grows
  <1>1. CASE RunStep
    <2>1. \/ Deliver \/ FirstPoll \/ Prepared \/ OutOfBudget \/ CollectResults
          \/ \E s \in Failed \cup {"aborted"} : Refuse(s)
          \/ \E n \in 0 .. MaxCalls, s \in {"stop", "length"}, par \in BOOLEAN : Answer(n, s, par)
          \/ \E how \in {"ready", "fail", "stop"} : PrepareCall(how)
          \/ CutBatch
          \/ \E i \in Calls, how \in Hows : FinishCall(i, how)
          \/ \E continue \in BOOLEAN : FinishTurn(continue)
      BY <1>1, Zenon DEF RunStep
    <2>2. <<>> \in Seq(Entry)
      BY NoElement
    <2> QED BY <2>1, <2>2, TurnTypes, AnswerTypes, PrepareTypes, CutTypes, FinishTypes, EndTypes
  <1>2. CASE EndTurn
    <2>1. Flushed \in Seq(Entry)
      BY FlushedTypes
    <2>2. \/ \E stop, repeated \in BOOLEAN : TurnEnd(stop, repeated, Flushed)
          \/ FailedTurnEnd(Flushed)
          \/ \E s \in {"aborted", "error", "flaky"} : RunFails(s, Flushed)
      BY <1>2, Zenon DEF EndTurn
    <2> QED BY <2>1, <2>2, EndTypes
  <1>3. CASE BreakRun
    <2>1. <<>> \in Seq(Entry)
      BY NoElement
    <2> QED BY <1>3, <2>1, EndTypes DEF BreakRun
  <1> QED BY <1>1, <1>2, <1>3

\* Taking a text off the display.
LEMMA UnlistedIs ==
  ASSUME NEW S, NEW shown \in Seq(S), NEW texts
  PROVE  /\ Unlisted(shown, texts) \in Seq(S)
         /\ Hits(shown, texts) # {} =>
              \E k \in DOMAIN shown :
                /\ shown[k] \in texts
                /\ Len(Unlisted(shown, texts)) = Len(shown) - 1
                /\ \A j \in DOMAIN Unlisted(shown, texts) :
                     /\ (IF j < k THEN j ELSE j + 1) \in DOMAIN shown
                     /\ Unlisted(shown, texts)[j] = shown[IF j < k THEN j ELSE j + 1]
  <1>1. DOMAIN shown = 1 .. Len(shown) /\ Len(shown) \in Nat
    BY LenProperties
  <1>2. CASE Hits(shown, texts) = {}
    BY <1>2 DEF Unlisted
  <1>3. CASE Hits(shown, texts) # {}
    <2> DEFINE H == Hits(shown, texts)
               k == CHOOSE i \in H : \A j \in H : i <= j
    <2>1. H \in SUBSET Nat /\ H \subseteq DOMAIN shown /\ \A i \in H : shown[i] \in texts
      BY <1>1 DEF Hits
    <2>2. \E i \in H : \A j \in H : i <= j
      BY <1>3, <2>1, HasLeast
    <2>3. k \in H
      BY <2>2
    <2>4. Unlisted(shown, texts) = [j \in 1 .. Len(shown) - 1 |-> shown[IF j < k THEN j ELSE j + 1]]
      BY <1>3, Zenon DEF Unlisted
    <2>5. PICK l : l = k
      OBVIOUS
    <2>6. l \in 1 .. Len(shown) /\ shown[l] \in texts
      BY <1>1, <2>1, <2>3, <2>5
    <2> HIDE DEF k, H
    <2> DEFINE f == [j \in 1 .. Len(shown) - 1 |-> shown[IF j < l THEN j ELSE j + 1]]
    <2>7. \A j \in 1 .. Len(shown) - 1 : (IF j < l THEN j ELSE j + 1) \in 1 .. Len(shown)
      BY <1>1, <2>6
    <2>8. f \in [1 .. Len(shown) - 1 -> S]
      BY <1>1, <2>7, ElementOfSeq
    <2>9. Len(shown) - 1 \in Nat
      BY <1>1, <2>6
    <2>10. f \in Seq(S) /\ Len(f) = Len(shown) - 1 /\ DOMAIN f = 1 .. Len(shown) - 1
      BY <2>8, <2>9
    <2>11. Unlisted(shown, texts) = f
      BY <2>4, <2>5
    <2> QED BY <1>1, <2>6, <2>7, <2>10, <2>11
  <1> QED BY <1>2, <1>3

LEMMA HeardTypes ==
  ASSUME SessionTypes, LoopInv, LoopInv', Grows, Heard
  PROVE  /\ mirror' \in [steer : Seq(Users), follow : Seq(Users)]
         /\ last' \in Stops \cup {"none"} /\ tried' \in BOOLEAN /\ retry' \in 0 .. MaxRetries
         /\ last' # "none" => HasAnswer(ctx')
  <1> DEFINE new   == {i \in DOMAIN ctx' : i > Len(ctx)}
             users == {ctx'[i].m : i \in {j \in new : ctx'[j].kind = "message"}} \cap Users
             assts == {i \in new : ctx'[i].kind = "asst"}
             a     == CHOOSE i \in assts : TRUE
             stop  == IF assts = {} THEN last ELSE ctx'[a].stop
  <1>1. /\ mirror' = IF Hits(mirror.steer, users) # {}
                        THEN [mirror EXCEPT !.steer = Unlisted(@, users)]
                        ELSE [mirror EXCEPT !.follow = Unlisted(@, users)]
        /\ last' = stop
        /\ tried' = (tried /\ users = {} /\ (assts = {} \/ stop \in Failed \cup {"length"}))
        /\ retry' = IF assts # {} /\ stop \notin Failed THEN 0 ELSE retry
    BY Zenon DEF Heard
  <1>2. ctx' \in Seq(Entry) /\ (HasAnswer(ctx) => HasAnswer(ctx'))
    BY GrowsKeeps DEF LoopInv
  <1>3. assts # {} => stop \in Stops /\ HasAnswer(ctx')
    <2>1. SUFFICES ASSUME assts # {} PROVE stop \in Stops /\ HasAnswer(ctx')
      OBVIOUS
    <2>2. a \in assts
      BY <2>1
    <2>3. a \in DOMAIN ctx' /\ ctx'[a].kind = "asst"
      BY <2>2
    <2>4. ctx'[a] \in Entry
      <3>1. DOMAIN ctx' = 1 .. Len(ctx')
        BY <1>2, LenProperties
      <3> QED BY <1>2, <2>3, <3>1, ElementOfSeq
    <2> HIDE DEF a
    <2>5. ctx'[a].stop \in Stops
      BY <2>3, <2>4 DEF Entry
    <2> QED BY <2>1, <2>3, <2>5 DEF HasAnswer
  <1>4. last \in Stops \cup {"none"} /\ tried \in BOOLEAN /\ retry \in 0 .. MaxRetries
        /\ mirror \in [steer : Seq(Users), follow : Seq(Users)]
        /\ (last # "none" => HasAnswer(ctx))
    BY DEF SessionTypes
  <1>5. last' \in Stops \cup {"none"} /\ (last' # "none" => HasAnswer(ctx'))
    BY <1>1, <1>2, <1>3, <1>4
  <1> HIDE DEF users, stop, assts
  <1>6. tried' \in BOOLEAN
    BY <1>1, Zenon
  <1>7. retry' \in 0 .. MaxRetries
    BY <1>1, <1>4, SessionAssumption
  <1>8. Unlisted(mirror.steer, users) \in Seq(Users) /\ Unlisted(mirror.follow, users) \in Seq(Users)
    BY <1>4, UnlistedIs
  <1>9. mirror' \in [steer : Seq(Users), follow : Seq(Users)]
    <2>1. \/ mirror' = [mirror EXCEPT !.steer = Unlisted(mirror.steer, users)]
          \/ mirror' = [mirror EXCEPT !.follow = Unlisted(mirror.follow, users)]
      BY <1>1
    <2> QED BY <1>4, <1>8, <2>1
  <1> QED BY <1>5, <1>6, <1>7, <1>9

LEMMA TypeInit == Init => TypeInv
  <1> SUFFICES ASSUME Init PROVE TypeInv
    OBVIOUS
  <1>1. LoopTypes
    <2>1. NoLocals \in [skip : BOOLEAN, cont : BOOLEAN, fails : 0 .. RepeatLimit]
      BY LoopAssumption DEF NoLocals
    <2>2. /\ steer \in Seq(QueuedMsg({"steer"})) /\ follow \in Seq(QueuedMsg({"follow"}))
          /\ pend \in Seq(QueuedMsg({"prompt", "steer", "follow"})) /\ ctx \in Seq(Entry)
      BY NoElement DEF Init, LoopInit
    <2>3. /\ pc = "off" /\ batch = NoBatch /\ loop = NoLocals
          /\ aborted = FALSE /\ spent = FALSE /\ thrown = FALSE
      BY DEF Init, LoopInit
    <2> HIDE DEF Init
    <2> QED BY <2>1, <2>2, <2>3, NoBatchTypes DEF LoopTypes
  <1>2. BatchInv /\ TurnInv
    BY NoBatchTypes, LoopAssumption DEF Init, LoopInit, BatchInv, TurnInv
  <1>3. SessionTypes
    <2>1. front \in [at : {"none", "preflight", "run", "after"}, m : Users \cup {None}] /\ FrontInv
      BY DEF Init, NoFront, FrontInv
    <2>2. events \in 0 .. MaxEvents /\ retry \in 0 .. MaxRetries
      BY LoopAssumption, SessionAssumption DEF Init, LoopInit
    <2>3. mirror \in [steer : Seq(Users), follow : Seq(Users)]
      BY NoElement DEF Init
    <2>4. /\ customs \in Seq(Customs) /\ nextTurn \in Seq(QueuedMsg({"prompt"}))
          /\ deferred \in Seq(Messages)
      BY NoElement DEF Init
    <2>5. /\ sc = "idle" /\ pc = "off" /\ aborted = FALSE /\ omitted = {} /\ last = "none"
          /\ sent = {} /\ returned = {} /\ dropped = {}
          /\ stopReq = FALSE /\ tried = FALSE /\ midRun = FALSE /\ waiting = FALSE /\ threw = FALSE
      BY DEF Init, LoopInit
    <2> QED BY <2>1, <2>2, <2>3, <2>4, <2>5 DEF SessionTypes, Control
  <1> QED BY <1>1, <1>2, <1>3 DEF TypeInv, LoopInv

LEMMA HappensTypes ==
  ASSUME events \in 0 .. MaxEvents, NEW n \in Nat, Happens(n)
  PROVE  events' \in 0 .. MaxEvents
  BY LoopAssumption DEF Happens

\* What a call from outside leaves alone in the loop keeps its types.
LEMMA QueueTypes ==
  ASSUME LoopInv, UNCHANGED <<pc, pend, ctx, batch, loop, spent, thrown>>,
         aborted' \in BOOLEAN,
         steer' \in Seq(QueuedMsg({"steer"})), follow' \in Seq(QueuedMsg({"follow"}))
  PROVE  LoopInv' /\ Grows
  <1>1. LoopTypes'
    BY DEF LoopInv, LoopTypes
  <1>2. BatchInv'
    BY DEF LoopInv, BatchInv, Calls
  <1>3. TurnInv'
    BY DEF LoopInv, TurnInv
  <1> QED BY <1>1, <1>2, <1>3, GrowsNot DEF LoopInv

LEMMA RecordTypes ==
  ASSUME LoopInv, NEW s \in Seq(Entry), Record(s)
  PROVE  LoopInv' /\ Grows
  <1>1. ctx' = ctx \o s /\ UNCHANGED <<pc, steer, follow, pend, aborted, batch, loop, spent, thrown>>
    BY DEF Record
  <1>2. Grows
    BY <1>1 DEF Grows
  <1>3. LoopTypes'
    BY <1>1, <1>2, GrowsKeeps DEF LoopInv, LoopTypes
  <1>4. BatchInv'
    BY <1>1 DEF LoopInv, BatchInv, Calls
  <1>5. TurnInv'
    BY <1>1, <1>2, GrowsKeeps DEF LoopInv, TurnInv
  <1> QED BY <1>2, <1>3, <1>4, <1>5 DEF LoopInv

\* A queued message, and the loop with it.
LEMMA SteerTypes ==
  ASSUME LoopInv, NEW m \in Messages, Steer(Queued(m, "steer")) \/ FollowUp(Queued(m, "follow"))
  PROVE  LoopInv' /\ Grows
  <1>1. /\ steer \in Seq(QueuedMsg({"steer"})) /\ follow \in Seq(QueuedMsg({"follow"}))
        /\ aborted \in BOOLEAN
    BY DEF LoopInv, LoopTypes
  <1>2. /\ Append(steer, Queued(m, "steer")) \in Seq(QueuedMsg({"steer"}))
        /\ Append(follow, Queued(m, "follow")) \in Seq(QueuedMsg({"follow"}))
    BY <1>1, QueueKinds, AppendProperties
  <1>3. CASE Steer(Queued(m, "steer"))
    <2>1. /\ steer' = Append(steer, Queued(m, "steer"))
          /\ UNCHANGED <<pc, follow, pend, ctx, aborted, batch, loop, spent, thrown>>
      BY <1>3 DEF Steer
    <2>2. steer' \in Seq(QueuedMsg({"steer"})) /\ follow' \in Seq(QueuedMsg({"follow"}))
          /\ aborted' \in BOOLEAN
      BY <1>1, <1>2, <2>1
    <2> QED BY <2>1, <2>2, QueueTypes
  <1>4. CASE FollowUp(Queued(m, "follow"))
    <2>1. /\ follow' = Append(follow, Queued(m, "follow"))
          /\ UNCHANGED <<pc, steer, pend, ctx, aborted, batch, loop, spent, thrown>>
      BY <1>4 DEF FollowUp
    <2>2. steer' \in Seq(QueuedMsg({"steer"})) /\ follow' \in Seq(QueuedMsg({"follow"}))
          /\ aborted' \in BOOLEAN
      BY <1>1, <1>2, <2>1
    <2> QED BY <2>1, <2>2, QueueTypes
  <1> QED BY <1>3, <1>4

\* _runAgentPrompt begins a run.
LEMMA BeginTypes ==
  ASSUME LoopInv, NEW prompts \in Seq(QueuedMsg({"prompt"})), BeginRun(prompts)
  PROVE  /\ LoopInv' /\ Grows
         /\ sc' = "run" /\ pc' = "prompting" /\ ctx' = ctx /\ stopReq' = FALSE
  <1>1. /\ Start(prompts, FALSE) /\ spent' = FALSE /\ UNCHANGED <<steer, follow, ctx>>
        /\ sc' = "run" /\ stopReq' = FALSE
    BY DEF BeginRun, StartPrompt
  <1>2. prompts \in Seq(QueuedMsg({"prompt", "steer", "follow"}))
    BY AnyQueue
  <1>3. /\ steer' \in Seq(QueuedMsg({"steer"})) /\ follow' \in Seq(QueuedMsg({"follow"}))
        /\ spent' \in BOOLEAN
    BY <1>1 DEF LoopInv, LoopTypes
  <1>4. LoopInv'
    BY <1>1, <1>2, <1>3, StartTypes
  <1>5. pc' = "prompting"
    BY <1>1 DEF Start
  <1> QED BY <1>1, <1>4, <1>5, GrowsNot DEF LoopInv

\* The run and the display stay as they are.
LEMMA CallTypes ==
  ASSUME TypeInv, LoopInv', Grows, UNCHANGED <<runVars, threw>>,
         events' \in 0 .. MaxEvents,
         sc' \in Control, (pc' # "off") = (sc' = "run"), aborted' => sc' = "run",
         front' \in [at : {"none", "preflight", "run", "after"}, m : Users \cup {None}], FrontInv',
         mirror' \in [steer : Seq(Users), follow : Seq(Users)],
         customs' \in Seq(Customs), nextTurn' \in Seq(QueuedMsg({"prompt"})),
         deferred' \in Seq(Messages),
         sent' \subseteq Messages, returned' \subseteq Users, dropped' \subseteq Users,
         stopReq' \in BOOLEAN, waiting' \in BOOLEAN
  PROVE  TypeInv'
  <1>1. retry' = retry /\ tried' = tried /\ midRun' = midRun /\ last' = last /\ omitted' = omitted
        /\ threw' = threw
    BY DEF runVars
  <1>2. omitted \subseteq DOMAIN ctx /\ retry \in 0 .. MaxRetries /\ last \in Stops \cup {"none"}
        /\ (last # "none" => HasAnswer(ctx)) /\ tried \in BOOLEAN /\ midRun \in BOOLEAN /\ threw \in BOOLEAN
    BY DEF TypeInv, SessionTypes
  <1>3. DOMAIN ctx \subseteq DOMAIN ctx' /\ (HasAnswer(ctx) => HasAnswer(ctx'))
    BY GrowsKeeps DEF TypeInv, LoopInv
  <1>4. omitted' \subseteq DOMAIN ctx' /\ (last' # "none" => HasAnswer(ctx'))
    BY <1>1, <1>2, <1>3
  <1>5. SessionTypes'
    BY <1>1, <1>2, <1>4 DEF SessionTypes
  <1> QED BY <1>5 DEF TypeInv

\* What the types say, one by one.
LEMMA SessionFacts ==
  ASSUME TypeInv
  PROVE  /\ LoopInv
         /\ events \in 0 .. MaxEvents /\ sc \in Control
         /\ (pc # "off") = (sc = "run") /\ (aborted => sc = "run")
         /\ front \in [at : {"none", "preflight", "run", "after"}, m : Users \cup {None}] /\ FrontInv
         /\ mirror \in [steer : Seq(Users), follow : Seq(Users)]
         /\ mirror.steer \in Seq(Users) /\ mirror.follow \in Seq(Users)
         /\ customs \in Seq(Customs) /\ nextTurn \in Seq(QueuedMsg({"prompt"}))
         /\ deferred \in Seq(Messages)
         /\ sent \subseteq Messages /\ returned \subseteq Users /\ dropped \subseteq Users
         /\ stopReq \in BOOLEAN /\ waiting \in BOOLEAN
         /\ steer \in Seq(QueuedMsg({"steer"})) /\ follow \in Seq(QueuedMsg({"follow"}))
         /\ aborted \in BOOLEAN
  BY DEF TypeInv, SessionTypes, LoopInv, LoopTypes

LEMMA NewTypes ==
  ASSUME TypeInv, NEW m \in Messages, New(m)
  PROVE  sent' \subseteq Messages /\ events' \in 0 .. MaxEvents /\ sc \notin {"post", "finish"}
  <1>1. sent' = sent \cup {m} /\ Happens(1) /\ Quiet
    BY DEF New
  <1> QED BY <1>1, SessionFacts, HappensTypes DEF Quiet

LEMMA LoopStays ==
  ASSUME TypeInv, UNCHANGED loopVars
  PROVE  LoopInv' /\ Grows /\ pc' = pc /\ aborted' = aborted
  <1>1. /\ UNCHANGED <<pc, pend, ctx, batch, loop, spent, thrown>>
        /\ steer' = steer /\ follow' = follow /\ aborted' = aborted
    BY DEF loopVars
  <1>2. /\ steer' \in Seq(QueuedMsg({"steer"})) /\ follow' \in Seq(QueuedMsg({"follow"}))
        /\ aborted' \in BOOLEAN /\ LoopInv
    BY <1>1, SessionFacts
  <1> QED BY <1>1, <1>2, QueueTypes

LEMMA PromptTypes ==
  ASSUME TypeInv, NEW u \in Users,
         Prompt(u) \/ PromptWhileSettling(u) \/ QueueSteer(u) \/ QueueFollowUp(u)
  PROVE  TypeInv'
  <1> USE SessionFacts
  <1>0. u \in Messages
    BY DEF Messages
  <1>1. CASE Prompt(u)
    <2>1. /\ New(u) /\ front' = [at |-> "preflight", m |-> u]
          /\ UNCHANGED <<loopVars, runVars, threw>> /\ sc' = sc /\ stopReq' = stopReq
          /\ mirror' = mirror /\ customs' = customs /\ nextTurn' = nextTurn /\ returned' = returned
          /\ waiting' = waiting /\ deferred' = deferred /\ dropped' = dropped
      BY <1>1 DEF Prompt, runVars
    <2>2. front' \in [at : {"none", "preflight", "run", "after"}, m : Users \cup {None}] /\ FrontInv'
      BY <2>1 DEF FrontInv
    <2>3. LoopInv' /\ Grows /\ pc' = pc /\ aborted' = aborted
      BY <2>1, LoopStays
    <2> QED BY <1>0, <2>1, <2>2, <2>3, NewTypes, CallTypes
  <1>2. CASE PromptWhileSettling(u)
    <2>1. /\ New(u) /\ deferred' = <<u>> /\ front' = front
          /\ UNCHANGED <<loopVars, runVars, threw>> /\ sc' = sc /\ stopReq' = stopReq
          /\ mirror' = mirror /\ customs' = customs /\ nextTurn' = nextTurn /\ returned' = returned
          /\ waiting' = waiting /\ dropped' = dropped
      BY <1>2 DEF PromptWhileSettling, runVars
    <2>2. deferred' \in Seq(Messages) /\ FrontInv'
      BY <1>0, <2>1, OneElement DEF FrontInv
    <2>3. LoopInv' /\ Grows /\ pc' = pc /\ aborted' = aborted
      BY <2>1, LoopStays
    <2> QED BY <1>0, <2>1, <2>2, <2>3, NewTypes, CallTypes
  <1>3. CASE QueueSteer(u) \/ QueueFollowUp(u)
    <2>1. /\ New(u) /\ front' = front /\ deferred' = deferred
          /\ UNCHANGED <<runVars, threw>> /\ sc' = sc /\ stopReq' = stopReq
          /\ customs' = customs /\ nextTurn' = nextTurn /\ returned' = returned
          /\ waiting' = waiting /\ dropped' = dropped
      BY <1>3 DEF QueueSteer, QueueFollowUp, runVars, callVars
    <2>2. FrontInv'
      BY <2>1 DEF FrontInv
    <2>3. Steer(Queued(u, "steer")) \/ FollowUp(Queued(u, "follow"))
      BY <1>3 DEF QueueSteer, QueueFollowUp
    <2>4. LoopInv' /\ Grows
      BY <1>0, <2>3, SteerTypes
    <2>5. pc' = pc /\ aborted' = aborted
      BY <2>3 DEF Steer, FollowUp
    <2>6. mirror' \in [steer : Seq(Users), follow : Seq(Users)]
      <3>1. /\ Append(mirror.steer, u) \in Seq(Users) /\ Append(mirror.follow, u) \in Seq(Users)
        BY AppendProperties
      <3>2. \/ mirror' = [mirror EXCEPT !.steer = Append(mirror.steer, u)]
            \/ mirror' = [mirror EXCEPT !.follow = Append(mirror.follow, u)]
        BY <1>3 DEF QueueSteer, QueueFollowUp
      <3> QED BY <3>1, <3>2
    <2> QED BY <1>0, <2>1, <2>2, <2>4, <2>5, <2>6, NewTypes, CallTypes
  <1> QED BY <1>1, <1>2, <1>3

LEMMA CustomTypes ==
  ASSUME TypeInv, NEW c \in Customs,
         \/ CustomNextTurn(c) \/ CustomQueued(c) \/ CustomContext(c)
         \/ CustomTriggers(c) \/ CustomTriggersLater(c)
  PROVE  TypeInv'
  <1> USE SessionFacts
  <1>0. c \in Messages
    BY DEF Messages
  <1>1. CASE CustomNextTurn(c) \/ CustomTriggersLater(c)
    <2>1. /\ New(c) /\ front' = front
          /\ UNCHANGED <<loopVars, runVars, threw>> /\ sc' = sc /\ stopReq' = stopReq
          /\ mirror' = mirror /\ customs' = customs /\ returned' = returned
          /\ waiting' = waiting /\ dropped' = dropped
      BY <1>1 DEF CustomNextTurn, CustomTriggersLater, runVars, callVars
    <2>2. nextTurn' \in Seq(QueuedMsg({"prompt"})) /\ deferred' \in Seq(Messages)
      <3>1. /\ Append(nextTurn, Queued(c, "prompt")) \in Seq(QueuedMsg({"prompt"}))
            /\ <<c>> \in Seq(Messages)
        BY <1>0, QueueKinds, AppendProperties, OneElement
      <3>2. \/ nextTurn' = Append(nextTurn, Queued(c, "prompt")) /\ deferred' = deferred
            \/ nextTurn' = nextTurn /\ deferred' = <<c>>
        BY <1>1 DEF CustomNextTurn, CustomTriggersLater, callVars
      <3> QED BY <3>1, <3>2
    <2>3. LoopInv' /\ Grows /\ pc' = pc /\ aborted' = aborted
      BY <2>1, LoopStays
    <2>4. FrontInv'
      BY <2>1 DEF FrontInv
    <2> QED BY <1>0, <2>1, <2>2, <2>3, <2>4, NewTypes, CallTypes
  <1>2. CASE CustomQueued(c)
    <2>1. /\ New(c) /\ front' = front /\ deferred' = deferred
          /\ UNCHANGED <<runVars, threw>> /\ sc' = sc /\ stopReq' = stopReq
          /\ mirror' = mirror /\ customs' = customs /\ nextTurn' = nextTurn /\ returned' = returned
          /\ waiting' = waiting /\ dropped' = dropped
          /\ Steer(Queued(c, "steer")) \/ FollowUp(Queued(c, "follow"))
      BY <1>2 DEF CustomQueued, runVars, callVars
    <2>2. FrontInv'
      BY <2>1 DEF FrontInv
    <2>3. LoopInv' /\ Grows
      BY <1>0, <2>1, SteerTypes
    <2>4. pc' = pc /\ aborted' = aborted
      BY <2>1 DEF Steer, FollowUp
    <2> QED BY <1>0, <2>1, <2>2, <2>3, <2>4, NewTypes, CallTypes
  <1>3. CASE CustomContext(c)
    <2>1. /\ New(c) /\ front' = front /\ deferred' = deferred
          /\ UNCHANGED <<runVars, threw>> /\ sc' = sc /\ stopReq' = stopReq
          /\ mirror' = mirror /\ nextTurn' = nextTurn /\ returned' = returned
          /\ waiting' = waiting /\ dropped' = dropped
      BY <1>3 DEF CustomContext, runVars, callVars
    <2>2. FrontInv'
      BY <2>1 DEF FrontInv
    <2>3. \/ customs' = Append(customs, c) /\ UNCHANGED loopVars
          \/ Record(<<Custom(c)>>) /\ customs' = customs
      BY <1>3, Zenon DEF CustomContext
    <2>4. Append(customs, c) \in Seq(Customs) /\ <<Custom(c)>> \in Seq(Entry)
      BY Entries, AppendProperties, OneElement
    <2>5. customs' \in Seq(Customs)
      BY <2>3, <2>4
    <2>6. LoopInv' /\ Grows
      BY <2>3, <2>4, LoopStays, RecordTypes
    <2>7. pc' = pc /\ aborted' = aborted
      BY <2>3 DEF Record, loopVars
    <2> QED BY <1>0, <2>1, <2>2, <2>5, <2>6, <2>7, NewTypes, CallTypes
  <1>4. CASE CustomTriggers(c)
    <2>1. /\ New(c) /\ front' = front /\ deferred' = deferred
          /\ UNCHANGED <<runVars, threw>>
          /\ mirror' = mirror /\ customs' = customs /\ nextTurn' = nextTurn /\ returned' = returned
          /\ waiting' = waiting /\ dropped' = dropped
          /\ BeginRun(<<Queued(c, "prompt")>>)
      BY <1>4 DEF CustomTriggers, runVars, callVars
    <2>2. FrontInv'
      BY <2>1 DEF FrontInv
    <2>3. <<Queued(c, "prompt")>> \in Seq(QueuedMsg({"prompt"}))
      BY <1>0, QueueKinds, OneElement
    <2>4. LoopInv' /\ Grows /\ sc' = "run" /\ pc' = "prompting" /\ stopReq' = FALSE
      BY <2>1, <2>3, BeginTypes
    <2>5. sc' \in Control /\ (pc' # "off") = (sc' = "run") /\ stopReq' \in BOOLEAN
      BY <2>4 DEF Control
    <2> QED BY <1>0, <2>1, <2>2, <2>4, <2>5, NewTypes, CallTypes
  <1> QED BY <1>1, <1>2, <1>3, <1>4

LEMMA QueueCallTypes ==
  ASSUME TypeInv, ClearQueue \/ Abort
  PROVE  TypeInv'
  <1> USE SessionFacts
  <1>1. CASE ClearQueue
    <2>1. /\ front' = front /\ deferred' = deferred /\ events' = events /\ sent' = sent
          /\ UNCHANGED <<runVars, threw>> /\ sc' = sc /\ stopReq' = stopReq
          /\ customs' = customs /\ nextTurn' = nextTurn /\ waiting' = waiting /\ dropped' = dropped
          /\ mirror' = [steer |-> <<>>, follow |-> <<>>]
          /\ returned' = returned \cup {mirror.steer[i] : i \in DOMAIN mirror.steer}
                                  \cup {mirror.follow[i] : i \in DOMAIN mirror.follow}
          /\ steer' = <<>> /\ follow' = <<>>
          /\ UNCHANGED <<pc, pend, ctx, aborted, batch, loop, spent, thrown>>
      BY <1>1 DEF ClearQueue, ClearQueues, runVars, callVars
    <2>2. FrontInv'
      BY <2>1 DEF FrontInv
    <2>3. mirror' \in [steer : Seq(Users), follow : Seq(Users)]
      BY <2>1, NoElement
    <2>4. steer' \in Seq(QueuedMsg({"steer"})) /\ follow' \in Seq(QueuedMsg({"follow"}))
          /\ aborted' \in BOOLEAN
      BY <2>1, NoElement
    <2>5. LoopInv' /\ Grows
      BY <2>1, <2>4, QueueTypes
    <2>6. returned' \subseteq Users
      <3>1. /\ \A i \in DOMAIN mirror.steer : mirror.steer[i] \in Users
            /\ \A i \in DOMAIN mirror.follow : mirror.follow[i] \in Users
        BY LenProperties, ElementOfSeq
      <3> QED BY <2>1, <3>1
    <2> QED BY <2>1, <2>2, <2>3, <2>5, <2>6, CallTypes
  <1>2. CASE Abort
    <2>1. /\ front' = front /\ deferred' = deferred /\ sent' = sent /\ Happens(1)
          /\ UNCHANGED <<runVars, threw>> /\ sc' = sc /\ stopReq' = TRUE /\ waiting' = TRUE
          /\ customs' = customs /\ nextTurn' = nextTurn /\ dropped' = dropped
          /\ mirror' = mirror /\ returned' = returned
          /\ steer' = steer /\ follow' = follow /\ aborted' = (pc # "off")
          /\ UNCHANGED <<pc, pend, ctx, batch, loop, spent, thrown>>
      BY <1>2 DEF Abort, AbortRun, runVars, callVars, queueVars
    <2>2. FrontInv'
      BY <2>1 DEF FrontInv
    <2>3. steer' \in Seq(QueuedMsg({"steer"})) /\ follow' \in Seq(QueuedMsg({"follow"}))
          /\ aborted' \in BOOLEAN
      BY <2>1
    <2>4. LoopInv' /\ Grows
      BY <2>1, <2>3, QueueTypes
    <2>5. events' \in 0 .. MaxEvents
      BY <2>1, HappensTypes
    <2> QED BY <2>1, <2>2, <2>4, <2>5, CallTypes
  <1> QED BY <1>1, <1>2

LEMMA LoopEvents ==
  ASSUME TypeInv, RunStep \/ EndTurn \/ BreakRun
  PROVE  events' \in 0 .. MaxEvents
  <1> USE SessionFacts, HappensTypes, LoopAssumption
  <1>1. CASE RunStep
    <2>1. CASE Deliver \/ FirstPoll \/ Prepared \/ CutBatch \/ CollectResults
      BY <2>1 DEF Deliver, FirstPoll, Prepared, CutBatch, CollectResults
    <2>2. CASE OutOfBudget
      BY <2>2, Zenon DEF OutOfBudget
    <2>3. ASSUME NEW n \in 0 .. MaxCalls, NEW s, NEW par, Answer(n, s, par)
          PROVE  events' \in 0 .. MaxEvents
      <3>1. PICK k \in Nat : k = (IF n = 0 /\ s = "length" THEN 1 ELSE n)
        OBVIOUS
      <3>2. Happens(k)
        BY <2>3, <3>1 DEF Answer
      <3> QED BY <3>2
    <2>4. ASSUME NEW s, Refuse(s) PROVE events' \in 0 .. MaxEvents
      <3>1. events' = events \/ Happens(1)
        BY <2>4, Zenon DEF Refuse
      <3> QED BY <3>1
    <2>5. ASSUME NEW how, PrepareCall(how) PROVE events' \in 0 .. MaxEvents
      BY <2>5, Zenon DEF PrepareCall
    <2>6. ASSUME NEW i, NEW how, FinishCall(i, how) PROVE events' \in 0 .. MaxEvents
      BY <2>6, Zenon DEF FinishCall
    <2>7. ASSUME NEW continue, FinishTurn(continue) PROVE events' \in 0 .. MaxEvents
      <3>1. PICK k \in Nat : k = (IF continue THEN 1 ELSE 0)
        OBVIOUS
      <3>2. Happens(k)
        BY <2>7, <3>1 DEF FinishTurn
      <3> QED BY <3>2
    <2> QED BY <1>1, <2>1, <2>2, <2>3, <2>4, <2>5, <2>6, <2>7, Zenon DEF RunStep
  <1>2. CASE EndTurn
    <2>1. ASSUME NEW stop, NEW repeated, TurnEnd(stop, repeated, Flushed) PROVE events' = events
      BY <2>1, Zenon DEF TurnEnd
    <2>2. ASSUME FailedTurnEnd(Flushed) PROVE events' = events
      BY <2>2 DEF FailedTurnEnd
    <2>3. ASSUME NEW s, RunFails(s, Flushed) PROVE Happens(1)
      BY <2>3 DEF RunFails
    <2>4. events' = events \/ Happens(1)
      BY <1>2, <2>1, <2>2, <2>3, Zenon DEF EndTurn
    <2> QED BY <2>4
  <1>3. CASE BreakRun
    BY <1>3 DEF BreakRun, RunBreaks
  <1> QED BY <1>1, <1>2, <1>3

LEMMA RunTypes ==
  ASSUME TypeInv, RunStep \/ EndTurn \/ BreakRun
  PROVE  TypeInv'
  <1> USE SessionFacts
  <1>1. LoopInv' /\ Grows
    BY LoopStepTypes
  <1>2. events' \in 0 .. MaxEvents
    BY LoopEvents
  <1>3. sc = "run"
    BY DEF RunStep, EndTurn, BreakRun
  <1>4. aborted' = aborted /\ pc' # "off" /\ sc' = sc /\ stopReq' = stopReq
    BY <1>3, LoopKeeps
  <1>5. /\ threw' = threw /\ nextTurn' = nextTurn /\ sent' = sent /\ returned' = returned
        /\ omitted' = omitted /\ front' = front /\ waiting' = waiting /\ deferred' = deferred
        /\ dropped' = dropped
    BY DEF RunStep, EndTurn, BreakRun, queueVars, runVars, callVars
  <1>6. midRun' \in BOOLEAN
    <2>1. midRun \in BOOLEAN
      BY DEF TypeInv, SessionTypes
    <2>2. midRun' = midRun \/ \E stop \in BOOLEAN : midRun' = (midRun \/ stop)
      <3>1. CASE RunStep \/ BreakRun
        BY <3>1 DEF RunStep, BreakRun, runVars
      <3>2. CASE EndTurn
        BY <3>2, Zenon DEF EndTurn
      <3> QED BY <3>1, <3>2
    <2> QED BY <2>1, <2>2
  <1>7. customs' \in Seq(Customs)
    <2>1. customs' = customs \/ customs' = <<>>
      BY DEF RunStep, EndTurn, BreakRun, queueVars
    <2> QED BY <2>1, NoElement
  <1>8. /\ mirror' \in [steer : Seq(Users), follow : Seq(Users)]
        /\ last' \in Stops \cup {"none"} /\ tried' \in BOOLEAN /\ retry' \in 0 .. MaxRetries
        /\ last' # "none" => HasAnswer(ctx')
    <2>1. CASE RunStep \/ EndTurn
      <3>1. Heard
        BY <2>1 DEF RunStep, EndTurn
      <3> QED BY <1>1, <3>1, HeardTypes DEF TypeInv
    <2>2. CASE BreakRun
      <3>1. mirror' = mirror /\ last' = last /\ tried' = tried /\ retry' = retry
        BY <2>2 DEF BreakRun, runVars, queueVars
      <3>2. last \in Stops \cup {"none"} /\ tried \in BOOLEAN /\ retry \in 0 .. MaxRetries
            /\ (last # "none" => HasAnswer(ctx))
        BY DEF TypeInv, SessionTypes
      <3>3. HasAnswer(ctx) => HasAnswer(ctx')
        BY <1>1, GrowsKeeps DEF LoopInv
      <3> QED BY <3>1, <3>2, <3>3
    <2> QED BY <2>1, <2>2
  <1>9. omitted' \subseteq DOMAIN ctx'
    <2>1. omitted \subseteq DOMAIN ctx
      BY DEF TypeInv, SessionTypes
    <2>2. DOMAIN ctx \subseteq DOMAIN ctx'
      BY <1>1, GrowsKeeps DEF LoopInv
    <2> QED BY <1>5, <2>1, <2>2
  <1>10. FrontInv'
    BY <1>5 DEF FrontInv
  <1>11. stopReq' \in BOOLEAN /\ threw' \in BOOLEAN
    BY <1>4, <1>5 DEF TypeInv, SessionTypes
  <1>12. SessionTypes'
    BY <1>2, <1>3, <1>4, <1>5, <1>6, <1>7, <1>8, <1>9, <1>10, <1>11 DEF SessionTypes
  <1> QED BY <1>1, <1>12 DEF TypeInv

\* What the session does next, from a state with no run.
LEMMA OnwardTypes ==
  ASSUME TypeInv, sc # "run",
         GoOn \/ GoOnIfQueued \/ Rest \/ \E c \in Control \ {"run"} : Wait(c)
  PROVE  /\ LoopInv' /\ ctx' = ctx /\ threw' \in BOOLEAN
         /\ sc' \in Control /\ (pc' # "off") = (sc' = "run") /\ (aborted' => sc' = "run")
  <1> USE SessionFacts
  <1>1. threw \in BOOLEAN /\ pc = "off" /\ aborted = FALSE
    BY DEF TypeInv, SessionTypes
  <1>2. ASSUME UNCHANGED loopVars, sc' \in Control \ {"run"}, threw' \in {threw, TRUE}
        PROVE  /\ LoopInv' /\ ctx' = ctx /\ threw' \in BOOLEAN
               /\ sc' \in Control /\ (pc' # "off") = (sc' = "run") /\ (aborted' => sc' = "run")
    <2>1. LoopInv' /\ pc' = pc /\ aborted' = aborted
      BY <1>2, LoopStays
    <2>2. ctx' = ctx
      BY <1>2 DEF loopVars
    <2> QED BY <1>1, <1>2, <2>1, <2>2
  <1>3. CASE Rest \/ \E c \in Control \ {"run"} : Wait(c)
    <2>1. UNCHANGED loopVars /\ sc' \in Control \ {"run"} /\ threw' = threw
      BY <1>3 DEF Rest, Wait, Control
    <2> QED BY <1>2, <2>1
  <1>4. CASE GoOn
    <2>1. CASE CanContinue(LastRole)
      <3>1. Continue(LastRole) /\ sc' = "run" /\ threw' = threw /\ ctx' = ctx
        BY <1>4, <2>1, Zenon DEF GoOn
      <3>2. LoopInv'
        <4>1. <<>> \in Seq(Entry) /\ ctx' = ctx \o <<>>
          BY <3>1, NoElement, ConcatEmptySeq DEF LoopInv, LoopTypes
        <4> QED BY <3>1, <4>1, ContinueTypes
      <3>3. pc' = "prompting"
        BY <3>1, Zenon DEF Continue, Start
      <3> QED BY <1>1, <3>1, <3>2, <3>3 DEF Control
    <2>2. CASE ~CanContinue(LastRole)
      <3>1. sc' = "finish" /\ threw' = TRUE /\ UNCHANGED loopVars
        BY <1>4, <2>2, Zenon DEF GoOn
      <3>2. sc' \in Control \ {"run"}
        BY <3>1 DEF Control
      <3> QED BY <1>2, <3>1, <3>2
    <2> QED BY <2>1, <2>2
  <1> QED BY <1>3, <1>4 DEF GoOnIfQueued

\* Post-run handling changes the attempts, what is omitted and what comes next.
LEMMA AfterTypes ==
  ASSUME TypeInv, LoopInv', Grows, threw' \in BOOLEAN, events' \in 0 .. MaxEvents,
         sc' \in Control, (pc' # "off") = (sc' = "run"), aborted' => sc' = "run",
         retry' \in 0 .. MaxRetries, tried' \in BOOLEAN, midRun' \in BOOLEAN,
         last' = last \/ last' = "none",
         omitted' \subseteq DOMAIN ctx, customs' \in Seq(Customs),
         UNCHANGED <<stopReq, mirror, nextTurn, sent, returned, callVars>>
  PROVE  TypeInv'
  <1>1. /\ stopReq' = stopReq /\ mirror' = mirror /\ nextTurn' = nextTurn /\ sent' = sent
        /\ returned' = returned /\ front' = front /\ waiting' = waiting /\ deferred' = deferred
        /\ dropped' = dropped
    BY DEF callVars
  <1>2. DOMAIN ctx \subseteq DOMAIN ctx' /\ (HasAnswer(ctx) => HasAnswer(ctx'))
    BY GrowsKeeps DEF TypeInv, LoopInv
  <1>3. last' \in Stops \cup {"none"} /\ (last' # "none" => HasAnswer(ctx'))
    BY <1>2 DEF TypeInv, SessionTypes
  <1>4. omitted' \subseteq DOMAIN ctx'
    BY <1>2
  <1>5. FrontInv'
    BY <1>1 DEF TypeInv, SessionTypes, FrontInv
  <1>6. SessionTypes'
    BY <1>1, <1>3, <1>4, <1>5 DEF TypeInv, SessionTypes
  <1> QED BY <1>6 DEF TypeInv

LEMMA RecoveryFacts ==
  ASSUME TypeInv
  PROVE  /\ retry \in 0 .. MaxRetries /\ tried \in BOOLEAN /\ midRun \in BOOLEAN
         /\ omitted \subseteq DOMAIN ctx /\ threw \in BOOLEAN
         /\ last # "none" => LastAsst \in DOMAIN ctx /\ LastAsst \in 1 .. Len(ctx)
         /\ DOMAIN ctx = 1 .. Len(ctx) /\ Len(ctx) \in Nat
  <1>1. ctx \in Seq(Entry) /\ (last # "none" => HasAnswer(ctx))
    BY DEF TypeInv, LoopInv, LoopTypes, SessionTypes
  <1>2. DOMAIN ctx = 1 .. Len(ctx) /\ Len(ctx) \in Nat
    BY <1>1, LenProperties
  <1> QED BY <1>1, <1>2, LastAsstIs DEF TypeInv, SessionTypes

LEMMA PostTypes ==
  ASSUME TypeInv,
         \/ PostMidRun \/ PostRetry \/ PostCompact
         \/ \E slept \in BOOLEAN : BackoffEnds(slept)
         \/ \E ok \in BOOLEAN : CompactionEnds(ok)
  PROVE  TypeInv'
  <1> USE SessionFacts, RecoveryFacts
  <1> DEFINE Onward == GoOn \/ GoOnIfQueued \/ Rest \/ \E c \in Control \ {"run"} : Wait(c)
  <1>1. ASSUME sc # "run", Onward, events' = events,
               retry' \in 0 .. MaxRetries, tried' \in BOOLEAN, midRun' \in BOOLEAN,
               last' = last \/ last' = "none", omitted' \subseteq DOMAIN ctx,
               UNCHANGED <<stopReq, queueVars, callVars>>
        PROVE  TypeInv'
    <2>1. /\ LoopInv' /\ ctx' = ctx /\ threw' \in BOOLEAN
          /\ sc' \in Control /\ (pc' # "off") = (sc' = "run") /\ (aborted' => sc' = "run")
      BY <1>1, OnwardTypes
    <2>2. Grows
      BY <2>1, GrowsNot DEF LoopInv
    <2>3. customs' \in Seq(Customs) /\ UNCHANGED <<stopReq, mirror, nextTurn, sent, returned, callVars>>
      BY <1>1 DEF queueVars
    <2> QED BY <1>1, <2>1, <2>2, <2>3, AfterTypes
  <1> HIDE DEF Onward
  <1>2. \A c \in {"compactMid", "backoff", "compactRetry", "compact", "finish"} : Wait(c) => Onward
    BY DEF Onward, Control
  <1>3. (GoOn \/ GoOnIfQueued \/ Rest) => Onward
    BY DEF Onward
  <1>4. CASE PostMidRun
    <2>1. /\ sc = "post" /\ midRun' = FALSE /\ Wait("compactMid")
          /\ events' = events /\ retry' = retry /\ tried' = tried /\ last' = last /\ omitted' = omitted
          /\ UNCHANGED <<stopReq, queueVars, callVars>>
      BY <1>4 DEF PostMidRun
    <2>2. Onward
      BY <1>2, <2>1
    <2> QED BY <1>1, <2>1, <2>2
  <1>5. CASE PostRetry
    <2>1. /\ sc = "post" /\ last = "flaky" /\ retry < MaxRetries /\ last' = "none"
          /\ retry' = retry + 1 /\ omitted' = omitted \cup {LastAsst} /\ Wait("backoff")
          /\ events' = events /\ tried' = tried /\ midRun' = midRun
          /\ UNCHANGED <<stopReq, queueVars, callVars>>
      BY <1>5 DEF PostRetry
    <2>2. Onward
      BY <1>2, <2>1
    <2>3. retry' \in 0 .. MaxRetries
      BY <2>1, SessionAssumption
    <2>4. omitted' \subseteq DOMAIN ctx
      BY <2>1
    <2> QED BY <1>1, <2>1, <2>2, <2>3, <2>4
  <1>6. CASE PostCompact
    <2>1. /\ sc = "post" /\ last' = "none" /\ (retry' = IF last \in Failed THEN 0 ELSE retry)
          /\ events' = events /\ midRun' = midRun /\ UNCHANGED <<stopReq, queueVars, callVars>>
      BY <1>6 DEF PostCompact
    <2>2. retry' \in 0 .. MaxRetries
      BY <2>1, SessionAssumption
    <2>3. \/ /\ Recoverable /\ tried' = TRUE /\ Wait("compactRetry")
             /\ omitted' = omitted \cup {i \in LastAsst .. Len(ctx) : ctx[i].kind \in {"asst", "result"}}
          \/ tried' = tried /\ omitted' = omitted /\ (Wait("compact") \/ GoOnIfQueued)
      BY <1>6, Zenon DEF PostCompact
    <2>4. Onward
      BY <1>2, <1>3, <2>3
    <2>5. tried' \in BOOLEAN
      BY <2>3
    <2>6. omitted' \subseteq DOMAIN ctx
      <3>1. ASSUME Recoverable PROVE LastAsst .. Len(ctx) \subseteq DOMAIN ctx
        <4>1. LastAsst \in 1 .. Len(ctx)
          BY <3>1 DEF Recoverable
        <4> QED BY <4>1
      <3> QED BY <2>3, <3>1
    <2> QED BY <1>1, <2>1, <2>2, <2>4, <2>5, <2>6
  <1>7. ASSUME NEW slept \in BOOLEAN, BackoffEnds(slept) PROVE TypeInv'
    <2>1. /\ sc = "backoff" /\ events' = events /\ tried' = tried /\ midRun' = midRun /\ last' = last
          /\ omitted' = omitted /\ UNCHANGED <<stopReq, queueVars, callVars>>
      BY <1>7 DEF BackoffEnds
    <2>2. (GoOn \/ Wait("finish") \/ GoOnIfQueued) /\ (retry' = retry \/ retry' = 0)
      BY <1>7, Zenon DEF BackoffEnds
    <2>3. Onward /\ retry' \in 0 .. MaxRetries
      BY <1>2, <1>3, <2>2, SessionAssumption
    <2> QED BY <1>1, <2>1, <2>3
  <1>8. ASSUME NEW ok \in BOOLEAN, CompactionEnds(ok) PROVE TypeInv'
    <2>1. /\ sc # "run" /\ events' = events /\ UNCHANGED <<stopReq, queueVars, runVars, callVars>>
      BY <1>8 DEF CompactionEnds
    <2>2. GoOn \/ Wait("finish") \/ GoOnIfQueued \/ Rest
      BY <1>8, Zenon DEF CompactionEnds
    <2>3. Onward
      BY <1>2, <1>3, <2>2
    <2>4. retry' = retry /\ tried' = tried /\ midRun' = midRun /\ last' = last /\ omitted' = omitted
      BY <2>1 DEF runVars
    <2> QED BY <1>1, <2>1, <2>3, <2>4
  <1> QED BY <1>4, <1>5, <1>6, <1>7, <1>8

LEMMA SettleTypes ==
  ASSUME TypeInv,
         \/ StartRun \/ PreflightRefused \/ RunEnds \/ Settle \/ SettledEnds \/ DeferredStarts
         \/ PromptReturns
         \/ \E handlers, asked \in BOOLEAN : BeforeSettle(handlers, asked)
  PROVE  TypeInv'
  <1> USE SessionFacts, RecoveryFacts
  <1>1. CASE StartRun
    <2> DEFINE prompts == <<Queued(front.m, "prompt")>> \o nextTurn
    <2>1. /\ front.at = "preflight" /\ BeginRun(prompts)
          /\ front' = [at |-> "run", m |-> None] /\ nextTurn' = <<>>
          /\ events' = events /\ mirror' = mirror /\ customs' = customs /\ sent' = sent
          /\ returned' = returned /\ waiting' = waiting /\ deferred' = deferred /\ dropped' = dropped
          /\ UNCHANGED <<runVars, threw>>
      BY <1>1 DEF StartRun, runVars
    <2>2. prompts \in Seq(QueuedMsg({"prompt"}))
      <3>1. front.m \in Messages
        BY <2>1 DEF FrontInv, Messages
      <3>2. <<Queued(front.m, "prompt")>> \in Seq(QueuedMsg({"prompt"}))
        BY <3>1, QueueKinds, OneElement
      <3> QED BY <3>2, ConcatProperties
    <2> HIDE DEF prompts
    <2>3. LoopInv' /\ Grows /\ sc' = "run" /\ pc' = "prompting" /\ stopReq' = FALSE
      BY <2>1, <2>2, BeginTypes
    <2>4. /\ front' \in [at : {"none", "preflight", "run", "after"}, m : Users \cup {None}] /\ FrontInv'
          /\ nextTurn' \in Seq(QueuedMsg({"prompt"}))
          /\ sc' \in Control /\ (pc' # "off") = (sc' = "run") /\ stopReq' \in BOOLEAN
      BY <2>1, <2>3, NoElement DEF FrontInv, Control
    <2> QED BY <2>1, <2>3, <2>4, CallTypes
  <1>2. CASE PreflightRefused \/ SettledEnds \/ PromptReturns
    <2>1. /\ events' = events /\ mirror' = mirror /\ customs' = customs /\ sent' = sent
          /\ nextTurn' = nextTurn /\ deferred' = deferred /\ dropped' = dropped
          /\ stopReq' = stopReq /\ UNCHANGED <<loopVars, runVars, threw>>
      BY <1>2 DEF PreflightRefused, SettledEnds, PromptReturns, runVars, queueVars
    <2>2. LoopInv' /\ Grows /\ pc' = pc /\ aborted' = aborted
      BY <2>1, LoopStays
    <2>3. sc' \in Control /\ (pc' # "off") = (sc' = "run") /\ (aborted' => sc' = "run")
      BY <1>2, <2>2 DEF PreflightRefused, SettledEnds, PromptReturns, Control
    <2>4. waiting' \in BOOLEAN /\ returned' \subseteq Users
      BY <1>2 DEF PreflightRefused, SettledEnds, PromptReturns, queueVars, FrontInv
    <2>5. front' \in [at : {"none", "preflight", "run", "after"}, m : Users \cup {None}] /\ FrontInv'
      <3>1. front' = NoFront \/ (front' = [front EXCEPT !.at = "after"] /\ front.at = "run") \/ front' = front
        BY <1>2 DEF PreflightRefused, SettledEnds, PromptReturns
      <3> QED BY <3>1 DEF NoFront, FrontInv
    <2> QED BY <2>1, <2>2, <2>3, <2>4, <2>5, CallTypes
  <1>3. CASE RunEnds
    <2>1. /\ EndRun /\ sc' \in {"finish", "post"} /\ events' = events /\ stopReq' = stopReq
          /\ UNCHANGED <<threw, queueVars, runVars, callVars>>
      BY <1>3 DEF RunEnds
    <2>2. LoopInv' /\ pc' = "off" /\ aborted' = FALSE /\ ctx' = ctx
      BY <2>1, EndRunTypes DEF EndRun
    <2>3. Grows
      BY <2>2, GrowsNot DEF LoopInv
    <2>4. /\ retry' = retry /\ tried' = tried /\ midRun' = midRun /\ last' = last /\ omitted' = omitted
          /\ customs' = customs /\ threw' = threw
          /\ UNCHANGED <<stopReq, mirror, nextTurn, sent, returned, callVars>>
      BY <2>1 DEF runVars, queueVars
    <2>5. sc' \in Control /\ (pc' # "off") = (sc' = "run")
      BY <2>1, <2>2 DEF Control
    <2> QED BY <2>1, <2>2, <2>3, <2>4, <2>5, AfterTypes
  <1>4. CASE Settle
    <2>1. /\ sc = "finish" /\ retry' \in {0, retry} /\ Record(Flushed) /\ customs' = <<>>
          /\ sc' = "settling" /\ events' = events /\ stopReq' = stopReq /\ threw' = threw
          /\ tried' = tried /\ midRun' = midRun /\ last' = last /\ omitted' = omitted
          /\ UNCHANGED <<stopReq, mirror, nextTurn, sent, returned, callVars>>
      BY <1>4 DEF Settle
    <2>2. LoopInv' /\ Grows
      BY <2>1, FlushedTypes, RecordTypes
    <2>3. pc' = pc /\ aborted' = aborted
      BY <2>1 DEF Record
    <2>4. sc' \in Control /\ (pc' # "off") = (sc' = "run") /\ (aborted' => sc' = "run")
      BY <2>1, <2>3 DEF Control
    <2>5. retry' \in 0 .. MaxRetries /\ customs' \in Seq(Customs)
      BY <2>1, NoElement, SessionAssumption
    <2> QED BY <2>1, <2>2, <2>4, <2>5, AfterTypes
  <1>5. ASSUME NEW handlers \in BOOLEAN, NEW asked \in BOOLEAN, BeforeSettle(handlers, asked)
        PROVE  TypeInv'
    <2> DEFINE flush == IF handlers THEN Flushed ELSE <<>>
               role  == IF flush # <<>> THEN "custom" ELSE LastRole
    <2>1. /\ sc = "before" /\ Happens(IF asked THEN 1 ELSE 0)
          /\ customs' = IF handlers THEN <<>> ELSE customs
          /\ UNCHANGED <<stopReq, mirror, nextTurn, sent, returned, runVars, callVars>>
      BY <1>5 DEF BeforeSettle
    <2>2. \/ Continue(role) /\ ctx' = ctx \o flush /\ sc' = "run" /\ threw' = threw
          \/ Record(flush) /\ sc' = "finish" /\ threw' \in {threw, TRUE}
      <3> DEFINE goOn == ~stopReq /\ (HasQueued \/ (asked /\ role \notin {"asst", "none"}))
      <3>1. \/ Continue(role) /\ ctx' = ctx \o flush /\ sc' = "run" /\ threw' = threw
            \/ Record(flush) /\ sc' = "finish" /\ threw' = (threw \/ (goOn /\ ~handlers))
        BY <1>5, Zenon DEF BeforeSettle
      <3>2. threw \in BOOLEAN
        OBVIOUS
      <3> HIDE DEF goOn, role, flush
      <3> QED BY <3>1, <3>2
    <2>3. flush \in Seq(Entry)
      BY FlushedTypes, NoElement
    <2>4. events' \in 0 .. MaxEvents
      <3>1. PICK k \in Nat : k = (IF asked THEN 1 ELSE 0)
        OBVIOUS
      <3> QED BY <2>1, <3>1, HappensTypes
    <2>5. customs' \in Seq(Customs)
      BY <2>1, NoElement
    <2>6. /\ retry' = retry /\ tried' = tried /\ midRun' = midRun /\ last' = last /\ omitted' = omitted
      BY <2>1 DEF runVars
    <2> HIDE DEF flush, role
    <2>7. CASE Record(flush) /\ sc' = "finish" /\ threw' \in {threw, TRUE}
      <3>1. LoopInv' /\ Grows
        BY <2>3, <2>7, RecordTypes
      <3>2. pc' = pc /\ aborted' = aborted
        BY <2>7 DEF Record
      <3>3. sc' \in Control /\ (pc' # "off") = (sc' = "run") /\ (aborted' => sc' = "run")
            /\ threw' \in BOOLEAN
        BY <2>1, <2>7, <3>2 DEF Control
      <3> QED BY <2>1, <2>4, <2>5, <2>6, <3>1, <3>3, AfterTypes
    <2>8. CASE Continue(role) /\ ctx' = ctx \o flush /\ sc' = "run" /\ threw' = threw
      <3>1. Grows
        BY <2>3, <2>8 DEF Grows
      <3>2. /\ pc' = "prompting" /\ batch' = batch /\ aborted' = FALSE
        BY <2>8, Zenon DEF Continue, Start
      <3>3. LoopInv'
        BY <2>3, <2>8, ContinueTypes
      <3>4. sc' \in Control /\ (pc' # "off") = (sc' = "run") /\ threw' \in BOOLEAN
        BY <2>8, <3>2 DEF Control
      <3> QED BY <2>1, <2>4, <2>5, <2>6, <3>1, <3>2, <3>3, <3>4, AfterTypes
    <2> QED BY <2>2, <2>7, <2>8
  <1>6. CASE DeferredStarts
    <2> DEFINE m == Head(deferred)
    <2>1. /\ sc = "settling" /\ deferred # <<>> /\ deferred' = <<>>
          /\ events' = events /\ UNCHANGED <<threw, queueVars, runVars>>
      BY <1>6 DEF DeferredStarts
    <2>2. m \in Messages
      BY <2>1, HeadTailProperties
    <2>3. /\ mirror' = mirror /\ customs' = customs /\ nextTurn' = nextTurn /\ sent' = sent
          /\ returned' = returned /\ deferred' \in Seq(Messages)
      BY <2>1, NoElement DEF queueVars
    <2>4. CASE m \in Customs
      <3>1. BeginRun(<<Queued(m, "prompt")>>) /\ front' = front /\ dropped' = dropped /\ waiting' = waiting
        BY <1>6, <2>4, Zenon DEF DeferredStarts
      <3>2. <<Queued(m, "prompt")>> \in Seq(QueuedMsg({"prompt"}))
        BY <2>2, QueueKinds, OneElement
      <3>3. LoopInv' /\ Grows /\ sc' = "run" /\ pc' = "prompting" /\ stopReq' = FALSE
        BY <3>1, <3>2, BeginTypes
      <3>4. sc' \in Control /\ (pc' # "off") = (sc' = "run") /\ stopReq' \in BOOLEAN /\ FrontInv'
        BY <3>1, <3>3 DEF Control, FrontInv
      <3> QED BY <2>1, <2>3, <3>1, <3>3, <3>4, CallTypes
    <2>5. CASE m \notin Customs
      <3>1. /\ sc' = "idle" /\ UNCHANGED <<loopVars, stopReq>>
            /\ \/ front' = [at |-> "preflight", m |-> m] /\ dropped' = dropped /\ waiting' = waiting
               \/ front' = NoFront /\ dropped' = dropped \cup {m} /\ waiting' = FALSE
        BY <1>6, <2>5, Zenon DEF DeferredStarts
      <3>2. m \in Users
        BY <2>2, <2>5 DEF Messages
      <3> HIDE DEF m
      <3>3. front' \in [at : {"none", "preflight", "run", "after"}, m : Users \cup {None}] /\ FrontInv'
            /\ dropped' \subseteq Users /\ waiting' \in BOOLEAN /\ stopReq' \in BOOLEAN
        <4>1. \/ front'.at = "preflight" /\ front'.m = m /\ front' = [at |-> "preflight", m |-> m]
              \/ front'.at = "none" /\ front'.m = None /\ front' = [at |-> "none", m |-> None]
          BY <3>1 DEF NoFront
        <4>2. front' \in [at : {"none", "preflight", "run", "after"}, m : Users \cup {None}]
          BY <3>2, <4>1
        <4>3. FrontInv'
          BY <3>2, <4>1 DEF FrontInv
        <4>4. dropped' \subseteq Users /\ waiting' \in BOOLEAN /\ stopReq' \in BOOLEAN
          BY <3>1, <3>2
        <4> QED BY <4>2, <4>3, <4>4
      <3>4. LoopInv' /\ Grows /\ pc' = pc /\ aborted' = aborted
        BY <3>1, LoopStays
      <3>5. sc' \in Control /\ (pc' # "off") = (sc' = "run") /\ (aborted' => sc' = "run")
        BY <2>1, <3>1, <3>4 DEF Control
      <3> QED BY <2>1, <2>3, <3>3, <3>4, <3>5, CallTypes
    <2> QED BY <2>4, <2>5
  <1> QED BY <1>1, <1>2, <1>3, <1>4, <1>5, <1>6

LEMMA TypeNext == TypeInv /\ [Next]_vars => TypeInv'
  <1> SUFFICES ASSUME TypeInv, [Next]_vars PROVE TypeInv'
    OBVIOUS
  <1>1. CASE UNCHANGED vars
    <2>1. UNCHANGED <<loopVars, runVars, threw>> /\ events' = events /\ sc' = sc /\ front' = front
          /\ mirror' = mirror /\ customs' = customs /\ nextTurn' = nextTurn /\ deferred' = deferred
          /\ sent' = sent /\ returned' = returned /\ dropped' = dropped /\ stopReq' = stopReq
          /\ waiting' = waiting
      BY <1>1 DEF vars, queueVars, callVars
    <2>2. FrontInv'
      BY <2>1, SessionFacts DEF FrontInv
    <2> QED BY <2>1, <2>2, SessionFacts, LoopStays, CallTypes
  <1>2. CASE Outside
    BY <1>2, PromptTypes, CustomTypes, QueueCallTypes DEF Outside
  <1>3. CASE Program
    BY <1>3, RunTypes, PostTypes, SettleTypes DEF Program
  <1> QED BY <1>1, <1>2, <1>3 DEF Next

\* Every queue, list, counter and flag of a session and its agent keeps its
\* type, and the loop runs exactly while the session says so (_isAgentRunActive
\* against the agent's active run).
THEOREM SessionTypesHold == Spec => []TypeOK
  BY TypeInit, TypeNext, TypeInvTypes, PTL DEF Spec

-----------------------------------------------------------------------------
(* The messages of a run.  Pending messages are there only before a request *)
(* and prompts only before the first; the signal is aborted only by abort().*)

PendInv ==
  /\ pc \notin {"prompting", "injecting", "between"} => pend = <<>>
  /\ pc # "prompting" => \A k \in DOMAIN pend : pend[k].via # "prompt"
  /\ aborted => stopReq

\* The loop's steps keep them.
LEMMA PendRun ==
  ASSUME TypeInv, PendInv, sc = "run", RunStep \/ EndTurn \/ BreakRun
  PROVE  PendInv'
  <1>0. aborted' = aborted /\ stopReq' = stopReq
    BY LoopKeeps
  <1> DEFINE Quiet1 == pend' = pend /\ (pend = <<>> \/ pc' = pc)
             Polls  == pend' = Drained(steer) /\ pc' \in {"injecting", "between"}
             Polls2 == pend' = Drained(follow) /\ pc' \in {"injecting", "between"}
             Takes  == pend # <<>> /\ pend' = Tail(pend) /\ pc' = pc
  <1>1. ASSUME pend' = <<>> \/ Quiet1 \/ Polls \/ Polls2 \/ Takes PROVE PendInv'
    <2>1. CASE pend' = <<>>
      BY <1>0, <2>1 DEF PendInv
    <2>2. CASE Quiet1
      BY <1>0, <2>2 DEF PendInv
    <2>3. CASE Polls \/ Polls2
      <3>1. steer \in Seq(QueuedMsg({"steer"})) /\ follow \in Seq(QueuedMsg({"follow"}))
        BY SessionFacts
      <3>2. \/ pend' \in Seq(QueuedMsg({"steer"}))
            \/ pend' \in Seq(QueuedMsg({"follow"}))
        BY <2>3, <3>1, DrainTypes
      <3>3. \A k \in DOMAIN pend' : pend'[k] \in QueuedMsg({"steer"}) \cup QueuedMsg({"follow"})
        BY <3>2, LenProperties, ElementOfSeq
      <3>4. \A k \in DOMAIN pend' : pend'[k].via # "prompt"
        BY <3>3 DEF QueuedMsg
      <3> QED BY <1>0, <2>3, <3>4 DEF PendInv
    <2>4. CASE Takes
      <3>1. pend \in Seq(QueuedMsg({"prompt", "steer", "follow"}))
        BY DEF TypeInv, LoopInv, LoopTypes
      <3>2. \A k \in DOMAIN Tail(pend) : k + 1 \in DOMAIN pend /\ Tail(pend)[k] = pend[k + 1]
        BY <2>4, <3>1, HeadTailProperties, LenProperties
      <3> QED BY <1>0, <2>4, <3>2 DEF PendInv
    <2> QED BY <1>1, <2>1, <2>2, <2>3, <2>4
  <1>2. CASE RunStep
    <2>1. CASE Deliver
      BY <1>1, <2>1 DEF Deliver
    <2>2. CASE FirstPoll \/ Prepared
      <3>1. pc' = "injecting" /\ (pend' = Drained(steer) \/ pend' = pend)
            /\ (pend' = pend => pend = <<>> \/ Prepared)
        BY <2>2 DEF FirstPoll, Prepared
      <3>2. CASE pend' = pend /\ Prepared
        BY <1>0, <3>1, <3>2 DEF PendInv, Prepared
      <3> QED BY <1>1, <3>1, <3>2
    <2>3. CASE OutOfBudget
      BY <1>1, <2>3 DEF OutOfBudget
    <2>4. ASSUME NEW n, NEW s, NEW par, Answer(n, s, par) PROVE PendInv'
      <3>1. pend = <<>> /\ pend' = pend
        BY <2>4, Zenon DEF Answer, Requesting
      <3> QED BY <1>1, <3>1
    <2>5. ASSUME NEW s, Refuse(s) PROVE PendInv'
      <3>1. pend = <<>> /\ pend' = pend
        BY <2>5, Zenon DEF Refuse, Requesting
      <3> QED BY <1>1, <3>1
    <2>6. ASSUME NEW how, PrepareCall(how) PROVE PendInv'
      <3>1. pc = "tools" /\ pend' = pend
        BY <2>6, Zenon DEF PrepareCall
      <3> QED BY <1>1, <3>1 DEF PendInv
    <2>7. CASE CutBatch
      <3>1. pc = "tools" /\ pend' = pend
        BY <2>7, Zenon DEF CutBatch
      <3> QED BY <1>1, <3>1 DEF PendInv
    <2>8. ASSUME NEW i, NEW how, FinishCall(i, how) PROVE PendInv'
      <3>1. pc = "executing" /\ pend' = pend
        BY <2>8, Zenon DEF FinishCall
      <3> QED BY <1>1, <3>1 DEF PendInv
    <2>9. CASE CollectResults
      <3>1. pc = "executing" /\ pend' = pend
        BY <2>9, Zenon DEF CollectResults
      <3> QED BY <1>1, <3>1 DEF PendInv
    <2>10. ASSUME NEW continue, FinishTurn(continue) PROVE PendInv'
      <3>1. pc = "turnEnd" /\ pend' = pend
        BY <2>10, Zenon DEF FinishTurn
      <3> QED BY <1>1, <3>1 DEF PendInv
    <2> QED
      BY <1>2, <2>1, <2>2, <2>3, <2>4, <2>5, <2>6, <2>7, <2>8, <2>9, <2>10, Zenon DEF RunStep
  <1>3. CASE EndTurn
    <2>1. ASSUME NEW stop, NEW repeated, TurnEnd(stop, repeated, Flushed) PROVE PendInv'
      <3>1. pc = "polling" /\ pend = <<>>
        BY <2>1 DEF TurnEnd, PendInv
      <3>2. \/ pend' = pend
            \/ Drained(steer) # <<>> /\ pend' = Drained(steer) /\ pc' = "between"
            \/ pend' = Drained(steer) /\ Drained(steer) = <<>>
            \/ pend' = Drained(steer) /\ MoreTools /\ pc' = "between"
            \/ pend' = Drained(follow) /\ (follow # <<>> => pc' = "between")
        BY <2>1, Zenon DEF TurnEnd
      <3>3. follow = <<>> => Drained(follow) = <<>>
        BY DEF Drained
      <3> QED BY <1>1, <3>1, <3>2, <3>3
    <2>2. ASSUME FailedTurnEnd(Flushed) PROVE PendInv'
      <3>1. pc = "failedTurn" /\ pend' = pend
        BY <2>2, Zenon DEF FailedTurnEnd
      <3> QED BY <1>1, <3>1 DEF PendInv
    <2>3. ASSUME NEW s, RunFails(s, Flushed) PROVE PendInv'
      BY <1>1, <2>3 DEF RunFails
    <2> QED BY <1>3, <2>1, <2>2, <2>3, Zenon DEF EndTurn
  <1>4. CASE BreakRun
    BY <1>1, <1>4 DEF BreakRun, RunBreaks
  <1> QED BY <1>2, <1>3, <1>4

\* The steps outside the loop: nothing moves but custom messages recorded
\* between two runs, a run begins with prompts, it goes on, or it is over.
Notes == [kind : {"custom"}, m : Customs]
Noted == \E s \in Seq(Notes) : ctx' = ctx \o s

Stays ==
  /\ UNCHANGED <<pc, pend, batch, loop, spent, thrown>>
  /\ Noted /\ (pc # "off" => ctx' = ctx)
  /\ (aborted' = aborted /\ stopReq' = stopReq) \/ stopReq' = TRUE
Begins == \E prompts \in Seq(QueuedMsg({"prompt"})) :
  prompts # <<>> /\ StartPrompt(prompts) /\ stopReq' = FALSE
Goes == \E role : CanContinue(role) /\ Continue(role) /\ Noted /\ stopReq' = stopReq
Ends == EndRun /\ stopReq' = stopReq

LoopActs == RunStep \/ EndTurn \/ BreakRun

LEMMA NotedNot == ASSUME TypeInv, ctx' = ctx PROVE Noted
  <1>1. ctx \in Seq(Entry)
    BY DEF TypeInv, LoopInv, LoopTypes
  <1>2. <<>> \in Seq(Notes) /\ ctx \o <<>> = ctx
    BY <1>1, NoElement, ConcatEmptySeq
  <1> QED BY <1>2 DEF Noted

LEMMA FlushedNotes ==
  ASSUME TypeInv
  PROVE  Flushed \in Seq(Notes) /\ (\A c \in Customs : <<Custom(c)>> \in Seq(Notes))
         /\ <<>> \in Seq(Notes) /\ Seq(Notes) \subseteq Seq(Entry)
  <1>1. customs \in Seq(Customs)
    BY SessionFacts
  <1>2. \A c \in Customs : Custom(c) \in Notes
    BY DEF Custom, Notes
  <1>3. DOMAIN customs = 1 .. Len(customs) /\ Len(customs) \in Nat
        /\ \A i \in 1 .. Len(customs) : Custom(customs[i]) \in Notes
    BY <1>1, <1>2, LenProperties, ElementOfSeq
  <1>4. Flushed \in Seq(Notes)
    BY <1>3 DEF Flushed
  <1>5. \A c \in Customs : <<Custom(c)>> \in Seq(Notes)
    BY <1>2, OneElement
  <1>6. Notes \subseteq Entry
    BY DEF Notes, Entry
  <1>7. Seq(Notes) \subseteq Seq(Entry)
    BY <1>6, SeqMonotonic
  <1> QED BY <1>4, <1>5, <1>7, NoElement

LEMMA StillStays ==
  ASSUME TypeInv, UNCHANGED loopVars, stopReq' = stopReq
  PROVE  Stays
  <1>1. ctx' = ctx /\ UNCHANGED <<pc, pend, batch, loop, spent, thrown>> /\ aborted' = aborted
    BY DEF loopVars
  <1> QED BY <1>1, NotedNot DEF Stays

LEMMA RecordStays ==
  ASSUME TypeInv, NEW s \in Seq(Notes), Record(s), pc = "off", stopReq' = stopReq
  PROVE  Stays
  <1>1. ctx' = ctx \o s /\ UNCHANGED <<pc, pend, batch, loop, spent, thrown>> /\ aborted' = aborted
    BY DEF Record
  <1>2. Noted
    BY <1>1 DEF Noted
  <1> QED BY <1>1, <1>2 DEF Stays

LEMMA GoOnGoes ==
  ASSUME TypeInv, stopReq' = stopReq,
         GoOn \/ GoOnIfQueued \/ Rest \/ \E c \in Control : Wait(c)
  PROVE  Stays \/ Goes
  <1>1. CASE Rest \/ \E c \in Control : Wait(c)
    <2>1. UNCHANGED loopVars
      BY <1>1 DEF Rest, Wait
    <2> QED BY <2>1, StillStays
  <1>2. CASE GoOn
    <2>1. CASE CanContinue(LastRole)
      <3>1. Continue(LastRole) /\ ctx' = ctx
        BY <1>2, <2>1, Zenon DEF GoOn
      <3> QED BY <2>1, <3>1, NotedNot DEF Goes
    <2>2. CASE ~CanContinue(LastRole)
      <3>1. UNCHANGED loopVars
        BY <1>2, <2>2, Zenon DEF GoOn
      <3> QED BY <3>1, StillStays
    <2> QED BY <2>1, <2>2
  <1> QED BY <1>1, <1>2 DEF GoOnIfQueued

LEMMA BeginBegins ==
  ASSUME NEW m \in Messages, NEW rest \in Seq(QueuedMsg({"prompt"})),
         BeginRun(<<Queued(m, "prompt")>> \o rest)
  PROVE  Begins
  <1>1. <<Queued(m, "prompt")>> \in Seq(QueuedMsg({"prompt"})) /\ Len(<<Queued(m, "prompt")>>) = 1
    BY QueueKinds, OneElement
  <1>2. /\ <<Queued(m, "prompt")>> \o rest \in Seq(QueuedMsg({"prompt"}))
        /\ Len(<<Queued(m, "prompt")>> \o rest) = 1 + Len(rest) /\ Len(rest) \in Nat
    BY <1>1, ConcatProperties, LenProperties
  <1>3. <<Queued(m, "prompt")>> \o rest # <<>>
    BY <1>2, NoElement
  <1> QED BY <1>2, <1>3 DEF BeginRun, Begins

LEMMA BeginOne ==
  ASSUME NEW m \in Messages, BeginRun(<<Queued(m, "prompt")>>)
  PROVE  Begins
  <1>1. <<Queued(m, "prompt")>> \in Seq(QueuedMsg({"prompt"})) /\ <<>> \in Seq(QueuedMsg({"prompt"}))
    BY QueueKinds, OneElement, NoElement
  <1>2. <<Queued(m, "prompt")>> \o <<>> = <<Queued(m, "prompt")>>
    BY <1>1, ConcatEmptySeq
  <1> QED BY <1>1, <1>2, BeginBegins

LEMMA OutsideSteps ==
  ASSUME TypeInv, Outside \/ UNCHANGED vars
  PROVE  Stays \/ Begins
  <1>1. CASE UNCHANGED vars
    <2>1. UNCHANGED loopVars /\ stopReq' = stopReq
      BY <1>1 DEF vars
    <2> QED BY <2>1, StillStays
  <1>2. ASSUME NEW u \in Users, Prompt(u) \/ PromptWhileSettling(u) PROVE Stays
    <2>1. UNCHANGED loopVars /\ stopReq' = stopReq
      BY <1>2 DEF Prompt, PromptWhileSettling
    <2> QED BY <2>1, StillStays
  <1>3. ASSUME NEW x, Steer(x) \/ FollowUp(x), stopReq' = stopReq PROVE Stays
    <2>1. ctx' = ctx /\ UNCHANGED <<pc, pend, batch, loop, spent, thrown>> /\ aborted' = aborted
      BY <1>3 DEF Steer, FollowUp
    <2> QED BY <1>3, <2>1, NotedNot DEF Stays
  <1>4. ASSUME NEW u \in Users, QueueSteer(u) \/ QueueFollowUp(u) PROVE Stays
    BY <1>3, <1>4 DEF QueueSteer, QueueFollowUp
  <1>5. ASSUME NEW c \in Customs, CustomNextTurn(c) \/ CustomTriggersLater(c) PROVE Stays
    <2>1. UNCHANGED loopVars /\ stopReq' = stopReq
      BY <1>5 DEF CustomNextTurn, CustomTriggersLater
    <2> QED BY <2>1, StillStays
  <1>6. ASSUME NEW c \in Customs, CustomQueued(c) PROVE Stays
    BY <1>3, <1>6 DEF CustomQueued
  <1>7. ASSUME NEW c \in Customs, CustomContext(c) PROVE Stays
    <2>1. stopReq' = stopReq
      BY <1>7 DEF CustomContext
    <2>2. UNCHANGED loopVars \/ (Record(<<Custom(c)>>) /\ ~Streaming)
      BY <1>7, Zenon DEF CustomContext
    <2>3. ~Streaming => pc = "off"
      BY SessionFacts DEF Streaming
    <2> QED BY <2>1, <2>2, <2>3, StillStays, RecordStays, FlushedNotes
  <1>8. ASSUME NEW c \in Customs, CustomTriggers(c) PROVE Begins
    <2>1. BeginRun(<<Queued(c, "prompt")>>) /\ c \in Messages
      BY <1>8 DEF CustomTriggers, Messages
    <2> QED BY <2>1, BeginOne
  <1>9. CASE ClearQueue
    <2>1. ctx' = ctx /\ UNCHANGED <<pc, pend, batch, loop, spent, thrown>> /\ aborted' = aborted
          /\ stopReq' = stopReq
      BY <1>9 DEF ClearQueue, ClearQueues
    <2> QED BY <2>1, NotedNot DEF Stays
  <1>10. CASE Abort
    <2>1. ctx' = ctx /\ UNCHANGED <<pc, pend, batch, loop, spent, thrown>> /\ stopReq' = TRUE
      BY <1>10 DEF Abort, AbortRun
    <2> QED BY <2>1, NotedNot DEF Stays
  <1> QED BY <1>1, <1>2, <1>4, <1>5, <1>6, <1>7, <1>8, <1>9, <1>10 DEF Outside

LEMMA OtherSteps ==
  ASSUME TypeInv, [Next]_vars, ~LoopActs
  PROVE  Stays \/ Begins \/ Goes \/ Ends
  <1> USE SessionFacts
  <1>1. CASE Outside \/ UNCHANGED vars
    BY <1>1, OutsideSteps
  <1>2. CASE StartRun
    <2>1. front.at = "preflight" /\ BeginRun(<<Queued(front.m, "prompt")>> \o nextTurn)
      BY <1>2 DEF StartRun
    <2>2. front.m \in Messages
      BY <2>1 DEF FrontInv, Messages
    <2> QED BY <2>1, <2>2, BeginBegins
  <1>3. CASE PreflightRefused \/ SettledEnds \/ PromptReturns
    <2>1. UNCHANGED loopVars /\ stopReq' = stopReq
      BY <1>3 DEF PreflightRefused, SettledEnds, PromptReturns
    <2> QED BY <2>1, StillStays
  <1>4. CASE RunEnds
    BY <1>4 DEF RunEnds, Ends
  <1>5. CASE PostMidRun \/ PostRetry
    <2>1. stopReq' = stopReq /\ \E c \in Control : Wait(c)
      BY <1>5 DEF PostMidRun, PostRetry, Control
    <2> QED BY <2>1, GoOnGoes
  <1>6. CASE PostCompact
    <2>1. stopReq' = stopReq
      BY <1>6 DEF PostCompact
    <2>2. Wait("compactRetry") \/ Wait("compact") \/ GoOnIfQueued
      BY <1>6, Zenon DEF PostCompact
    <2>3. "compactRetry" \in Control /\ "compact" \in Control
      BY DEF Control
    <2> QED BY <2>1, <2>2, <2>3, GoOnGoes
  <1>7. ASSUME NEW slept, BackoffEnds(slept) PROVE Stays \/ Goes
    <2>1. stopReq' = stopReq
      BY <1>7 DEF BackoffEnds
    <2>2. GoOn \/ Wait("finish") \/ GoOnIfQueued
      BY <1>7, Zenon DEF BackoffEnds
    <2>3. "finish" \in Control
      BY DEF Control
    <2> QED BY <2>1, <2>2, <2>3, GoOnGoes
  <1>8. ASSUME NEW ok, CompactionEnds(ok) PROVE Stays \/ Goes
    <2>1. stopReq' = stopReq
      BY <1>8 DEF CompactionEnds
    <2>2. GoOn \/ Wait("finish") \/ GoOnIfQueued \/ Rest
      BY <1>8, Zenon DEF CompactionEnds
    <2>3. "finish" \in Control
      BY DEF Control
    <2> QED BY <2>1, <2>2, <2>3, GoOnGoes
  <1>9. ASSUME NEW handlers, NEW asked, BeforeSettle(handlers, asked) PROVE Stays \/ Goes
    <2> DEFINE flush == IF handlers THEN Flushed ELSE <<>>
               role  == IF flush # <<>> THEN "custom" ELSE LastRole
    <2>1. sc = "before" /\ stopReq' = stopReq
      BY <1>9 DEF BeforeSettle
    <2>2. \/ CanContinue(role) /\ Continue(role) /\ ctx' = ctx \o flush
          \/ Record(flush)
      BY <1>9, Zenon DEF BeforeSettle
    <2>3. flush \in Seq(Notes)
      BY FlushedNotes
    <2> HIDE DEF flush, role
    <2>4. CASE Record(flush)
      BY <2>1, <2>3, <2>4, RecordStays
    <2>5. CASE CanContinue(role) /\ Continue(role) /\ ctx' = ctx \o flush
      <3>1. Noted
        BY <2>3, <2>5 DEF Noted
      <3> QED BY <2>1, <2>5, <3>1 DEF Goes
    <2> QED BY <2>2, <2>4, <2>5
  <1>10. CASE Settle
    <2>1. sc = "finish" /\ Record(Flushed) /\ stopReq' = stopReq
      BY <1>10 DEF Settle
    <2> QED BY <2>1, RecordStays, FlushedNotes
  <1>11. CASE DeferredStarts
    <2>1. deferred # <<>>
      BY <1>11 DEF DeferredStarts
    <2>2. Head(deferred) \in Messages
      BY <2>1, HeadTailProperties
    <2>3. \/ BeginRun(<<Queued(Head(deferred), "prompt")>>)
          \/ UNCHANGED loopVars /\ stopReq' = stopReq
      BY <1>11, Zenon DEF DeferredStarts
    <2> QED BY <2>2, <2>3, BeginOne, StillStays
  <1> QED
    BY <1>1, <1>2, <1>3, <1>4, <1>5, <1>6, <1>7, <1>8, <1>9, <1>10, <1>11
    DEF Next, Program, LoopActs

LEMMA PendNext == TypeInv /\ PendInv /\ [Next]_vars => PendInv'
  <1> SUFFICES ASSUME TypeInv, PendInv, [Next]_vars PROVE PendInv'
    OBVIOUS
  <1>1. CASE LoopActs
    BY <1>1, PendRun DEF LoopActs, RunStep, EndTurn, BreakRun
  <1>2. CASE Stays
    BY <1>2 DEF Stays, PendInv
  <1>3. CASE Begins
    BY <1>3 DEF Begins, StartPrompt, Start, PendInv
  <1>4. CASE Goes
    <2>1. PICK role : Continue(role) /\ stopReq' = stopReq
      BY <1>4 DEF Goes
    <2>2. pc' = "prompting" /\ aborted' = FALSE
      BY <2>1, Zenon DEF Continue, Start
    <2> QED BY <2>2 DEF PendInv
  <1>5. CASE Ends
    BY <1>5 DEF Ends, EndRun, PendInv
  <1> QED BY <1>1, <1>2, <1>3, <1>4, <1>5, OtherSteps

LEMMA PendInit == Init => PendInv
  BY DEF Init, LoopInit, PendInv

-----------------------------------------------------------------------------
(* The transcript.  While its calls are worked on, the open answer is the   *)
(* last but for the results that have come, and nothing else is recorded.   *)

Working == pc \in {"tools", "executing"}
Open    == Len(ctx) - (IF batch.par THEN 0 ELSE batch.next - 1)

OpenInv ==
  /\ Working =>
       /\ Open \in DOMAIN ctx /\ ctx[Open].kind = "asst" /\ ctx[Open].calls = Len(batch.st)
       /\ \A k \in Open + 1 .. Len(ctx) : ctx[k].kind = "result"
  /\ pc = "executing" /\ batch.par => batch.next > Len(batch.st) \/ stopReq

LEMMA BatchFacts ==
  ASSUME TypeInv
  PROVE  /\ batch.par \in BOOLEAN /\ batch.next \in Nat \ {0} /\ Len(batch.st) \in Nat
         /\ batch.next <= Len(batch.st) + 1 /\ Len(batch.st) <= MaxCalls
         /\ DOMAIN batch.st = 1 .. Len(batch.st)
         /\ ctx \in Seq(Entry) /\ Len(ctx) \in Nat /\ DOMAIN ctx = 1 .. Len(ctx)
         /\ pc = "tools" \/ (pc = "executing" /\ ~batch.par) => batch.next <= Len(batch.st)
  BY LoopAssumption, LenProperties DEF TypeInv, LoopInv, LoopTypes, BatchInv

\* What preparing and finishing a call do to the batch and the transcript.
LEMMA PrepareIs ==
  ASSUME TypeInv, NEW how \in Prep, PrepareCall(how)
  PROVE  /\ pc = "tools" /\ batch'.par = batch.par /\ Len(batch'.st) = Len(batch.st)
         /\ batch.par => /\ ctx' = ctx /\ batch'.next = batch.next + 1
                         /\ pc' \in {"tools", "executing"}
                         /\ pc' = "executing" => aborted \/ batch.next = Len(batch.st)
         /\ ~batch.par /\ how = "ready" => ctx' = ctx /\ batch'.next = batch.next /\ pc' = "executing"
         /\ ~batch.par /\ how # "ready" =>
              /\ ctx' = Append(ctx, Result(batch.next, how)) /\ batch'.next = batch.next + 1
              /\ pc' \in {"tools", "turnEnd"}
              /\ pc' = "turnEnd" => aborted \/ batch.next = Len(batch.st)
  <1> DEFINE C == {"wait", "ready", "run"} \cup Hows
             new == IF how = "ready" /\ ~batch.par THEN "run" ELSE how
             st  == [batch.st EXCEPT ![batch.next] = new]
  <1>1. pc = "tools"
    BY DEF PrepareCall
  <1>2. PICK b, k, x : b = batch.par /\ k = batch.next /\ x = batch.st /\ batch = [par |-> b, next |-> k, st |-> x]
    BY DEF TypeInv, LoopInv, LoopTypes
  <1>3. x \in Seq(C) /\ k \in 1 .. Len(x)
    BY <1>1, <1>2, BatchFacts DEF TypeInv, LoopInv, LoopTypes
  <1>4. st \in Seq(C) /\ Len(st) = Len(x)
    BY <1>2, <1>3, ExceptSeq
  <1>5. Len(Launched(st)) = Len(x)
    BY <1>4, LaunchTypes
  <1> HIDE DEF st
  <1>6. CASE b
    <2>1. /\ pc' = IF aborted \/ LastCall THEN "executing" ELSE "tools"
          /\ batch' = [batch EXCEPT !.next = @ + 1, !.st = IF pc' = "executing" THEN Launched(st) ELSE st]
          /\ ctx' = ctx
      BY <1>2, <1>6, Zenon DEF PrepareCall, st
    <2>2. batch'.par = b /\ batch'.next = k + 1 /\ batch'.st = IF pc' = "executing" THEN Launched(st) ELSE st
      BY <1>2, <2>1
    <2>3. Len(batch'.st) = Len(x)
      BY <1>4, <1>5, <2>2
    <2>4. pc' \in {"tools", "executing"} /\ (pc' = "executing" => aborted \/ k = Len(x))
      BY <1>2, <2>1 DEF LastCall
    <2> QED BY <1>1, <1>2, <1>6, <2>1, <2>2, <2>3, <2>4, Zenon
  <1>7. CASE ~b
    <2>1. /\ pc' = IF how = "ready" THEN "executing" ELSE IF aborted \/ LastCall THEN "turnEnd" ELSE "tools"
          /\ batch' = [batch EXCEPT !.next = IF how = "ready" THEN @ ELSE @ + 1, !.st = st]
          /\ ctx' = IF how = "ready" THEN ctx ELSE Append(ctx, Result(k, how))
      BY <1>2, <1>7, Zenon DEF PrepareCall, st
    <2>2. batch'.par = b /\ (batch'.next = IF how = "ready" THEN k ELSE k + 1) /\ batch'.st = st
      BY <1>2, <2>1
    <2>3. Len(batch'.st) = Len(x)
      BY <1>4, <2>2
    <2>4. how = "ready" => pc' = "executing"
      BY <2>1
    <2>5. how # "ready" => pc' \in {"tools", "turnEnd"} /\ (pc' = "turnEnd" => aborted \/ k = Len(x))
      BY <1>2, <2>1 DEF LastCall
    <2> QED BY <1>1, <1>2, <1>7, <2>1, <2>2, <2>3, <2>4, <2>5, Zenon
  <1> QED BY <1>6, <1>7

LEMMA FinishIs ==
  ASSUME TypeInv, NEW i \in Calls, NEW how \in Hows, FinishCall(i, how)
  PROVE  /\ pc = "executing" /\ batch'.par = batch.par /\ Len(batch'.st) = Len(batch.st)
         /\ batch.par => ctx' = ctx /\ batch'.next = batch.next /\ pc' = pc
         /\ ~batch.par => /\ i = batch.next
                          /\ ctx' = Append(ctx, Result(i, how)) /\ batch'.next = batch.next + 1
                          /\ pc' \in {"tools", "turnEnd"}
                          /\ pc' = "turnEnd" => aborted \/ batch.next = Len(batch.st)
  <1> DEFINE C == {"wait", "ready", "run"} \cup Hows
  <1>1. pc = "executing" /\ batch.st[i] = "run"
    BY DEF FinishCall
  <1>2. PICK b, k, x : b = batch.par /\ k = batch.next /\ x = batch.st /\ batch = [par |-> b, next |-> k, st |-> x]
    BY DEF TypeInv, LoopInv, LoopTypes
  <1>3. x \in Seq(C) /\ i \in 1 .. Len(x) /\ Len(x) \in Nat /\ k \in Nat
    BY <1>1, <1>2, BatchFacts DEF TypeInv, LoopInv, LoopTypes, Calls
  <1> DEFINE y == [x EXCEPT ![i] = how]
  <1>4. Len(y) = Len(x)
    BY <1>3, ExceptSeq
  <1> HIDE DEF y
  <1>5. CASE b
    <2>1. batch' = [batch EXCEPT !.st[i] = how] /\ pc' = pc /\ ctx' = ctx
      BY <1>2, <1>5, Zenon DEF FinishCall
    <2>2. batch' = [par |-> b, next |-> k, st |-> y]
      BY <1>2, <2>1 DEF y
    <2>3. batch'.par = b /\ batch'.next = k /\ batch'.st = y
      BY <2>2
    <2> QED BY <1>1, <1>2, <1>4, <1>5, <2>1, <2>3, Zenon
  <1>6. CASE ~b
    <2>1. /\ batch' = [batch EXCEPT !.st[i] = how, !.next = @ + 1]
          /\ pc' = IF aborted \/ LastCall THEN "turnEnd" ELSE "tools"
          /\ ctx' = Append(ctx, Result(i, how))
      BY <1>2, <1>6, Zenon DEF FinishCall
    <2>2. batch' = [par |-> b, next |-> k + 1, st |-> y]
      BY <1>2, <2>1 DEF y
    <2>3. batch'.par = b /\ batch'.next = k + 1 /\ batch'.st = y
      BY <2>2
    <2>4. i = k
      <3>1. /\ i < k => x[i] \in Hows
            /\ i > k => x[i] = "wait"
        BY <1>1, <1>2, <1>6, Zenon DEF TypeInv, LoopInv, BatchInv, Calls
      <3> QED BY <1>1, <1>2, <1>3, <3>1
    <2>5. pc' \in {"tools", "turnEnd"} /\ (pc' = "turnEnd" => aborted \/ k = Len(x))
      BY <1>2, <2>1 DEF LastCall
    <2> QED BY <1>1, <1>2, <1>4, <1>6, <2>1, <2>3, <2>4, <2>5, Zenon
  <1> QED BY <1>5, <1>6

LEMMA AnswerIs ==
  ASSUME TypeInv, NEW n \in 0 .. MaxCalls, NEW s \in {"stop", "length"}, NEW par \in BOOLEAN,
         Answer(n, s, par)
  PROVE  /\ Requesting /\ ~aborted /\ ctx' \in Seq(Entry) /\ n \in Nat
         /\ Len(ctx') = Len(ctx) + 1 + (IF s = "length" THEN n ELSE 0)
         /\ \A i \in 1 .. Len(ctx) : ctx'[i] = ctx[i]
         /\ ctx'[Len(ctx) + 1] = Asst(n, s)
         /\ \A i \in 1 .. Len(ctx') - Len(ctx) - 1 : ctx'[Len(ctx) + 1 + i] = Result(i, "fail")
         /\ pc' \in {"turnEnd", "tools"}
         /\ pc' = "tools" => s # "length" /\ batch'.next = 1 /\ Len(batch'.st) = n
         /\ pc' = "turnEnd" => n = 0 \/ s = "length"
  <1> DEFINE fails == IF s = "length" THEN [i \in 1 .. n |-> Result(i, "fail")] ELSE <<>>
             k == IF s = "length" THEN n ELSE 0
  <1>1. /\ ctx' = Append(ctx, Asst(n, s)) \o fails
        /\ pc' = IF n = 0 \/ s = "length" THEN "turnEnd" ELSE "tools"
        /\ batch' = IF pc' = "tools"
                      THEN [par |-> par, next |-> 1, st |-> [i \in 1 .. n |-> "wait"]]
                      ELSE NoBatch
        /\ Requesting /\ ~aborted
    BY Zenon DEF Answer
  <1>2. n \in Nat /\ ctx \in Seq(Entry) /\ Len(ctx) \in Nat
    BY BatchFacts, LoopAssumption
  <1>3. Asst(n, s) \in Entry /\ \A i \in 1 .. n : Result(i, "fail") \in Entry
    BY Entries, LoopAssumption DEF Stops
  <1>4. fails \in Seq(Entry) /\ Len(fails) = k /\ \A i \in 1 .. k : fails[i] = Result(i, "fail")
    <2>1. CASE s = "length"
      <3>1. [i \in 1 .. n |-> Result(i, "fail")] \in Seq(Entry)
        BY <1>2, <1>3
      <3>2. Len([i \in 1 .. n |-> Result(i, "fail")]) = n
        BY <1>2
      <3> QED BY <2>1, <3>1, <3>2
    <2>2. CASE s # "length"
      BY <2>2, NoElement
    <2> QED BY <2>1, <2>2
  <1>5. k \in Nat
    BY <1>2
  <1> HIDE DEF fails, k
  <1> DEFINE t == Append(ctx, Asst(n, s))
  <1>6. t \in Seq(Entry) /\ Len(t) = Len(ctx) + 1 /\ t[Len(ctx) + 1] = Asst(n, s)
        /\ \A i \in 1 .. Len(ctx) : t[i] = ctx[i]
    BY <1>2, <1>3, AppendProperties
  <1> HIDE DEF t
  <1>7. /\ ctx' \in Seq(Entry) /\ Len(ctx') = Len(t) + k
        /\ \A i \in 1 .. Len(t) + k : ctx'[i] = IF i <= Len(t) THEN t[i] ELSE fails[i - Len(t)]
    BY <1>1, <1>4, <1>6, ConcatProperties DEF t
  <1>8. /\ \A i \in 1 .. Len(ctx) : ctx'[i] = ctx[i]
        /\ ctx'[Len(ctx) + 1] = Asst(n, s)
    BY <1>2, <1>5, <1>6, <1>7
  <1>9. \A i \in 1 .. k : ctx'[Len(ctx) + 1 + i] = Result(i, "fail")
    <2> TAKE i \in 1 .. k
    <2>1. Len(ctx) + 1 + i \in 1 .. Len(t) + k /\ ~(Len(ctx) + 1 + i <= Len(t))
          /\ (Len(ctx) + 1 + i) - Len(t) = i
      BY <1>2, <1>5, <1>6
    <2> QED BY <1>4, <1>7, <2>1
  <1>10. Len(ctx') - Len(ctx) - 1 = k /\ Len(ctx') = Len(ctx) + 1 + k
    BY <1>2, <1>5, <1>6, <1>7
  <1>11. pc' = "tools" => s # "length" /\ batch'.next = 1 /\ Len(batch'.st) = n
    BY <1>1, <1>2
  <1>12. pc' \in {"turnEnd", "tools"} /\ (pc' = "turnEnd" => n = 0 \/ s = "length")
    BY <1>1
  <1> QED BY <1>1, <1>2, <1>7, <1>8, <1>9, <1>10, <1>11, <1>12 DEF k

LEMMA CollectIs ==
  ASSUME TypeInv, CollectResults
  PROVE  /\ pc = "executing" /\ batch.par /\ pc' = "turnEnd" /\ ctx' \in Seq(Entry)
         /\ Len(ctx') = Len(ctx) + batch.next - 1
         /\ \A i \in 1 .. Len(ctx) : ctx'[i] = ctx[i]
         /\ \A i \in 1 .. batch.next - 1 : ctx'[Len(ctx) + i] = Result(i, batch.st[i])
  <1> DEFINE s == [i \in 1 .. Cardinality(Settled(batch.st)) |-> Result(i, batch.st[i])]
  <1>1. pc = "executing" /\ batch.par /\ ~Executing /\ pc' = "turnEnd" /\ ctx' = ctx \o s
    BY DEF CollectResults
  <1>2. PICK k : k = batch.next
    OBVIOUS
  <1>3. /\ k \in Nat \ {0} /\ Len(batch.st) \in Nat /\ Len(batch.st) <= MaxCalls
        /\ DOMAIN batch.st = 1 .. Len(batch.st) /\ k <= Len(batch.st) + 1
        /\ ctx \in Seq(Entry) /\ Len(ctx) \in Nat
    BY <1>2, BatchFacts
  <1>4. Settled(batch.st) = 1 .. k - 1
    <2>1. \A i \in Calls : /\ i < k => batch.st[i] \in Hows
                           /\ i >= k => batch.st[i] = "wait"
      BY <1>1, <1>2, <1>3 DEF TypeInv, LoopInv, BatchInv, Executing, Calls
    <2> QED BY <1>3, <2>1 DEF Settled, Calls
  <1>5. Cardinality(Settled(batch.st)) = k - 1
    <2>1. \A l \in Nat : Cardinality(1 .. l) = l
      BY FS_Interval
    <2>2. k - 1 \in Nat
      BY <1>3
    <2> QED BY <1>4, <2>1, <2>2
  <1>6. s = [i \in 1 .. k - 1 |-> Result(i, batch.st[i])]
    BY <1>5
  <1>7. \A i \in 1 .. k - 1 : Result(i, batch.st[i]) \in Entry
    <2> TAKE i \in 1 .. k - 1
    <2>1. i \in Settled(batch.st) /\ i \in 1 .. MaxCalls
      BY <1>3, <1>4, LoopAssumption
    <2>2. batch.st[i] \in Hows
      BY <2>1 DEF Settled
    <2> QED BY <2>1, <2>2, Entries
  <1> HIDE DEF s
  <1>8. s \in Seq(Entry) /\ Len(s) = k - 1 /\ \A i \in 1 .. k - 1 : s[i] = Result(i, batch.st[i])
    <2>1. k - 1 \in Nat
      BY <1>3
    <2>2. [i \in 1 .. k - 1 |-> Result(i, batch.st[i])] \in Seq(Entry)
      BY <1>7, <2>1
    <2>3. s \in Seq(Entry) /\ DOMAIN s = 1 .. k - 1
      BY <1>6, <2>2
    <2>4. Len(s) = k - 1
      BY <2>1, <2>3, LenProperties
    <2>5. \A i \in 1 .. k - 1 : s[i] = Result(i, batch.st[i])
      BY <1>6
    <2> QED BY <2>3, <2>4, <2>5
  <1>9. /\ ctx' \in Seq(Entry) /\ Len(ctx') = Len(ctx) + (k - 1)
        /\ \A i \in 1 .. Len(ctx) + (k - 1) : ctx'[i] = IF i <= Len(ctx) THEN ctx[i] ELSE s[i - Len(ctx)]
    BY <1>1, <1>3, <1>8, ConcatProperties
  <1>10. \A i \in 1 .. Len(ctx) : ctx'[i] = ctx[i]
    BY <1>3, <1>9
  <1>11. \A i \in 1 .. k - 1 : ctx'[Len(ctx) + i] = Result(i, batch.st[i])
    <2> TAKE i \in 1 .. k - 1
    <2>1. Len(ctx) + i \in 1 .. Len(ctx) + (k - 1) /\ ~(Len(ctx) + i <= Len(ctx))
          /\ (Len(ctx) + i) - Len(ctx) = i
      BY <1>3
    <2> QED BY <1>8, <1>9, <2>1
  <1>12. Len(ctx') = Len(ctx) + k - 1
    BY <1>3, <1>9
  <1> QED BY <1>1, <1>2, <1>9, <1>10, <1>11, <1>12

\* Which steps leave a batch to be worked on.
LEMMA OpenNext == TypeInv /\ PendInv /\ OpenInv /\ [Next]_vars => OpenInv'
  <1> SUFFICES ASSUME TypeInv, PendInv, OpenInv, [Next]_vars PROVE OpenInv'
    OBVIOUS
  <1> USE BatchFacts
  <1>1. ASSUME ~Working' PROVE OpenInv'
    BY <1>1 DEF OpenInv, Working
  <1>2. ASSUME Working, pc' = pc, ctx' = ctx, batch'.par = batch.par, batch'.next = batch.next,
               Len(batch'.st) = Len(batch.st), stopReq => stopReq'
        PROVE  OpenInv'
    <2>1. Open' = Open
      BY <1>2 DEF Open
    <2> QED BY <1>2, <2>1 DEF OpenInv, Working
  <1>3. ASSUME ~LoopActs PROVE OpenInv'
    <2>1. CASE Stays
      <3>1. CASE Working
        <4>1. pc # "off"
          BY <3>1 DEF Working
        <4> QED BY <1>2, <2>1, <3>1, <4>1 DEF Stays
      <3>2. CASE ~Working
        BY <1>1, <2>1, <3>2 DEF Stays, Working
      <3> QED BY <3>1, <3>2
    <2>2. CASE Begins
      BY <1>1, <2>2 DEF Begins, StartPrompt, Start, Working
    <2>3. CASE Goes
      <3>1. pc' = "prompting"
        BY <2>3, Zenon DEF Goes, Continue, Start
      <3> QED BY <1>1, <3>1 DEF Working
    <2>4. CASE Ends
      BY <1>1, <2>4 DEF Ends, EndRun, Working
    <2> QED BY <1>3, <2>1, <2>2, <2>3, <2>4, OtherSteps
  <1>4. ASSUME LoopActs PROVE stopReq' = stopReq
    BY <1>4 DEF LoopActs, RunStep, EndTurn, BreakRun
  <1>5. CASE RunStep
    <2>0. stopReq' = stopReq
      BY <1>4, <1>5 DEF LoopActs
    <2>1. CASE Deliver
      BY <1>1, <2>1 DEF Deliver, Working
    <2>2. CASE FirstPoll \/ Prepared \/ OutOfBudget
      BY <1>1, <2>2 DEF FirstPoll, Prepared, OutOfBudget, Working
    <2>3. ASSUME NEW s, Refuse(s) PROVE OpenInv'
      BY <1>1, <2>3 DEF Refuse, Working
    <2>4. ASSUME NEW n \in 0 .. MaxCalls, NEW s \in {"stop", "length"}, NEW par \in BOOLEAN,
                 Answer(n, s, par)
          PROVE  OpenInv'
      <3>1. CASE pc' = "tools"
        <4>1. /\ Len(ctx') = Len(ctx) + 1 /\ ctx'[Len(ctx) + 1] = Asst(n, s) /\ ctx' \in Seq(Entry)
              /\ batch'.next = 1 /\ Len(batch'.st) = n
          BY <2>4, <3>1, AnswerIs
        <4>2. Open' = Len(ctx) + 1
          BY <4>1 DEF Open
        <4>3. Open' \in DOMAIN ctx'
          BY <4>1, <4>2, LenProperties
        <4>4. ctx'[Open'].kind = "asst" /\ ctx'[Open'].calls = n
          BY <4>1, <4>2 DEF Asst
        <4>5. Open' + 1 .. Len(ctx') = {}
          BY <4>1, <4>2
        <4> QED BY <3>1, <4>1, <4>3, <4>4, <4>5 DEF OpenInv
      <3>2. CASE pc' # "tools"
        <4>1. pc' = "turnEnd"
          BY <2>4, <3>2, AnswerIs
        <4> QED BY <1>1, <4>1 DEF Working
      <3> QED BY <3>1, <3>2
    <2>5. ASSUME NEW e \in Entry, e.kind = "result", ctx' = Append(ctx, e), Working, ~batch.par,
                 batch'.par = batch.par, batch'.next = batch.next + 1, Len(batch'.st) = Len(batch.st),
                 pc' # "executing"
          PROVE  OpenInv'
      <3>1. /\ ctx' \in Seq(Entry) /\ Len(ctx') = Len(ctx) + 1 /\ ctx'[Len(ctx) + 1] = e
            /\ \A i \in 1 .. Len(ctx) : ctx'[i] = ctx[i]
        BY <2>5, AppendProperties
      <3>2. Open' = Open /\ Open \in 1 .. Len(ctx)
        <4>1. Open = Len(ctx) - (batch.next - 1)
          BY <2>5 DEF Open
        <4>2. Open' = Len(ctx) + 1 - (batch.next + 1 - 1)
          BY <2>5, <3>1 DEF Open
        <4>3. Open \in DOMAIN ctx
          BY <2>5, Zenon DEF OpenInv
        <4> QED BY <4>1, <4>2, <4>3
      <3>3. DOMAIN ctx' = 1 .. Len(ctx')
        BY <3>1, LenProperties
      <3>4. \A k \in Open + 1 .. Len(ctx') : ctx'[k].kind = "result"
        BY <2>5, <3>1, <3>2, SMTT(30) DEF OpenInv
      <3>5. Open' \in DOMAIN ctx' /\ ctx'[Open'].kind = "asst" /\ ctx'[Open'].calls = Len(batch'.st)
        BY <2>5, <3>1, <3>2, <3>3 DEF OpenInv
      <3> QED BY <2>5, <3>2, <3>4, <3>5 DEF OpenInv
    <2>6. ASSUME NEW how \in Prep, PrepareCall(how) PROVE OpenInv'
      <3>1. Working
        BY <2>6, PrepareIs DEF Working
      <3>2. CASE batch.par
        <4>1. /\ ctx' = ctx /\ batch'.par = batch.par /\ Len(batch'.st) = Len(batch.st)
              /\ pc' = "executing" => aborted \/ batch.next = Len(batch.st)
              /\ batch'.next = batch.next + 1
          BY <2>6, <3>2, PrepareIs
        <4>2. Open' = Open /\ Open = Len(ctx)
          BY <3>2, <4>1 DEF Open
        <4>3. pc' = "executing" => batch'.next > Len(batch'.st) \/ stopReq'
          BY <2>0, <4>1 DEF PendInv
        <4> QED BY <3>1, <4>1, <4>2, <4>3 DEF OpenInv
      <3>3. CASE ~batch.par /\ how = "ready"
        <4>1. ctx' = ctx /\ batch'.next = batch.next /\ batch'.par = batch.par
              /\ Len(batch'.st) = Len(batch.st)
          BY <2>6, <3>3, PrepareIs
        <4>2. Open' = Open
          BY <4>1 DEF Open
        <4> QED BY <3>1, <3>3, <4>1, <4>2 DEF OpenInv
      <3>4. CASE ~batch.par /\ how # "ready"
        <4>1. Result(batch.next, how) \in Entry
          <5>1. batch.next \in 1 .. MaxCalls
            BY <2>6, PrepareIs, LoopAssumption
          <5> QED BY <3>4, <5>1, Entries
        <4>2. Result(batch.next, how).kind = "result"
          BY DEF Result
        <4>3. /\ ctx' = Append(ctx, Result(batch.next, how)) /\ batch'.next = batch.next + 1
              /\ pc' # "executing" /\ batch'.par = batch.par /\ Len(batch'.st) = Len(batch.st)
          BY <2>6, <3>4, PrepareIs
        <4> QED BY <2>5, <3>1, <3>4, <4>1, <4>2, <4>3
      <3> QED BY <3>2, <3>3, <3>4
    <2>7. CASE CutBatch
      <3>1. /\ pc = "tools" /\ aborted /\ ctx' = ctx
            /\ \/ ~batch.par /\ pc' = "turnEnd"
               \/ batch.par /\ pc' = "executing" /\ batch' = [batch EXCEPT !.st = Launched(batch.st)]
        BY <2>7, Zenon DEF CutBatch
      <3>2. CASE ~batch.par
        BY <1>1, <3>1, <3>2 DEF Working
      <3>3. CASE batch.par
        <4>1. batch'.par = batch.par /\ batch'.next = batch.next /\ batch'.st = Launched(batch.st)
          BY <3>1, <3>3 DEF TypeInv, LoopInv, LoopTypes
        <4>2. Len(batch'.st) = Len(batch.st)
          BY <4>1, LaunchTypes DEF TypeInv, LoopInv, LoopTypes
        <4>3. Open' = Open
          BY <3>1, <4>1 DEF Open
        <4>4. stopReq'
          BY <2>0, <3>1 DEF PendInv
        <4> QED BY <3>1, <4>1, <4>2, <4>3, <4>4 DEF OpenInv, Working
      <3> QED BY <3>2, <3>3
    <2>8. ASSUME NEW i \in Calls, NEW how \in Hows, FinishCall(i, how) PROVE OpenInv'
      <3>1. Working /\ batch'.par = batch.par /\ Len(batch'.st) = Len(batch.st)
        BY <2>8, FinishIs DEF Working
      <3>2. CASE batch.par
        BY <1>2, <2>0, <2>8, <3>1, <3>2, FinishIs
      <3>3. CASE ~batch.par
        <4>1. Result(i, how) \in Entry /\ Result(i, how).kind = "result"
          <5>1. i \in 1 .. MaxCalls
            BY LoopAssumption DEF Calls
          <5> QED BY <5>1, Entries DEF Result
        <4>2. ctx' = Append(ctx, Result(i, how)) /\ batch'.next = batch.next + 1 /\ pc' # "executing"
          BY <2>8, <3>3, FinishIs
        <4> QED BY <2>5, <3>1, <3>3, <4>1, <4>2
      <3> QED BY <3>2, <3>3
    <2>9. CASE CollectResults
      BY <1>1, <2>9, CollectIs DEF Working
    <2>10. ASSUME NEW continue, FinishTurn(continue) PROVE OpenInv'
      BY <1>1, <2>10 DEF FinishTurn, Working
    <2> QED
      BY <1>5, <2>1, <2>2, <2>3, <2>4, <2>6, <2>7, <2>8, <2>9, <2>10, Zenon DEF RunStep
  <1>6. CASE EndTurn
    <2>1. ASSUME NEW stop, NEW repeated, TurnEnd(stop, repeated, Flushed) PROVE pc' \in {"ended", "between"}
      <3>1. pc' = "ended" \/ pc' = "between"
        BY <2>1, Zenon DEF TurnEnd
      <3> QED BY <3>1
    <2>2. ASSUME FailedTurnEnd(Flushed) PROVE pc' = "ended"
      BY <2>2 DEF FailedTurnEnd
    <2>3. ASSUME NEW s, RunFails(s, Flushed) PROVE pc' = "ended"
      BY <2>3 DEF RunFails
    <2>4. pc' \in {"ended", "between"}
      BY <1>6, <2>1, <2>2, <2>3, Zenon DEF EndTurn
    <2> QED BY <1>1, <2>4 DEF Working
  <1>7. CASE BreakRun
    BY <1>1, <1>7 DEF BreakRun, RunBreaks, Working
  <1> QED BY <1>3, <1>5, <1>6, <1>7 DEF LoopActs

LEMMA OpenInit == Init => OpenInv
  BY DEF Init, LoopInit, OpenInv, Working

LEMMA Concat ==
  ASSUME NEW x \in Seq(Entry), NEW y \in Seq(Entry), NEW z, z = x \o y
  PROVE  /\ z \in Seq(Entry) /\ Len(z) = Len(x) + Len(y)
         /\ \A i \in 1 .. Len(x) + Len(y) : z[i] = IF i <= Len(x) THEN x[i] ELSE y[i - Len(x)]
  BY ConcatProperties

\* What a step adds to the transcript.
Extended ==
  /\ ctx \in Seq(Entry) /\ ctx' \in Seq(Entry)
  /\ Len(ctx) \in Nat /\ Len(ctx') \in Nat /\ Len(ctx) <= Len(ctx')
  /\ DOMAIN ctx = 1 .. Len(ctx) /\ DOMAIN ctx' = 1 .. Len(ctx')
  /\ \A i \in 1 .. Len(ctx) : ctx'[i] = ctx[i]
Added == Len(ctx) + 1 .. Len(ctx')

Rejections == [kind : {"asst"}, calls : {0}, stop : {"error", "flaky", "aborted"}]

LEMMA RejectionEntries ==
  \A s \in {"error", "flaky", "aborted"} : Asst(0, s) \in Entry /\ Asst(0, s) \in Rejections
  <1> TAKE s \in {"error", "flaky", "aborted"}
  <1>1. s \in Stops /\ 0 \in 0 .. MaxCalls
    BY LoopAssumption DEF Stops, Failed
  <1>2. Asst(0, s) \in Rejections
    BY DEF Rejections, Asst
  <1> QED BY <1>1, <1>2, Entries

LEMMA GrowsExtended ==
  ASSUME TypeInv, Grows
  PROVE  Extended
  <1>1. PICK s \in Seq(Entry) : ctx' = ctx \o s
    BY DEF Grows
  <1>2. /\ ctx' \in Seq(Entry) /\ Len(ctx') = Len(ctx) + Len(s)
        /\ \A i \in DOMAIN ctx : ctx'[i] = ctx[i]
    BY <1>1, Grown DEF TypeInv, LoopInv
  <1>3. Len(s) \in Nat
    BY LenProperties
  <1>4. ctx \in Seq(Entry) /\ Len(ctx) \in Nat /\ DOMAIN ctx = 1 .. Len(ctx)
    BY BatchFacts
  <1>5. Len(ctx') \in Nat /\ DOMAIN ctx' = 1 .. Len(ctx')
    BY <1>2, LenProperties
  <1> QED BY <1>2, <1>3, <1>4, <1>5 DEF Extended

LEMMA NotedExtended ==
  ASSUME TypeInv, Noted
  PROVE  Extended /\ \A i \in Added : ctx'[i] \in Notes
  <1>1. PICK s \in Seq(Notes) : ctx' = ctx \o s
    BY DEF Noted
  <1>2. s \in Seq(Entry)
    BY FlushedNotes
  <1>3. Grows
    BY <1>1, <1>2 DEF Grows
  <1>4. Extended
    BY <1>3, GrowsExtended
  <1>5. \A i \in Added : ctx'[i] \in Notes
    <2> TAKE i \in Added
    <2>1. i \in DOMAIN ctx' /\ i \notin DOMAIN ctx
      BY <1>4 DEF Extended, Added
    <2>2. i - Len(ctx) \in DOMAIN s /\ ctx'[i] = s[i - Len(ctx)]
      BY <1>1, <1>2, <2>1, Grown DEF TypeInv, LoopInv
    <2> QED BY <2>2, LenProperties, ElementOfSeq
  <1> QED BY <1>4, <1>5

LEMMA AppendExtended ==
  ASSUME TypeInv, NEW e \in Entry, ctx' = Append(ctx, e)
  PROVE  Extended /\ Added = {Len(ctx) + 1} /\ ctx'[Len(ctx) + 1] = e /\ Len(ctx') = Len(ctx) + 1
  <1>1. ctx \in Seq(Entry) /\ Len(ctx) \in Nat /\ DOMAIN ctx = 1 .. Len(ctx)
    BY BatchFacts
  <1>2. /\ ctx' \in Seq(Entry) /\ Len(ctx') = Len(ctx) + 1 /\ ctx'[Len(ctx) + 1] = e
        /\ \A i \in 1 .. Len(ctx) : ctx'[i] = ctx[i]
    BY <1>1, AppendProperties
  <1>3. DOMAIN ctx' = 1 .. Len(ctx')
    BY <1>2, LenProperties
  <1> QED BY <1>1, <1>2, <1>3 DEF Extended, Added

LEMMA SameExtended ==
  ASSUME TypeInv, ctx' = ctx
  PROVE  Extended /\ Added = {}
  BY BatchFacts DEF Extended, Added

LEMMA LoopExtended ==
  ASSUME TypeInv, LoopActs
  PROVE  Extended
  BY SessionFacts, LoopStepTypes, GrowsExtended DEF LoopActs

\* The end of a turn records the custom messages that waited, and at most one
\* rejected answer, before or after them.
LEMMA EndTurnAdds ==
  ASSUME TypeInv, EndTurn
  PROVE  \E b \in 0 .. 1, a \in 0 .. 1 :
           /\ b + a <= 1 /\ Len(ctx') = Len(ctx) + b + Len(customs) + a
           /\ \A k \in DOMAIN customs : ctx'[Len(ctx) + b + k] = Custom(customs[k])
           /\ \A i \in Added : i <= Len(ctx) + b \/ i > Len(ctx) + b + Len(customs)
                                 => ctx'[i] \in Rejections
  <1>1. /\ Flushed \in Seq(Entry) /\ Len(Flushed) = Len(customs)
        /\ \A i \in DOMAIN customs : Flushed[i] = Custom(customs[i])
        /\ DOMAIN customs = 1 .. Len(customs) /\ Len(customs) \in Nat
    <2>1. customs \in Seq(Customs)
      BY SessionFacts
    <2>2. DOMAIN customs = 1 .. Len(customs) /\ Len(customs) \in Nat
      BY <2>1, LenProperties
    <2>3. DOMAIN Flushed = DOMAIN customs
      BY DEF Flushed
    <2> QED BY <2>1, <2>2, <2>3, FlushedTypes
  <1>2. ctx \in Seq(Entry) /\ Len(ctx) \in Nat /\ DOMAIN ctx = 1 .. Len(ctx)
    BY BatchFacts
  <1>3. \A s \in {"error", "flaky", "aborted"} : Asst(0, s) \in Entry /\ Asst(0, s) \in Rejections
    BY RejectionEntries
  <1>4. ASSUME ctx' = ctx \o Flushed
        PROVE  /\ Len(ctx') = Len(ctx) + 0 + Len(customs) + 0
               /\ \A k \in DOMAIN customs : ctx'[Len(ctx) + 0 + k] = Custom(customs[k])
               /\ \A i \in Added : i <= Len(ctx) + 0 \/ i > Len(ctx) + 0 + Len(customs)
                                     => ctx'[i] \in Rejections
    <2>1. /\ Len(ctx') = Len(ctx) + Len(Flushed)
          /\ \A i \in 1 .. Len(ctx) + Len(Flushed) :
               ctx'[i] = IF i <= Len(ctx) THEN ctx[i] ELSE Flushed[i - Len(ctx)]
      BY <1>1, <1>2, <1>4, Concat
    <2>2. Len(ctx') = Len(ctx) + 0 + Len(customs) + 0
      BY <1>1, <1>2, <2>1
    <2>3. \A k \in DOMAIN customs : ctx'[Len(ctx) + 0 + k] = Custom(customs[k])
      <3> TAKE k \in DOMAIN customs
      <3>1. /\ Len(ctx) + 0 + k \in 1 .. Len(ctx) + Len(Flushed) /\ ~(Len(ctx) + 0 + k <= Len(ctx))
            /\ (Len(ctx) + 0 + k) - Len(ctx) = k
        BY <1>1, <1>2
      <3> QED BY <1>1, <2>1, <3>1
    <2>4. \A i \in Added : ~(i <= Len(ctx) + 0 \/ i > Len(ctx) + 0 + Len(customs))
      BY <1>1, <1>2, <2>2 DEF Added
    <2> QED BY <2>2, <2>3, <2>4
  <1>5. ASSUME NEW s \in {"error", "flaky", "aborted"}, ctx' = (ctx \o Flushed) \o <<Asst(0, s)>>
        PROVE  /\ Len(ctx') = Len(ctx) + 0 + Len(customs) + 1
               /\ \A k \in DOMAIN customs : ctx'[Len(ctx) + 0 + k] = Custom(customs[k])
               /\ \A i \in Added : i <= Len(ctx) + 0 \/ i > Len(ctx) + 0 + Len(customs)
                                     => ctx'[i] \in Rejections
    <2> DEFINE t == ctx \o Flushed
    <2>1. /\ t \in Seq(Entry) /\ Len(t) = Len(ctx) + Len(customs)
          /\ \A i \in 1 .. Len(ctx) + Len(Flushed) :
               t[i] = IF i <= Len(ctx) THEN ctx[i] ELSE Flushed[i - Len(ctx)]
      BY <1>1, <1>2, ConcatProperties, SMTT(30)
    <2>2. <<Asst(0, s)>> \in Seq(Entry) /\ Len(<<Asst(0, s)>>) = 1 /\ <<Asst(0, s)>>[1] = Asst(0, s)
      BY <1>3, OneElement
    <2> HIDE DEF t
    <2>3. /\ Len(ctx') = Len(t) + 1
          /\ \A i \in 1 .. Len(t) + 1 : ctx'[i] = IF i <= Len(t) THEN t[i] ELSE <<Asst(0, s)>>[i - Len(t)]
      BY <1>5, <2>1, <2>2, Concat DEF t
    <2>4. Len(ctx') = Len(ctx) + 0 + Len(customs) + 1
      BY <1>1, <1>2, <2>1, <2>3
    <2>5. \A k \in DOMAIN customs : ctx'[Len(ctx) + 0 + k] = Custom(customs[k])
      <3> TAKE k \in DOMAIN customs
      <3>1. /\ Len(ctx) + 0 + k \in 1 .. Len(ctx) + Len(Flushed) /\ ~(Len(ctx) + 0 + k <= Len(ctx))
            /\ (Len(ctx) + 0 + k) - Len(ctx) = k /\ Len(ctx) + 0 + k \in 1 .. Len(t) + 1
            /\ Len(ctx) + 0 + k <= Len(t)
        BY <1>1, <1>2, <2>1
      <3> QED BY <1>1, <2>1, <2>3, <3>1
    <2>6. ASSUME NEW i \in Added, i <= Len(ctx) + 0 \/ i > Len(ctx) + 0 + Len(customs)
          PROVE  ctx'[i] \in Rejections
      <3>1. i \in 1 .. Len(t) + 1 /\ ~(i <= Len(t)) /\ i - Len(t) = 1
        BY <1>1, <1>2, <2>1, <2>3, <2>6 DEF Added
      <3> QED BY <1>3, <2>2, <2>3, <3>1
    <2> QED BY <2>4, <2>5, <2>6
  <1>6. ASSUME NEW s \in {"error", "flaky", "aborted"}, ctx' = Append(ctx, Asst(0, s)) \o Flushed
        PROVE  /\ Len(ctx') = Len(ctx) + 1 + Len(customs) + 0
               /\ \A k \in DOMAIN customs : ctx'[Len(ctx) + 1 + k] = Custom(customs[k])
               /\ \A i \in Added : i <= Len(ctx) + 1 \/ i > Len(ctx) + 1 + Len(customs)
                                     => ctx'[i] \in Rejections
    <2> DEFINE t == Append(ctx, Asst(0, s))
    <2>1. t \in Seq(Entry) /\ Len(t) = Len(ctx) + 1 /\ t[Len(ctx) + 1] = Asst(0, s)
      BY <1>2, <1>3, AppendProperties
    <2> HIDE DEF t
    <2>2. /\ Len(ctx') = Len(t) + Len(Flushed)
          /\ \A i \in 1 .. Len(t) + Len(Flushed) :
               ctx'[i] = IF i <= Len(t) THEN t[i] ELSE Flushed[i - Len(t)]
      BY <1>1, <1>6, <2>1, Concat DEF t
    <2>3. Len(ctx') = Len(ctx) + 1 + Len(customs) + 0
      BY <1>1, <1>2, <2>1, <2>2
    <2>4. \A k \in DOMAIN customs : ctx'[Len(ctx) + 1 + k] = Custom(customs[k])
      <3> TAKE k \in DOMAIN customs
      <3>1. /\ Len(ctx) + 1 + k \in 1 .. Len(t) + Len(Flushed) /\ ~(Len(ctx) + 1 + k <= Len(t))
            /\ (Len(ctx) + 1 + k) - Len(t) = k
        BY <1>1, <1>2, <2>1
      <3> QED BY <1>1, <2>2, <3>1
    <2>5. ASSUME NEW i \in Added, i <= Len(ctx) + 1 \/ i > Len(ctx) + 1 + Len(customs)
          PROVE  ctx'[i] \in Rejections
      <3>1. i = Len(ctx) + 1 /\ i <= Len(t) /\ i \in 1 .. Len(t) + Len(Flushed)
        BY <1>1, <1>2, <2>1, <2>3, <2>5 DEF Added
      <3> QED BY <1>3, <2>1, <2>2, <3>1
    <2> QED BY <2>3, <2>4, <2>5
  <1>7. \/ ctx' = ctx \o Flushed
        \/ \E s \in {"error", "flaky", "aborted"} : ctx' = (ctx \o Flushed) \o <<Asst(0, s)>>
        \/ \E s \in {"error", "flaky", "aborted"} : ctx' = Append(ctx, Asst(0, s)) \o Flushed
    <2>1. ASSUME NEW stop, NEW repeated, TurnEnd(stop, repeated, Flushed)
          PROVE  ctx' = ctx \o Flushed \/ ctx' = (ctx \o Flushed) \o <<Asst(0, "error")>>
      <3>1. ctx' = (ctx \o Flushed) \o <<>> \/ ctx' = (ctx \o Flushed) \o <<Asst(0, "error")>>
        BY <2>1, Zenon DEF TurnEnd
      <3>2. ctx \o Flushed \in Seq(Entry)
        BY <1>1, <1>2, ConcatProperties
      <3>3. (ctx \o Flushed) \o <<>> = ctx \o Flushed
        BY <3>2, ConcatEmptySeq
      <3> QED BY <3>1, <3>3
    <2>2. ASSUME FailedTurnEnd(Flushed) PROVE ctx' = ctx \o Flushed
      BY <2>2 DEF FailedTurnEnd
    <2>3. ASSUME NEW s \in {"aborted", "error", "flaky"}, RunFails(s, Flushed)
          PROVE  ctx' = Append(ctx, Asst(0, s)) \o Flushed
      BY <2>3 DEF RunFails
    <2> QED BY <2>1, <2>2, <2>3, Zenon DEF EndTurn
  <1>8. 0 \in 0 .. 1 /\ 1 \in 0 .. 1 /\ 0 + 0 <= 1 /\ 0 + 1 <= 1 /\ 1 + 0 <= 1
    OBVIOUS
  <1>9. CASE ctx' = ctx \o Flushed
    <2> WITNESS 0 \in 0 .. 1, 0 \in 0 .. 1
    <2> QED BY <1>4, <1>8, <1>9
  <1>10. CASE \E s \in {"error", "flaky", "aborted"} : ctx' = (ctx \o Flushed) \o <<Asst(0, s)>>
    <2> WITNESS 0 \in 0 .. 1, 1 \in 0 .. 1
    <2> QED BY <1>5, <1>8, <1>10
  <1>11. CASE \E s \in {"error", "flaky", "aborted"} : ctx' = Append(ctx, Asst(0, s)) \o Flushed
    <2> WITNESS 1 \in 0 .. 1, 0 \in 0 .. 1
    <2> QED BY <1>6, <1>8, <1>11
  <1> QED BY <1>7, <1>9, <1>10, <1>11

LEMMA BreakRunAdds ==
  ASSUME TypeInv, BreakRun
  PROVE  Extended /\ Added = {Len(ctx) + 1} /\ ctx'[Len(ctx) + 1] \in Rejections
  <1>1. PICK s \in {"error", "aborted"} : ctx' = Append(ctx, Asst(0, s))
    BY DEF BreakRun, RunBreaks
  <1>2. Asst(0, s) \in Entry /\ Asst(0, s) \in Rejections
    BY RejectionEntries
  <1> QED BY <1>1, <1>2, AppendExtended

\* What the end of a turn records are custom messages and a rejected answer.
LEMMA EndTurnKinds ==
  ASSUME TypeInv, EndTurn
  PROVE  Extended /\ (\A i \in Added : ctx'[i] \in Notes \/ ctx'[i] \in Rejections)
         /\ \A i, j \in Added : ctx'[i].kind = "asst" /\ ctx'[j].kind = "asst" => i = j
  <1>1. PICK b \in 0 .. 1, a \in 0 .. 1 :
           /\ b + a <= 1 /\ Len(ctx') = Len(ctx) + b + Len(customs) + a
           /\ \A k \in DOMAIN customs : ctx'[Len(ctx) + b + k] = Custom(customs[k])
           /\ \A i \in Added : i <= Len(ctx) + b \/ i > Len(ctx) + b + Len(customs)
                                 => ctx'[i] \in Rejections
    BY EndTurnAdds
  <1>2. Extended
    BY LoopExtended DEF LoopActs
  <1>3. /\ customs \in Seq(Customs) /\ DOMAIN customs = 1 .. Len(customs) /\ Len(customs) \in Nat
        /\ Len(ctx) \in Nat
    BY <1>2, SessionFacts, LenProperties DEF Extended
  <1>4. ASSUME NEW i \in Added, ~(i <= Len(ctx) + b \/ i > Len(ctx) + b + Len(customs))
        PROVE  ctx'[i] \in Notes
    <2>1. /\ i - Len(ctx) - b \in DOMAIN customs /\ Len(ctx) + b + (i - Len(ctx) - b) = i
      BY <1>3, <1>4 DEF Added
    <2>2. ctx'[i] = Custom(customs[i - Len(ctx) - b])
      BY <1>1, <2>1
    <2>3. customs[i - Len(ctx) - b] \in Customs
      BY <1>3, <2>1, ElementOfSeq
    <2> QED BY <2>2, <2>3 DEF Custom, Notes
  <1>5. ASSUME NEW i \in Added, NEW j \in Added, ctx'[i].kind = "asst", ctx'[j].kind = "asst"
        PROVE  i = j
    <2>1. /\ i <= Len(ctx) + b \/ i > Len(ctx) + b + Len(customs)
          /\ j <= Len(ctx) + b \/ j > Len(ctx) + b + Len(customs)
      BY <1>4, <1>5 DEF Notes
    <2> QED BY <1>1, <1>3, <2>1 DEF Added
  <1> QED BY <1>1, <1>2, <1>4, <1>5

\* Every result answers a call of the message it follows.
ResultsAnswer ==
  \A i \in DOMAIN ctx : ctx[i].kind = "result" =>
    LET a == i - ctx[i].call
    IN a \in DOMAIN ctx /\ IsCall(a) /\ i \in Answers(a) /\ ctx[i].call <= ctx[a].calls

LEMMA ResultCalls ==
  ASSUME TypeInv
  PROVE  \A i \in DOMAIN ctx : /\ ctx[i] \in Entry
                               /\ ctx[i].kind = "result" => ctx[i].call \in Nat \ {0}
                               /\ ctx[i].kind = "asst" => ctx[i].calls \in Nat
  <1> TAKE i \in DOMAIN ctx
  <1>1. ctx[i] \in Entry
    BY BatchFacts, ElementOfSeq
  <1>2. ctx[i].kind = "result" => ctx[i].call \in 1 .. MaxCalls
    BY <1>1 DEF Entry
  <1>3. ctx[i].kind = "asst" => ctx[i].calls \in 0 .. MaxCalls
    BY <1>1 DEF Entry
  <1> QED BY <1>1, <1>2, <1>3, LoopAssumption

LEMMA ResultIs ==
  \A e, i, how : e = Result(i, how) => e.kind = "result" /\ e.call = i /\ e.how = how
  BY DEF Result

\* New results that follow the message whose calls they answer.
LEMMA ResultsGrow ==
  ASSUME TypeInv, ResultsAnswer, Extended, NEW a \in Nat,
         \A i \in Added : ctx'[i].kind = "result" =>
           /\ a \in DOMAIN ctx' /\ ctx'[a].kind = "asst"
           /\ ctx'[i].call \in Nat \ {0} /\ i - ctx'[i].call = a /\ ctx'[i].call <= ctx'[a].calls
           /\ ctx'[a].calls \in Nat /\ \A k \in a + 1 .. i : ctx'[k].kind = "result"
  PROVE  ResultsAnswer'
  <1> SUFFICES ASSUME NEW i \in DOMAIN ctx', ctx'[i].kind = "result"
               PROVE  /\ i - ctx'[i].call \in DOMAIN ctx'
                      /\ ctx'[i - ctx'[i].call].kind = "asst" /\ ctx'[i - ctx'[i].call].calls > 0
                      /\ i > i - ctx'[i].call
                      /\ \A k \in i - ctx'[i].call + 1 .. i : ctx'[k].kind = "result"
                      /\ ctx'[i].call <= ctx'[i - ctx'[i].call].calls
    BY DEF ResultsAnswer, IsCall, Answers
  <1>1. /\ Len(ctx) \in Nat /\ Len(ctx') \in Nat /\ Len(ctx) <= Len(ctx')
        /\ DOMAIN ctx = 1 .. Len(ctx) /\ DOMAIN ctx' = 1 .. Len(ctx')
        /\ \A k \in 1 .. Len(ctx) : ctx'[k] = ctx[k]
    BY DEF Extended
  <1>2. CASE i \in Added
    BY <1>1, <1>2 DEF Added
  <1>3. CASE i \notin Added
    <2>1. i \in DOMAIN ctx /\ ctx'[i] = ctx[i]
      BY <1>1, <1>3 DEF Added
    <2>2. PICK b : b = i - ctx[i].call
      OBVIOUS
    <2>3. /\ b \in DOMAIN ctx /\ ctx[b].kind = "asst" /\ ctx[b].calls > 0
          /\ i > b /\ (\A k \in b + 1 .. i : ctx[k].kind = "result") /\ ctx[i].call <= ctx[b].calls
      BY <2>1, <2>2 DEF ResultsAnswer, IsCall, Answers
    <2>4. ctx'[b] = ctx[b] /\ b \in DOMAIN ctx'
      BY <1>1, <2>3
    <2>5. \A k \in b + 1 .. i : ctx'[k] = ctx[k]
      BY <1>1, <2>1, <2>3
    <2> QED BY <2>1, <2>2, <2>3, <2>4, <2>5
  <1> QED BY <1>2, <1>3

\* Nothing but results in a step that ends a call.
LEMMA OneResult ==
  ASSUME TypeInv, OpenInv, ResultsAnswer, Working, ~batch.par, NEW how \in Hows,
         batch.next <= Len(batch.st), ctx' = Append(ctx, Result(batch.next, how))
  PROVE  ResultsAnswer'
  <1>1. /\ Open = Len(ctx) - (batch.next - 1)
        /\ Open \in DOMAIN ctx /\ ctx[Open].kind = "asst" /\ ctx[Open].calls = Len(batch.st)
        /\ \A k \in Open + 1 .. Len(ctx) : ctx[k].kind = "result"
    BY DEF OpenInv, Open
  <1>2. PICK a, n : a = Open /\ n = batch.next
    OBVIOUS
  <1>3. /\ n \in Nat \ {0} /\ n <= Len(batch.st) /\ Len(batch.st) \in Nat /\ Len(batch.st) <= MaxCalls
        /\ Len(ctx) \in Nat /\ DOMAIN ctx = 1 .. Len(ctx) /\ a = Len(ctx) - (n - 1)
    BY <1>1, <1>2, BatchFacts
  <1>4. Result(n, how) \in Entry
    <2>1. n \in 1 .. MaxCalls
      BY <1>3, LoopAssumption
    <2> QED BY <2>1, Entries
  <1>5. /\ Extended /\ Added = {Len(ctx) + 1} /\ ctx'[Len(ctx) + 1] = Result(n, how)
        /\ Len(ctx') = Len(ctx) + 1
    BY <1>2, <1>4, AppendExtended
  <1>6. a \in Nat /\ a \in DOMAIN ctx' /\ ctx'[a] = ctx[a]
    BY <1>1, <1>2, <1>3, <1>5 DEF Extended
  <1>7. \A k \in a + 1 .. Len(ctx) + 1 : ctx'[k].kind = "result"
    <2> TAKE k \in a + 1 .. Len(ctx) + 1
    <2>1. CASE k = Len(ctx) + 1
      BY <1>5, <2>1 DEF Result
    <2>2. CASE k # Len(ctx) + 1
      <3>1. k \in a + 1 .. Len(ctx) /\ k \in 1 .. Len(ctx)
        BY <1>3, <1>6, <2>2
      <3> QED BY <1>1, <1>2, <1>5, <3>1 DEF Extended
    <2> QED BY <2>1, <2>2
  <1>8. Result(n, how).call = n
    BY DEF Result
  <1>9. (Len(ctx) + 1) - n = a
    BY <1>3
  <1>10. ctx'[a].kind = "asst" /\ ctx'[a].calls = Len(batch.st)
    BY <1>1, <1>2, <1>6
  <1>11. ASSUME NEW i \in Added
         PROVE  /\ ctx'[i].call \in Nat \ {0} /\ i - ctx'[i].call = a /\ ctx'[i].call <= ctx'[a].calls
                /\ \A k \in a + 1 .. i : ctx'[k].kind = "result"
    <2>1. i = Len(ctx) + 1
      BY <1>5
    <2>2. ctx'[i].call = n
      BY <1>5, <1>8, <2>1
    <2> QED BY <1>3, <1>7, <1>9, <1>10, <2>1, <2>2
  <1>12. ctx'[a].calls \in Nat
    BY <1>3, <1>10
  <1> QED BY <1>5, <1>6, <1>10, <1>11, <1>12, ResultsGrow

LEMMA ResultsNext == TypeInv /\ OpenInv /\ ResultsAnswer /\ [Next]_vars => ResultsAnswer'
  <1> SUFFICES ASSUME TypeInv, OpenInv, ResultsAnswer, [Next]_vars PROVE ResultsAnswer'
    OBVIOUS
  <1>1. ASSUME Extended, \A i \in Added : ctx'[i].kind # "result" PROVE ResultsAnswer'
    BY <1>1, ResultsGrow
  <1>2. ASSUME ctx' = ctx PROVE ResultsAnswer'
    BY <1>1, <1>2, SameExtended
  <1>3. ASSUME Noted PROVE ResultsAnswer'
    BY <1>1, <1>3, NotedExtended DEF Notes
  <1>4. CASE ~LoopActs
    <2>1. CASE Stays \/ Goes
      BY <1>3, <2>1 DEF Stays, Goes
    <2>2. CASE Begins \/ Ends
      BY <1>2, <2>2 DEF Begins, StartPrompt, Ends, EndRun
    <2> QED BY <1>4, <2>1, <2>2, OtherSteps
  <1>5. CASE RunStep
    <2>1. CASE Deliver
      <3>1. pend # <<>> /\ ctx' = Append(ctx, Delivered(Head(pend)))
        BY <2>1 DEF Deliver
      <3>2. Head(pend) \in QueuedMsg({"prompt", "steer", "follow"})
        BY <3>1, HeadTailProperties DEF TypeInv, LoopInv, LoopTypes
      <3>3. Delivered(Head(pend)) \in Entry /\ Delivered(Head(pend)).kind = "message"
        BY <3>2, Entries DEF Delivered
      <3> QED BY <1>1, <3>1, <3>3, AppendExtended
    <2>2. CASE FirstPoll \/ Prepared \/ OutOfBudget
      BY <1>2, <2>2 DEF FirstPoll, Prepared, OutOfBudget
    <2>3. ASSUME NEW s \in Failed \cup {"aborted"}, Refuse(s) PROVE ResultsAnswer'
      <3>1. ctx' = Append(ctx, Asst(0, s))
        BY <2>3 DEF Refuse
      <3>2. Asst(0, s) \in Entry /\ Asst(0, s).kind = "asst"
        <4>1. s \in Stops /\ 0 \in 0 .. MaxCalls
          BY LoopAssumption DEF Stops
        <4> QED BY <4>1, Entries DEF Asst
      <3> QED BY <1>1, <3>1, <3>2, AppendExtended
    <2>4. ASSUME NEW n \in 0 .. MaxCalls, NEW s \in {"stop", "length"}, NEW par \in BOOLEAN,
                 Answer(n, s, par)
          PROVE  ResultsAnswer'
      <3>1. /\ n \in Nat /\ ctx'[Len(ctx) + 1] = Asst(n, s)
            /\ Len(ctx') = Len(ctx) + 1 + (IF s = "length" THEN n ELSE 0)
            /\ \A i \in 1 .. Len(ctx') - Len(ctx) - 1 : ctx'[Len(ctx) + 1 + i] = Result(i, "fail")
        BY <2>4, AnswerIs
      <3>2. Extended
        BY <1>5, LoopExtended DEF LoopActs
      <3>3. PICK k \in Nat : k = (IF s = "length" THEN n ELSE 0) /\ k <= n
        BY <3>1
      <3>4. PICK l : l = Len(ctx)
        OBVIOUS
      <3>5. /\ l \in Nat /\ Len(ctx') = l + 1 + k /\ DOMAIN ctx' = 1 .. l + 1 + k
            /\ \A i \in 1 .. k : ctx'[l + 1 + i] = Result(i, "fail")
            /\ Added = l + 1 .. l + 1 + k
        BY <3>1, <3>2, <3>3, <3>4 DEF Extended, Added
      <3>6. ctx'[l + 1].kind = "asst" /\ ctx'[l + 1].calls = n /\ l + 1 \in DOMAIN ctx' /\ l + 1 \in Nat
        BY <3>1, <3>4, <3>5 DEF Asst
      <3>7. \A j \in l + 2 .. l + 1 + k : ctx'[j] = Result(j - (l + 1), "fail")
        <4> TAKE j \in l + 2 .. l + 1 + k
        <4>1. j - (l + 1) \in 1 .. k /\ l + 1 + (j - (l + 1)) = j
          BY <3>5
        <4> QED BY <3>5, <4>1
      <3>8. ASSUME NEW i \in Added, ctx'[i].kind = "result"
            PROVE  /\ ctx'[i].call \in Nat \ {0} /\ i - ctx'[i].call = l + 1 /\ ctx'[i].call <= n
                   /\ \A j \in l + 1 + 1 .. i : ctx'[j].kind = "result"
        <4>1. i # l + 1
          BY <3>6, <3>8
        <4>2. i \in l + 2 .. l + 1 + k
          BY <3>5, <4>1
        <4>3. ctx'[i].call = i - (l + 1)
          BY <3>7, <4>2, ResultIs, Zenon
        <4>4. \A j \in l + 1 + 1 .. i : ctx'[j].kind = "result"
          <5> TAKE j \in l + 1 + 1 .. i
          <5>1. j \in l + 2 .. l + 1 + k
            BY <3>5, <4>2
          <5>2. ctx'[j] = Result(j - (l + 1), "fail")
            BY <3>7, <5>1
          <5> QED BY <5>2 DEF Result
        <4> QED BY <3>1, <3>3, <3>5, <4>2, <4>3, <4>4
      <3> QED BY <3>1, <3>2, <3>6, <3>8, ResultsGrow
    <2>5. ASSUME NEW how \in Prep, PrepareCall(how) PROVE ResultsAnswer'
      <3>1. pc = "tools" /\ Working /\ batch.next <= Len(batch.st)
        BY <2>5, PrepareIs, BatchFacts DEF Working
      <3>2. CASE batch.par \/ how = "ready"
        BY <1>2, <2>5, <3>2, PrepareIs
      <3>3. CASE ~batch.par /\ how # "ready"
        BY <2>5, <3>1, <3>3, PrepareIs, OneResult
      <3> QED BY <3>2, <3>3
    <2>6. CASE CutBatch
      <3>1. ctx' = ctx
        BY <2>6 DEF CutBatch
      <3> QED BY <1>2, <3>1
    <2>7. ASSUME NEW i \in Calls, NEW how \in Hows, FinishCall(i, how)
          PROVE  ResultsAnswer'
      <3>1. pc = "executing" /\ Working
        BY <2>7, FinishIs DEF Working
      <3>2. CASE batch.par
        BY <1>2, <2>7, <3>2, FinishIs
      <3>3. CASE ~batch.par
        <4>1. i = batch.next /\ ctx' = Append(ctx, Result(batch.next, how)) /\ batch.next <= Len(batch.st)
          BY <2>7, <3>1, <3>3, FinishIs, BatchFacts
        <4> QED BY <3>1, <3>3, <4>1, OneResult
      <3> QED BY <3>2, <3>3
    <2>8. CASE CollectResults
      <3>1. PICK l, n : l = Len(ctx) /\ n = batch.next - 1
        OBVIOUS
      <3>2. /\ pc = "executing" /\ batch.par /\ Len(ctx') = l + n
            /\ \A i \in 1 .. n : ctx'[l + i] = Result(i, batch.st[i])
            /\ n \in Nat /\ n <= Len(batch.st) /\ l \in Nat /\ Len(batch.st) \in Nat
        <4>1. /\ Len(ctx') = Len(ctx) + batch.next - 1
              /\ \A i \in 1 .. batch.next - 1 : ctx'[Len(ctx) + i] = Result(i, batch.st[i])
              /\ pc = "executing" /\ batch.par
          BY <2>8, CollectIs
        <4>2. batch.next \in Nat \ {0} /\ batch.next <= Len(batch.st) + 1 /\ Len(batch.st) \in Nat
              /\ Len(ctx) \in Nat
          BY BatchFacts
        <4>3. n \in Nat /\ n <= Len(batch.st) /\ l \in Nat /\ Len(ctx) + batch.next - 1 = l + n
          BY <3>1, <4>2
        <4>4. Len(ctx') = l + n
          BY <4>1, <4>3, Zenon
        <4>5. \A i \in 1 .. n : ctx'[l + i] = Result(i, batch.st[i])
          BY <3>1, <4>1, Zenon
        <4>6. pc = "executing" /\ batch.par
          BY <4>1, Zenon
        <4>7. n \in Nat /\ n <= Len(batch.st) /\ l \in Nat /\ Len(batch.st) \in Nat
          BY <4>2, <4>3
        <4> QED BY <4>4, <4>5, <4>6, <4>7
      <3>3. l \in DOMAIN ctx /\ ctx[l].kind = "asst" /\ ctx[l].calls = Len(batch.st)
        <4>1. Open = l
          BY <3>1, <3>2 DEF Open
        <4> QED BY <3>2, <4>1 DEF OpenInv, Working
      <3>4. Extended
        BY <1>5, LoopExtended DEF LoopActs
      <3>5. l \in DOMAIN ctx' /\ ctx'[l] = ctx[l] /\ Added = l + 1 .. l + n
        BY <3>1, <3>2, <3>3, <3>4 DEF Extended, Added
      <3>6. \A j \in l + 1 .. l + n : ctx'[j].kind = "result" /\ ctx'[j].call = j - l
        <4> TAKE j \in l + 1 .. l + n
        <4>1. j - l \in 1 .. n /\ l + (j - l) = j
          BY <3>2
        <4>2. ctx'[l + (j - l)] = Result(j - l, batch.st[j - l])
          BY <3>2, <4>1, Zenon
        <4>3. ctx'[j] = Result(j - l, batch.st[j - l])
          BY <4>1, <4>2, Zenon
        <4>4. ctx'[j].kind = "result" /\ ctx'[j].call = j - l
          BY <4>3, ResultIs
        <4> QED BY <4>4, Zenon
      <3>7. ASSUME NEW i \in Added
            PROVE  /\ ctx'[i].call \in Nat \ {0} /\ i - ctx'[i].call = l /\ ctx'[i].call <= Len(batch.st)
                   /\ \A j \in l + 1 .. i : ctx'[j].kind = "result"
        <4>1. i \in l + 1 .. l + n /\ ctx'[i].call = i - l
          BY <3>5, <3>6
        <4>2. \A j \in l + 1 .. i : j \in l + 1 .. l + n
          BY <3>2, <4>1
        <4>3. \A j \in l + 1 .. i : ctx'[j].kind = "result"
          BY <3>6, <4>2, Zenon
        <4>4. i - l \in Nat \ {0} /\ i - (i - l) = l /\ i - l <= Len(batch.st)
          BY <3>2, <4>1
        <4> QED BY <4>1, <4>3, <4>4
      <3> QED BY <3>2, <3>3, <3>4, <3>5, <3>7, ResultsGrow, ZenonT(40)
    <2>9. ASSUME NEW continue, FinishTurn(continue) PROVE ResultsAnswer'
      BY <1>2, <2>9 DEF FinishTurn
    <2> QED
      BY <1>5, <2>1, <2>2, <2>3, <2>4, <2>5, <2>6, <2>7, <2>8, <2>9, Zenon DEF RunStep
  <1>6. CASE EndTurn
    <2>1. Extended /\ \A i \in Added : ctx'[i] \in Notes \/ ctx'[i] \in Rejections
      BY <1>6, EndTurnKinds
    <2> QED BY <1>1, <2>1 DEF Notes, Rejections
  <1>7. CASE BreakRun
    <2>1. Extended /\ \A i \in Added : ctx'[i] \in Rejections
      BY <1>7, BreakRunAdds
    <2> QED BY <1>1, <2>1 DEF Rejections
  <1> QED BY <1>4, <1>5, <1>6, <1>7 DEF LoopActs

\* Every call of the transcript has its result, unless something cut the turn
\* or its turn is the one in progress.
PromptPending == \E k \in DOMAIN pend : pend[k].via = "prompt"

AnsweredInv ==
  \A i \in DOMAIN ctx : IsCall(i) /\ ~PromptAfter(i) =>
    Answered(i) \/ thrown \/ stopReq \/ PromptPending \/ (Working /\ i = Open)

LEMMA AnsweredStep ==
  ASSUME TypeInv, Extended, AnsweredInv, NEW a, a = Open,
         thrown => thrown',
         stopReq => stopReq' \/ thrown' \/ PromptPending',
         PromptPending => \/ PromptPending' \/ thrown'
                          \/ \E j \in Added : ctx'[j].kind = "message" /\ ctx'[j].via = "prompt",
         Working => thrown' \/ stopReq' \/ (Working' /\ Open' = a) \/ Answered(a)',
         \A i \in Added : ctx'[i].kind = "asst" /\ ctx'[i].calls > 0 =>
           (Working' /\ Open' = i) \/ Answered(i)'
  PROVE  AnsweredInv'
  <1> SUFFICES ASSUME NEW i \in DOMAIN ctx', IsCall(i)', ~PromptAfter(i)',
                      ~thrown', ~stopReq', ~PromptPending', ~(Working' /\ i = Open')
               PROVE  Answered(i)'
    BY DEF AnsweredInv
  <1>1. /\ Len(ctx) \in Nat /\ Len(ctx') \in Nat /\ Len(ctx) <= Len(ctx')
        /\ DOMAIN ctx = 1 .. Len(ctx) /\ DOMAIN ctx' = 1 .. Len(ctx')
        /\ \A k \in 1 .. Len(ctx) : ctx'[k] = ctx[k]
    BY DEF Extended
  <1>2. CASE i \in Added
    BY <1>2 DEF IsCall
  <1>3. CASE i \notin Added
    <2>1. i \in DOMAIN ctx /\ ctx'[i] = ctx[i]
      BY <1>1, <1>3 DEF Added
    <2>2. IsCall(i)
      BY <2>1 DEF IsCall
    <2>3. ~PromptAfter(i)
      <3>1. ASSUME NEW j \in DOMAIN ctx, j > i, ctx[j].kind = "message", ctx[j].via = "prompt"
            PROVE  FALSE
        <4>1. j \in DOMAIN ctx' /\ ctx'[j] = ctx[j]
          BY <1>1
        <4> QED BY <3>1, <4>1 DEF PromptAfter
      <3> QED BY <3>1 DEF PromptAfter
    <2>4. ~(\E j \in Added : ctx'[j].kind = "message" /\ ctx'[j].via = "prompt")
      <3>1. \A j \in Added : j \in DOMAIN ctx' /\ j > i
        BY <1>1, <2>1 DEF Added
      <3> QED BY <3>1 DEF PromptAfter
    <2>5. ~thrown /\ ~stopReq /\ ~PromptPending
      BY <2>4
    <2>6. CASE Working /\ i = Open
      BY <2>6
    <2>7. CASE Answered(i)
      <3>1. ctx'[i].calls = ctx[i].calls
        BY <2>1
      <3>2. \A n \in 1 .. ctx[i].calls : i + n \in DOMAIN ctx' /\ i + n > i
              /\ \A k \in i + 1 .. i + n : ctx'[k].kind = "result"
        <4> TAKE n \in 1 .. ctx[i].calls
        <4>1. i + n \in DOMAIN ctx /\ i + n > i /\ \A k \in i + 1 .. i + n : ctx[k].kind = "result"
          BY <2>7 DEF Answered, Answers
        <4>2. \A k \in i + 1 .. i + n : ctx'[k] = ctx[k]
          BY <1>1, <2>1, <4>1
        <4> QED BY <1>1, <4>1, <4>2
      <3> QED BY <3>1, <3>2 DEF Answered, Answers
    <2> QED BY <2>1, <2>2, <2>3, <2>5, <2>6, <2>7 DEF AnsweredInv
  <1> QED BY <1>2, <1>3

\* A message whose calls are followed by that many results.
LEMMA AnsweredIs ==
  ASSUME NEW a \in Nat \ {0}, NEW n \in Nat, Len(ctx') \in Nat, DOMAIN ctx' = 1 .. Len(ctx'),
         ctx'[a].calls = n, a + n <= Len(ctx'),
         \A k \in a + 1 .. a + n : ctx'[k].kind = "result"
  PROVE  Answered(a)'
  <1>1. \A l \in 1 .. n : a + l \in DOMAIN ctx' /\ a + l > a
          /\ \A k \in a + 1 .. a + l : ctx'[k].kind = "result"
    OBVIOUS
  <1> QED BY <1>1 DEF Answered, Answers

\* The result of a call in a sequential batch, the last one included.
LEMMA OneResultOpen ==
  ASSUME TypeInv, OpenInv, Working, ~batch.par, NEW how \in Hows,
         batch.next <= Len(batch.st), ctx' = Append(ctx, Result(batch.next, how)),
         batch'.par = batch.par, batch'.next = batch.next + 1, NEW a, a = Open
  PROVE  Extended /\ (\A i \in Added : ctx'[i].kind = "result") /\ Open' = a
         /\ (batch.next = Len(batch.st) => Answered(a)')
  <1>1. /\ a = Len(ctx) - (batch.next - 1)
        /\ a \in DOMAIN ctx /\ ctx[a].calls = Len(batch.st)
        /\ \A k \in a + 1 .. Len(ctx) : ctx[k].kind = "result"
    BY DEF OpenInv, Open
  <1>2. PICK n, l : n = batch.next /\ l = Len(ctx)
    OBVIOUS
  <1>3. /\ n \in Nat \ {0} /\ n <= Len(batch.st) /\ Len(batch.st) \in Nat /\ Len(batch.st) <= MaxCalls
        /\ l \in Nat /\ DOMAIN ctx = 1 .. l /\ a = l - (n - 1)
    BY <1>1, <1>2, BatchFacts
  <1>4. Result(n, how) \in Entry
    <2>1. n \in 1 .. MaxCalls
      BY <1>3, LoopAssumption
    <2> QED BY <2>1, Entries
  <1>5. /\ Extended /\ Added = {l + 1} /\ ctx'[l + 1] = Result(n, how)
        /\ Len(ctx') = l + 1
    BY <1>2, <1>4, AppendExtended
  <1>6. \A i \in Added : ctx'[i].kind = "result"
    BY <1>5, ResultIs
  <1>7. Open' = a
    <2>1. ~batch'.par
      BY Zenon
    <2>2. Open' = Len(ctx') - (batch'.next - 1)
      BY <2>1, Zenon DEF Open
    <2>3. batch'.next = n + 1
      BY <1>2
    <2> QED BY <1>3, <1>5, <2>2, <2>3
  <1>8. ASSUME n = Len(batch.st) PROVE Answered(a)'
    <2>1. a \in 1 .. l /\ a + n = l + 1 /\ DOMAIN ctx' = 1 .. Len(ctx') /\ Len(ctx') = l + 1
          /\ a \in Nat \ {0}
      BY <1>1, <1>2, <1>3, <1>5 DEF Extended
    <2>2. ctx'[a].calls = n
      BY <1>1, <1>2, <1>5, <1>8, <2>1 DEF Extended
    <2>3. \A k \in a + 1 .. a + n : ctx'[k].kind = "result"
      <3> TAKE k \in a + 1 .. a + n
      <3>1. CASE k = l + 1
        BY <1>5, <3>1, ResultIs
      <3>2. CASE k # l + 1
        <4>1. k \in a + 1 .. l /\ k \in 1 .. l
          BY <1>3, <2>1, <3>2
        <4> QED BY <1>1, <1>2, <1>5, <4>1 DEF Extended
      <3> QED BY <3>1, <3>2
    <2>4. n \in Nat /\ a + n <= Len(ctx') /\ Len(ctx') \in Nat
      BY <1>3, <2>1
    <2> QED BY <2>1, <2>2, <2>3, <2>4, AnsweredIs
  <1> QED BY <1>2, <1>5, <1>6, <1>7, <1>8

LEMMA AnsweredNext ==
  TypeInv /\ PendInv /\ OpenInv /\ AnsweredInv /\ [Next]_vars => AnsweredInv'
  <1> SUFFICES ASSUME TypeInv, PendInv, OpenInv, AnsweredInv, [Next]_vars PROVE AnsweredInv'
    OBVIOUS
  <1>0. PICK a : a = Open
    OBVIOUS
  <1>1. ASSUME Extended, \A i \in Added : ctx'[i].kind = "asst" => ctx'[i].calls = 0,
               thrown' = thrown, stopReq => stopReq' \/ PromptPending', PromptPending => PromptPending',
               Working => stopReq' \/ (Working' /\ Open' = a) \/ Answered(a)'
        PROVE  AnsweredInv'
    BY <1>0, <1>1, AnsweredStep
  <1>2. ASSUME Extended, \A i \in Added : ctx'[i].kind = "asst" => ctx'[i].calls = 0, thrown'
        PROVE  AnsweredInv'
    BY <1>0, <1>2, AnsweredStep
  <1>3. pc = "off" => pend = <<>> /\ ~PromptPending /\ ~Working
    BY DEF PendInv, PromptPending, Working
  <1>4. CASE ~LoopActs
    <2>1. CASE Stays
      <3>1. /\ UNCHANGED <<pc, pend, batch, thrown>> /\ (pc # "off" => ctx' = ctx) /\ Noted
            /\ stopReq => stopReq'
        BY <2>1 DEF Stays
      <3>2. Extended /\ \A i \in Added : ctx'[i].kind # "asst"
        BY <3>1, NotedExtended DEF Notes
      <3>3. PromptPending => PromptPending'
        BY <3>1 DEF PromptPending
      <3>4. Working => Working' /\ Open' = a
        BY <1>0, <3>1 DEF Working, Open
      <3> QED BY <1>1, <3>1, <3>2, <3>3, <3>4
    <2>2. CASE Begins
      <3>1. PICK prompts \in Seq(QueuedMsg({"prompt"})) :
              prompts # <<>> /\ StartPrompt(prompts) /\ stopReq' = FALSE
        BY <2>2 DEF Begins
      <3>2. pc = "off" /\ pend' = prompts /\ thrown' = thrown /\ ctx' = ctx
        BY <3>1 DEF StartPrompt, Start
      <3>3. 1 \in DOMAIN prompts /\ prompts[1].via = "prompt"
        <4>1. Head(prompts) \in QueuedMsg({"prompt"}) /\ 1 \in DOMAIN prompts /\ Head(prompts) = prompts[1]
          BY <3>1, HeadTailProperties
        <4> QED BY <4>1 DEF QueuedMsg
      <3>4. PromptPending'
        BY <3>2, <3>3 DEF PromptPending
      <3> QED BY <1>1, <1>3, <3>2, <3>4, SameExtended
    <2>3. CASE Goes
      <3>1. PICK role : Continue(role) /\ Noted /\ stopReq' = stopReq
        BY <2>3 DEF Goes
      <3>2. pc = "off" /\ thrown' = thrown
        BY <3>1, Zenon DEF Continue, Start
      <3>3. Extended /\ \A i \in Added : ctx'[i].kind # "asst"
        BY <3>1, NotedExtended DEF Notes
      <3> QED BY <1>1, <1>3, <3>1, <3>2, <3>3
    <2>4. CASE Ends
      <3>1. /\ pc \in {"ended", "broken"} /\ ctx' = ctx /\ pend' = pend /\ thrown' = thrown
            /\ stopReq' = stopReq
        BY <2>4 DEF Ends, EndRun
      <3>2. ~Working /\ (PromptPending => PromptPending')
        BY <3>1 DEF Working, PromptPending
      <3> QED BY <1>1, <3>1, <3>2, SameExtended
    <2> QED BY <1>4, <2>1, <2>2, <2>3, <2>4, OtherSteps
  <1>5. LoopActs => stopReq' = stopReq
    BY DEF LoopActs, RunStep, EndTurn, BreakRun
  <1>6. aborted => stopReq
    BY DEF PendInv
  <1>7. CASE RunStep
    <2>0. stopReq' = stopReq
      BY <1>5, <1>7 DEF LoopActs
    <2>1. ASSUME ctx' = ctx, thrown' = thrown, PromptPending => PromptPending',
                 Working => stopReq' \/ (Working' /\ Open' = a) \/ Answered(a)'
          PROVE  AnsweredInv'
      BY <1>1, <2>0, <2>1, SameExtended
    <2>2. CASE Deliver
      <3>1. /\ pc \in {"prompting", "injecting"} /\ pend # <<>> /\ thrown' = thrown
            /\ ctx' = Append(ctx, Delivered(Head(pend))) /\ pend' = Tail(pend)
        BY <2>2 DEF Deliver
      <3>2. pend \in Seq(QueuedMsg({"prompt", "steer", "follow"}))
        BY DEF TypeInv, LoopInv, LoopTypes
      <3>3. /\ Head(pend) \in QueuedMsg({"prompt", "steer", "follow"}) /\ Head(pend) = pend[1]
            /\ Len(Tail(pend)) = Len(pend) - 1 /\ Len(pend) \in Nat /\ DOMAIN pend = 1 .. Len(pend)
            /\ DOMAIN Tail(pend) = 1 .. Len(pend) - 1
            /\ \A k \in 1 .. Len(pend) - 1 : Tail(pend)[k] = pend[k + 1]
        BY <3>1, <3>2, HeadTailProperties, LenProperties
      <3>4. /\ Delivered(Head(pend)) \in Entry /\ Delivered(Head(pend)).kind = "message"
            /\ Delivered(Head(pend)).via = pend[1].via
        BY <3>3, Entries DEF Delivered
      <3>5. Extended /\ Added = {Len(ctx) + 1} /\ ctx'[Len(ctx) + 1] = Delivered(Head(pend))
        BY <3>1, <3>4, AppendExtended
      <3>6. ASSUME NEW k \in DOMAIN pend, pend[k].via = "prompt", k # 1 PROVE PromptPending'
        <4>1. k - 1 \in 1 .. Len(pend) - 1 /\ (k - 1) + 1 = k
          BY <3>3, <3>6
        <4>2. k - 1 \in DOMAIN pend' /\ pend'[k - 1] = pend[k]
          <5>1. Tail(pend)[k - 1] = pend[(k - 1) + 1]
            BY <3>3, <4>1, Zenon
          <5> QED BY <3>1, <3>3, <4>1, <5>1
        <4> QED BY <3>6, <4>2 DEF PromptPending
      <3>7. PromptPending => \/ PromptPending'
                             \/ \E j \in Added : ctx'[j].kind = "message" /\ ctx'[j].via = "prompt"
        BY <3>4, <3>5, <3>6 DEF PromptPending
      <3>8. ~Working /\ \A i \in Added : ctx'[i].kind # "asst"
        BY <3>1, <3>4, <3>5 DEF Working
      <3> QED BY <1>0, <2>0, <3>1, <3>5, <3>7, <3>8, AnsweredStep
    <2>3. CASE FirstPoll \/ Prepared \/ OutOfBudget
      <3>1. /\ pc \in {"prompting", "between", "injecting"} /\ ctx' = ctx /\ thrown' = thrown
            /\ pend = <<>> \/ pend' = pend
        BY <2>3 DEF FirstPoll, Prepared, OutOfBudget
      <3>2. ~Working /\ (PromptPending => PromptPending')
        BY <3>1 DEF Working, PromptPending
      <3> QED BY <2>1, <3>1, <3>2
    <2>4. ASSUME NEW s \in Failed \cup {"aborted"}, Refuse(s) PROVE AnsweredInv'
      <3>1. ctx' = Append(ctx, Asst(0, s)) /\ pend' = pend /\ thrown' = thrown /\ pc = "injecting"
        BY <2>4 DEF Refuse, Requesting
      <3>2. Asst(0, s) \in Entry /\ Asst(0, s).calls = 0
        <4>1. s \in Stops /\ 0 \in 0 .. MaxCalls
          BY LoopAssumption DEF Stops
        <4> QED BY <4>1, Entries DEF Asst
      <3>3. Extended /\ \A i \in Added : ctx'[i].calls = 0
        BY <3>1, <3>2, AppendExtended
      <3>4. ~Working /\ (PromptPending => PromptPending')
        BY <3>1 DEF Working, PromptPending
      <3> QED BY <1>1, <2>0, <3>1, <3>3, <3>4
    <2>5. ASSUME NEW n \in 0 .. MaxCalls, NEW s \in {"stop", "length"}, NEW par \in BOOLEAN,
                 Answer(n, s, par)
          PROVE  AnsweredInv'
      <3>1. /\ n \in Nat /\ ctx'[Len(ctx) + 1] = Asst(n, s)
            /\ Len(ctx') = Len(ctx) + 1 + (IF s = "length" THEN n ELSE 0)
            /\ \A i \in 1 .. Len(ctx') - Len(ctx) - 1 : ctx'[Len(ctx) + 1 + i] = Result(i, "fail")
            /\ pc' \in {"turnEnd", "tools"}
            /\ pc' = "tools" => s # "length" /\ batch'.next = 1
            /\ pc' = "turnEnd" => n = 0 \/ s = "length"
        BY <2>5, AnswerIs
      <3>2. pend' = pend /\ thrown' = thrown /\ pc = "injecting"
        BY <2>5, Zenon DEF Answer, Requesting
      <3>3. Extended
        BY <1>7, LoopExtended DEF LoopActs
      <3>4. PICK l : l = Len(ctx)
        OBVIOUS
      <3>5. l \in Nat /\ Len(ctx') \in Nat /\ DOMAIN ctx' = 1 .. Len(ctx') /\ Added = l + 1 .. Len(ctx')
        BY <3>3, <3>4 DEF Extended, Added
      <3>6. ctx'[l + 1].kind = "asst" /\ ctx'[l + 1].calls = n
        BY <3>1, <3>4 DEF Asst
      <3>7. ASSUME NEW i \in Added, i # l + 1 PROVE ctx'[i].kind = "result"
        <4>1. i - l - 1 \in 1 .. Len(ctx') - l - 1 /\ l + 1 + (i - l - 1) = i
          BY <3>5, <3>7
        <4>2. ctx'[l + 1 + (i - l - 1)] = Result(i - l - 1, "fail")
          BY <3>1, <3>4, <4>1
        <4>3. ctx'[i] = Result(i - l - 1, "fail")
          BY <4>1, <4>2, Zenon
        <4> QED BY <4>3, ResultIs
      <3>8. (n > 0 => Working' /\ Open' = l + 1) \/ Answered(l + 1)'
        <4>1. CASE pc' = "tools"
          <5>1. Len(ctx') = l + 1 /\ batch'.next = 1
            <6>1. s # "length" /\ batch'.next = 1
              BY <3>1, <4>1
            <6>2. Len(ctx') = Len(ctx) + 1 + 0
              BY <3>1, <6>1
            <6> QED BY <3>4, <3>5, <6>1, <6>2
          <5>2. Open' = l + 1
            BY <3>5, <5>1 DEF Open
          <5> QED BY <4>1, <5>2 DEF Working
        <4>2. CASE s = "length"
          <5>1. Len(ctx') = l + 1 + n
            BY <3>1, <3>4, <4>2
          <5>2. \A k \in l + 1 + 1 .. l + 1 + n : k \in Added /\ k # l + 1
            BY <3>5, <5>1
          <5>3. \A k \in l + 1 + 1 .. l + 1 + n : ctx'[k].kind = "result"
            BY <3>7, <5>2, Zenon
          <5>4. l + 1 \in Nat \ {0} /\ l + 1 + n <= Len(ctx')
            BY <3>1, <3>5, <5>1
          <5> QED BY <3>1, <3>5, <3>6, <5>3, <5>4, AnsweredIs
        <4> QED BY <3>1, <4>1, <4>2
      <3>9. \A i \in Added : ctx'[i].kind = "asst" /\ ctx'[i].calls > 0 =>
              (Working' /\ Open' = i) \/ Answered(i)'
        <4> TAKE i \in Added
        <4>1. ctx'[i].kind = "asst" => i = l + 1
          BY <3>7
        <4> QED BY <3>6, <3>8, <4>1
      <3>10. ~Working /\ (PromptPending => PromptPending')
        BY <3>2 DEF Working, PromptPending
      <3> QED BY <1>0, <2>0, <3>2, <3>3, <3>9, <3>10, AnsweredStep
    <2>6. ASSUME NEW how \in Hows, Working, ~batch.par, batch.next <= Len(batch.st),
                 ctx' = Append(ctx, Result(batch.next, how)),
                 batch'.par = batch.par, batch'.next = batch.next + 1, pc' \in {"tools", "turnEnd"},
                 pc' = "turnEnd" => aborted \/ batch.next = Len(batch.st),
                 pend' = pend, thrown' = thrown
          PROVE  AnsweredInv'
      <3>1. Extended /\ (\A i \in Added : ctx'[i].kind = "result") /\ Open' = a
            /\ (batch.next = Len(batch.st) => Answered(a)')
        BY <1>0, <2>6, OneResultOpen
      <3>2. stopReq' \/ (Working' /\ Open' = a) \/ Answered(a)'
        <4>1. CASE pc' = "tools"
          BY <3>1, <4>1 DEF Working
        <4>2. CASE pc' = "turnEnd"
          BY <1>6, <2>0, <2>6, <3>1, <4>2
        <4> QED BY <2>6, <4>1, <4>2
      <3>3. PromptPending => PromptPending'
        BY <2>6 DEF PromptPending
      <3>4. \A i \in Added : ctx'[i].kind # "asst"
        BY <3>1
      <3> QED BY <1>1, <2>0, <2>6, <3>1, <3>2, <3>3, <3>4
    <2>7. ASSUME NEW how \in Prep, PrepareCall(how) PROVE AnsweredInv'
      <3>1. pc = "tools" /\ Working /\ batch.next <= Len(batch.st)
        BY <2>7, PrepareIs, BatchFacts DEF Working
      <3>2. pend' = pend /\ thrown' = thrown
        BY <2>7, Zenon DEF PrepareCall
      <3>3. CASE batch.par \/ how = "ready"
        <4>1. ctx' = ctx /\ pc' \in {"tools", "executing"} /\ batch'.par = batch.par
              /\ (~batch.par => batch'.next = batch.next)
          BY <2>7, <3>3, PrepareIs
        <4>2. Working' /\ Open' = a
          BY <1>0, <4>1 DEF Working, Open
        <4>3. PromptPending => PromptPending'
          BY <3>2 DEF PromptPending
        <4> QED BY <2>1, <3>2, <4>1, <4>2, <4>3
      <3>4. CASE ~batch.par /\ how # "ready"
        BY <2>6, <2>7, <3>1, <3>2, <3>4, PrepareIs
      <3> QED BY <3>3, <3>4
    <2>8. CASE CutBatch
      <3>1. /\ pc = "tools" /\ aborted /\ ctx' = ctx /\ pend' = pend /\ thrown' = thrown
        BY <2>8, Zenon DEF CutBatch
      <3>2. stopReq'
        BY <1>6, <2>0, <3>1
      <3>3. PromptPending => PromptPending'
        BY <3>1 DEF PromptPending
      <3> QED BY <2>1, <3>1, <3>2, <3>3
    <2>9. ASSUME NEW i \in Calls, NEW how \in Hows, FinishCall(i, how)
          PROVE  AnsweredInv'
      <3>1. pc = "executing" /\ Working /\ pend' = pend /\ thrown' = thrown
        <4>1. pc = "executing" /\ pend' = pend /\ thrown' = thrown
          BY <2>9, Zenon DEF FinishCall
        <4> QED BY <4>1 DEF Working
      <3>2. CASE batch.par
        <4>1. ctx' = ctx /\ pc' = pc /\ batch'.par = batch.par
          BY <2>9, <3>2, FinishIs
        <4>2. Working' /\ Open' = a
          BY <1>0, <3>1, <3>2, <4>1 DEF Working, Open
        <4>3. PromptPending => PromptPending'
          BY <3>1 DEF PromptPending
        <4> QED BY <2>1, <3>1, <4>1, <4>2, <4>3
      <3>3. CASE ~batch.par
        <4>1. /\ i = batch.next /\ ctx' = Append(ctx, Result(batch.next, how))
              /\ batch.next <= Len(batch.st) /\ batch'.par = batch.par
              /\ batch'.next = batch.next + 1 /\ pc' \in {"tools", "turnEnd"}
              /\ pc' = "turnEnd" => aborted \/ batch.next = Len(batch.st)
          BY <2>9, <3>1, <3>3, FinishIs, BatchFacts
        <4> QED BY <2>6, <3>1, <3>3, <4>1
      <3> QED BY <3>2, <3>3
    <2>10. CASE CollectResults
      <3>1. /\ pc = "executing" /\ batch.par /\ Len(ctx') = Len(ctx) + batch.next - 1
            /\ \A i \in 1 .. batch.next - 1 : ctx'[Len(ctx) + i] = Result(i, batch.st[i])
        BY <2>10, CollectIs
      <3>2. pend' = pend /\ thrown' = thrown
        BY <2>10 DEF CollectResults
      <3>3. Extended
        BY <1>7, LoopExtended DEF LoopActs
      <3>4. PICK n : n = batch.next - 1
        OBVIOUS
      <3>5. /\ n \in Nat /\ n <= Len(batch.st) /\ Len(batch.st) \in Nat /\ Len(ctx) \in Nat
            /\ batch.next = n + 1
        BY <3>4, BatchFacts
      <3>6. Working /\ a = Len(ctx) /\ a \in DOMAIN ctx /\ ctx[a].calls = Len(batch.st)
        <4>1. Working /\ Open = Len(ctx)
          BY <3>1, <3>5 DEF Working, Open
        <4> QED BY <1>0, <4>1 DEF OpenInv
      <3>7. Len(ctx') = a + n /\ \A i \in 1 .. n : ctx'[a + i] = Result(i, batch.st[i])
        <4>1. Len(ctx) + batch.next - 1 = a + n /\ batch.next - 1 = n
          BY <3>5, <3>6
        <4> QED BY <3>1, <3>6, <4>1
      <3>8. \A k \in a + 1 .. a + n : ctx'[k].kind = "result"
        <4> TAKE k \in a + 1 .. a + n
        <4>1. k - a \in 1 .. n /\ a + (k - a) = k
          BY <3>5, <3>6
        <4>2. ctx'[a + (k - a)] = Result(k - a, batch.st[k - a])
          BY <3>7, <4>1, Zenon
        <4>3. ctx'[k] = Result(k - a, batch.st[k - a])
          BY <4>1, <4>2, Zenon
        <4> QED BY <4>3, ResultIs
      <3>9. Added = a + 1 .. a + n
        BY <3>6, <3>7 DEF Added
      <3>10. stopReq' \/ Answered(a)'
        <4>1. batch.next > Len(batch.st) \/ stopReq
          BY <3>1, Zenon DEF OpenInv
        <4>2. CASE batch.next > Len(batch.st)
          <5>1. n = Len(batch.st) /\ a + n <= Len(ctx') /\ a \in Nat \ {0} /\ ctx'[a].calls = n
                /\ Len(ctx') \in Nat /\ DOMAIN ctx' = 1 .. Len(ctx')
            BY <3>3, <3>5, <3>6, <3>7, <4>2 DEF Extended
          <5> QED BY <3>5, <3>8, <5>1, AnsweredIs
        <4> QED BY <2>0, <4>1, <4>2
      <3>11. PromptPending => PromptPending'
        BY <3>2 DEF PromptPending
      <3>12. \A i \in Added : ctx'[i].kind # "asst"
        BY <3>8, <3>9
      <3> QED BY <1>1, <2>0, <3>2, <3>3, <3>10, <3>11, <3>12
    <2>11. ASSUME NEW continue, FinishTurn(continue) PROVE AnsweredInv'
      <3>1. pc = "turnEnd" /\ ctx' = ctx /\ pend' = pend /\ thrown' = thrown
        BY <2>11 DEF FinishTurn
      <3>2. ~Working /\ (PromptPending => PromptPending')
        BY <3>1 DEF Working, PromptPending
      <3> QED BY <2>1, <3>1, <3>2
    <2> QED
      BY <1>7, <2>2, <2>3, <2>4, <2>5, <2>7, <2>8, <2>9, <2>10, <2>11, Zenon DEF RunStep
  <1>8. CASE EndTurn
    <2>0. Extended /\ \A i \in Added : ctx'[i].kind = "asst" => ctx'[i].calls = 0
      BY <1>8, EndTurnKinds DEF Notes, Rejections
    <2>1. ASSUME NEW stop, NEW repeated, TurnEnd(stop, repeated, Flushed) PROVE AnsweredInv'
      <3>1. pc = "polling" /\ thrown' = thrown
        BY <2>1, Zenon DEF TurnEnd
      <3>2. ~Working /\ ~PromptPending
        BY <3>1 DEF Working, PendInv, PromptPending
      <3> QED BY <1>1, <1>5, <1>8, <2>0, <3>1, <3>2 DEF LoopActs
    <2>2. ASSUME FailedTurnEnd(Flushed) PROVE AnsweredInv'
      <3>1. pc = "failedTurn" /\ pend' = pend /\ thrown' = thrown
        BY <2>2 DEF FailedTurnEnd
      <3>2. ~Working /\ ~PromptPending
        BY <3>1 DEF Working, PendInv, PromptPending
      <3> QED BY <1>1, <1>5, <1>8, <2>0, <3>1, <3>2 DEF LoopActs
    <2>3. ASSUME NEW s, RunFails(s, Flushed) PROVE AnsweredInv'
      <3>1. thrown'
        BY <2>3 DEF RunFails
      <3> QED BY <1>2, <2>0, <3>1
    <2> QED BY <1>8, <2>1, <2>2, <2>3, Zenon DEF EndTurn
  <1>9. CASE BreakRun
    <2>1. Extended /\ \A i \in Added : ctx'[i].calls = 0
      BY <1>9, BreakRunAdds DEF Rejections
    <2>2. thrown'
      BY <1>9 DEF BreakRun, RunBreaks
    <2> QED BY <1>2, <2>1, <2>2
  <1> QED BY <1>4, <1>7, <1>8, <1>9 DEF LoopActs

\* Providers accept the transcript: results come right after the message whose
\* calls they answer, and a request goes out only when every call has its result
\* (executeToolCalls*, sendCustomMessage, turn_end).
THEOREM TranscriptAlwaysValid == Spec => []TranscriptIsValid
  <1> DEFINE Inv == TypeInv /\ PendInv /\ OpenInv /\ StopInv /\ ResultsAnswer /\ AnsweredInv
  <1>1. Init => Inv
    <2>1. Init => ResultsAnswer /\ AnsweredInv
      BY DEF Init, LoopInit, ResultsAnswer, AnsweredInv
    <2> QED BY <2>1, TypeInit, PendInit, OpenInit, StopInit
  <1>2. Inv /\ [Next]_vars => Inv'
    BY TypeNext, PendNext, OpenNext, StopNext, ResultsNext, AnsweredNext
  <1>3. Inv => TranscriptIsValid
    <2> SUFFICES ASSUME Inv PROVE TranscriptIsValid
      OBVIOUS
    <2>1. ASSUME Requesting, ~aborted, ~thrown
          PROVE  \A i \in DOMAIN ctx : IsCall(i) /\ ~PromptAfter(i) => Answered(i)
      <3>1. pc = "injecting" /\ pend = <<>> /\ ~Working /\ ~PromptPending
        BY <2>1 DEF Requesting, Working, PromptPending
      <3>2. sc = "run"
        BY <3>1, SessionFacts
      <3>3. ~stopReq
        BY <2>1, <3>2 DEF StopInv
      <3> QED BY <2>1, <3>1, <3>3 DEF AnsweredInv
    <2> QED BY <2>1 DEF TranscriptIsValid, ResultsAnswer
  <1> QED BY <1>1, <1>2, <1>3, PTL DEF Spec

-----------------------------------------------------------------------------
(* The recovery of an overflow.  An omitted attempt is remembered until the *)
(* user speaks or an answer succeeds; a retry omits no attempt of that kind.*)

RecoverInv ==
  \A i \in DOMAIN ctx :
    Truncated(i) => tried \/ \E k \in DOMAIN ctx : k > i /\ Resets(k)

FlakyInv == last = "flaky" => ctx[LastAsst].stop \notin {"overflow", "length"}

\* The last answer after a step.
LEMMA LastAsstNext ==
  ASSUME Extended, NEW i \in DOMAIN ctx', ctx'[i].kind = "asst",
         \A j \in DOMAIN ctx' : j > i => ctx'[j].kind # "asst"
  PROVE  LastAsst' = i
  <1>1. DOMAIN ctx' = 1 .. Len(ctx') /\ Len(ctx') \in Nat
    BY DEF Extended
  <1>2. ASSUME NEW k \in DOMAIN ctx', ctx'[k].kind = "asst",
               \A j \in DOMAIN ctx' : j > k => ctx'[j].kind # "asst"
        PROVE  k = i
    BY <1>1, <1>2
  <1> QED BY <1>2 DEF LastAsst

\* A step of the loop adds nothing but results, or an answer and results, or
\* the message it delivers.
AddsMessage ==
  /\ Deliver /\ pend # <<>> /\ Head(pend) \in QueuedMsg({"prompt", "steer", "follow"})
  /\ Added = {Len(ctx) + 1} /\ ctx'[Len(ctx) + 1] = Delivered(Head(pend))
AddsAnswer ==
  /\ Requesting /\ Len(ctx) + 1 \in Added /\ ctx'[Len(ctx) + 1].kind = "asst"
  /\ \A i \in Added : i # Len(ctx) + 1 => ctx'[i].kind = "result"
AddsResults == \A i \in Added : ctx'[i].kind = "result"

LEMMA RunStepAdds ==
  ASSUME TypeInv, RunStep
  PROVE  /\ Extended
         /\ AddsMessage \/ AddsAnswer \/ AddsResults
  <1>0. Extended
    BY LoopExtended DEF LoopActs
  <1>1. ASSUME ctx' = ctx PROVE AddsResults
    BY <1>1, SameExtended DEF AddsResults
  <1>2. CASE Deliver
    <2>1. pend # <<>> /\ ctx' = Append(ctx, Delivered(Head(pend)))
      BY <1>2 DEF Deliver
    <2>2. Head(pend) \in QueuedMsg({"prompt", "steer", "follow"})
      BY <2>1, HeadTailProperties DEF TypeInv, LoopInv, LoopTypes
    <2>3. Added = {Len(ctx) + 1} /\ ctx'[Len(ctx) + 1] = Delivered(Head(pend))
      BY <2>1, <2>2, Entries, AppendExtended
    <2> QED BY <1>0, <1>2, <2>1, <2>2, <2>3 DEF AddsMessage
  <1>3. CASE FirstPoll \/ Prepared \/ OutOfBudget \/ CutBatch \/ \E continue : FinishTurn(continue)
    <2>1. ctx' = ctx
      BY <1>3, Zenon DEF FirstPoll, Prepared, OutOfBudget, CutBatch, FinishTurn
    <2> QED BY <1>0, <1>1, <2>1
  <1>4. ASSUME NEW s \in Failed \cup {"aborted"}, Refuse(s) PROVE AddsAnswer
    <2>1. ctx' = Append(ctx, Asst(0, s)) /\ Requesting
      BY <1>4 DEF Refuse
    <2>2. s \in Stops /\ 0 \in 0 .. MaxCalls
      BY LoopAssumption DEF Stops
    <2>3. Added = {Len(ctx) + 1} /\ ctx'[Len(ctx) + 1] = Asst(0, s)
      BY <2>1, <2>2, Entries, AppendExtended
    <2>4. ctx'[Len(ctx) + 1].kind = "asst"
      BY <2>3 DEF Asst
    <2> QED BY <2>1, <2>3, <2>4 DEF AddsAnswer
  <1>5. ASSUME NEW n \in 0 .. MaxCalls, NEW s \in {"stop", "length"}, NEW par \in BOOLEAN,
               Answer(n, s, par)
        PROVE  AddsAnswer
    <2>1. ASSUME NEW i \in Added, i # Len(ctx) + 1 PROVE ctx'[i].kind = "result"
      <3>1. i - Len(ctx) - 1 \in 1 .. Len(ctx') - Len(ctx) - 1 /\ Len(ctx) + 1 + (i - Len(ctx) - 1) = i
        BY <1>0, <2>1 DEF Extended, Added
      <3>2. ctx'[Len(ctx) + 1 + (i - Len(ctx) - 1)] = Result(i - Len(ctx) - 1, "fail")
        BY <1>5, <3>1, AnswerIs
      <3>3. ctx'[i] = Result(i - Len(ctx) - 1, "fail")
        BY <3>1, <3>2, Zenon
      <3> QED BY <3>3, ResultIs
    <2>2. /\ Requesting /\ ctx'[Len(ctx) + 1] = Asst(n, s)
          /\ Len(ctx') = Len(ctx) + 1 + (IF s = "length" THEN n ELSE 0) /\ n \in Nat
      BY <1>5, AnswerIs
    <2>3. Len(ctx) + 1 \in Added
      BY <1>0, <2>2 DEF Extended, Added
    <2>4. ctx'[Len(ctx) + 1].kind = "asst"
      BY <2>2 DEF Asst
    <2> QED BY <2>1, <2>2, <2>3, <2>4 DEF AddsAnswer
  <1>6. ASSUME NEW how \in Prep, PrepareCall(how) PROVE AddsResults
    <2>1. CASE ctx' = ctx
      BY <1>1, <2>1
    <2>2. CASE how # "ready" /\ ctx' = Append(ctx, Result(batch.next, how)) /\ pc = "tools"
      <3>1. batch.next \in 1 .. MaxCalls
        BY <2>2, BatchFacts, LoopAssumption
      <3>2. Result(batch.next, how) \in Entry
        BY <2>2, <3>1, Entries
      <3>3. Added = {Len(ctx) + 1} /\ ctx'[Len(ctx) + 1] = Result(batch.next, how)
        BY <2>2, <3>2, AppendExtended
      <3> QED BY <3>3, ResultIs DEF AddsResults
    <2> QED BY <1>6, <2>1, <2>2, PrepareIs
  <1>7. ASSUME NEW i \in Calls, NEW how \in Hows, FinishCall(i, how)
        PROVE  AddsResults
    <2>1. CASE ctx' = ctx
      BY <1>1, <2>1
    <2>2. CASE ctx' = Append(ctx, Result(i, how))
      <3>1. i \in 1 .. MaxCalls
        BY BatchFacts, LoopAssumption DEF Calls
      <3>2. Result(i, how) \in Entry
        BY <3>1, Entries
      <3>3. Added = {Len(ctx) + 1} /\ ctx'[Len(ctx) + 1] = Result(i, how)
        BY <2>2, <3>2, AppendExtended
      <3> QED BY <3>3, ResultIs DEF AddsResults
    <2> QED BY <1>7, <2>1, <2>2, FinishIs
  <1>8. ASSUME CollectResults PROVE AddsResults
    <2> SUFFICES ASSUME NEW j \in Added PROVE ctx'[j].kind = "result"
      BY DEF AddsResults
    <2>1. Len(ctx') = Len(ctx) + batch.next - 1 /\ batch.next \in Nat
      BY <1>8, CollectIs, BatchFacts
    <2>2. j - Len(ctx) \in 1 .. batch.next - 1 /\ Len(ctx) + (j - Len(ctx)) = j
      BY <1>0, <2>1 DEF Extended, Added
    <2>3. ctx'[Len(ctx) + (j - Len(ctx))] = Result(j - Len(ctx), batch.st[j - Len(ctx)])
      BY <1>8, <2>2, CollectIs
    <2>4. ctx'[j] = Result(j - Len(ctx), batch.st[j - Len(ctx)])
      BY <2>2, <2>3, Zenon
    <2> QED BY <2>4, ResultIs
  <1>9. \/ Deliver
        \/ FirstPoll \/ Prepared \/ OutOfBudget \/ CutBatch \/ \E continue : FinishTurn(continue)
        \/ \E s \in Failed \cup {"aborted"} : Refuse(s)
        \/ \E n \in 0 .. MaxCalls, s \in {"stop", "length"}, par \in BOOLEAN : Answer(n, s, par)
        \/ \E how \in {"ready", "fail", "stop"} : PrepareCall(how)
        \/ \E i \in Calls, how \in Hows : FinishCall(i, how)
        \/ CollectResults
    BY Zenon DEF RunStep
  <1> QED BY <1>0, <1>2, <1>3, <1>4, <1>5, <1>6, <1>7, <1>8, <1>9

LEMMA OneNewAnswer ==
  ASSUME TypeInv, LoopActs
  PROVE  \A i, j \in Added : ctx'[i].kind = "asst" /\ ctx'[j].kind = "asst" => i = j
  <1>1. CASE RunStep
    BY <1>1, RunStepAdds DEF AddsMessage, AddsAnswer, AddsResults
  <1>2. CASE EndTurn
    BY <1>2, EndTurnKinds
  <1>3. CASE BreakRun
    BY <1>3, BreakRunAdds
  <1> QED BY <1>1, <1>2, <1>3 DEF LoopActs

\* What the session hears of a step.
LEMMA HeardIs ==
  ASSUME TypeInv, Extended, Heard
  PROVE  /\ (\A i \in Added : ctx'[i].kind # "asst") => last' = last
         /\ (\E i \in Added : ctx'[i].kind = "asst") =>
              \E i \in Added : ctx'[i].kind = "asst" /\ last' = ctx'[i].stop
         /\ tried /\ ~tried' => \E i \in Added : Resets(i)'
  <1> DEFINE new   == {i \in DOMAIN ctx' : i > Len(ctx)}
             users == {ctx'[i].m : i \in {j \in new : ctx'[j].kind = "message"}} \cap Users
             assts == {i \in new : ctx'[i].kind = "asst"}
             a     == CHOOSE i \in assts : TRUE
             stop  == IF assts = {} THEN last ELSE ctx'[a].stop
  <1>1. /\ last' = stop
        /\ tried' = (tried /\ users = {} /\ (assts = {} \/ stop \in Failed \cup {"length"}))
    BY Zenon DEF Heard
  <1>2. new = Added
    BY DEF Extended, Added
  <1>3. assts # {} => a \in assts
    OBVIOUS
  <1>4. assts = {i \in Added : ctx'[i].kind = "asst"}
    BY <1>2, Zenon
  <1>5. (\A i \in Added : ctx'[i].kind # "asst") => last' = last
    BY <1>1, <1>4
  <1>6. ASSUME NEW i \in Added, ctx'[i].kind = "asst"
        PROVE  \E k \in Added : ctx'[k].kind = "asst" /\ last' = ctx'[k].stop
    <2>1. assts # {}
      BY <1>4, <1>6
    <2>2. a \in Added /\ ctx'[a].kind = "asst" /\ last' = ctx'[a].stop
      BY <1>1, <1>3, <1>4, <2>1
    <2> QED BY <2>2
  <1>7. ASSUME tried, ~tried' PROVE \E i \in Added : Resets(i)'
    <2>1. users # {} \/ (assts # {} /\ stop \notin Failed \cup {"length"})
      <3> HIDE DEF users, assts, stop
      <3> QED BY <1>1, <1>7, Zenon
    <2>2. CASE users # {}
      <3>1. PICK i \in Added : ctx'[i].kind = "message" /\ ctx'[i].m \in Users
        BY <1>2, <2>2
      <3> QED BY <3>1 DEF Resets
    <2>3. CASE assts # {} /\ stop \notin Failed \cup {"length"}
      <3>1. a \in Added /\ ctx'[a].kind = "asst" /\ ctx'[a].stop \notin Failed \cup {"length"}
        BY <1>3, <1>4, <2>3
      <3> HIDE DEF a
      <3> QED BY <3>1 DEF Resets
    <2> QED BY <2>1, <2>2, <2>3
  <1> QED BY <1>5, <1>6, <1>7

\* Steps that omit nothing, and forget an attempt only for a reason.
LEMMA RecoverGrows ==
  ASSUME TypeInv, Extended, RecoverInv, OverflowRetriedOnce, omitted' = omitted,
         tried /\ ~tried' => \E i \in Added : Resets(i)'
  PROVE  RecoverInv' /\ OverflowRetriedOnce'
  <1>1. /\ Len(ctx) \in Nat /\ Len(ctx') \in Nat /\ Len(ctx) <= Len(ctx')
        /\ DOMAIN ctx = 1 .. Len(ctx) /\ DOMAIN ctx' = 1 .. Len(ctx')
        /\ \A k \in DOMAIN ctx : k \in DOMAIN ctx' /\ ctx'[k] = ctx[k]
        /\ omitted \subseteq DOMAIN ctx
    BY RecoveryFacts DEF Extended
  <1>2. \A i : Truncated(i)' => i \in DOMAIN ctx /\ Truncated(i)
    BY <1>1 DEF Truncated
  <1>3. \A k \in DOMAIN ctx : k \in DOMAIN ctx' /\ (Resets(k) => Resets(k)')
    BY <1>1 DEF Resets
  <1>4. \A k \in Added, i \in DOMAIN ctx : k \in DOMAIN ctx' /\ k > i
    BY <1>1 DEF Added
  <1>5. ASSUME NEW i \in DOMAIN ctx', Truncated(i)'
        PROVE  tried' \/ \E k \in DOMAIN ctx' : k > i /\ Resets(k)'
    <2>1. i \in DOMAIN ctx /\ Truncated(i)
      BY <1>2, <1>5
    <2>2. tried \/ \E k \in DOMAIN ctx : k > i /\ Resets(k)
      BY <2>1 DEF RecoverInv
    <2> QED BY <1>3, <1>4, <2>1, <2>2
  <1>6. ASSUME NEW i \in DOMAIN ctx', NEW j \in DOMAIN ctx', i < j, Truncated(i)', Truncated(j)'
        PROVE  \E k \in DOMAIN ctx' : k > i /\ Resets(k)'
    <2>1. i \in DOMAIN ctx /\ Truncated(i) /\ j \in DOMAIN ctx /\ Truncated(j)
      BY <1>2, <1>6
    <2> QED BY <1>3, <1>6, <2>1 DEF OverflowRetriedOnce
  <1> QED BY <1>5, <1>6 DEF RecoverInv, OverflowRetriedOnce

LEMMA OtherRecovery ==
  ASSUME TypeInv, [Next]_vars, ~LoopActs
  PROVE  \/ UNCHANGED <<tried, last, omitted>>
         \/ PostRetry
         \/ PostCompact
  <1>1. CASE Outside \/ UNCHANGED vars
    <2>1. UNCHANGED <<tried, last, omitted>>
      BY <1>1 DEF vars, runVars, Outside, Prompt, PromptWhileSettling, QueueSteer, QueueFollowUp,
         CustomNextTurn, CustomQueued, CustomContext, CustomTriggers, CustomTriggersLater,
         ClearQueue, Abort
    <2> QED BY <2>1
  <1>2. CASE \/ StartRun \/ PreflightRefused \/ RunEnds \/ PostMidRun
             \/ \E slept \in BOOLEAN : BackoffEnds(slept)
             \/ \E ok \in BOOLEAN : CompactionEnds(ok)
             \/ \E handlers, asked \in BOOLEAN : BeforeSettle(handlers, asked)
             \/ Settle \/ SettledEnds \/ DeferredStarts \/ PromptReturns
    <2>1. UNCHANGED <<tried, last, omitted>>
      BY <1>2, Zenon DEF runVars, StartRun, PreflightRefused, RunEnds, PostMidRun, BackoffEnds,
         CompactionEnds, BeforeSettle, Settle, SettledEnds, DeferredStarts, PromptReturns
    <2> QED BY <2>1
  <1> QED BY <1>1, <1>2, Zenon DEF Next, Program, LoopActs

LEMMA OtherExtended ==
  ASSUME TypeInv, [Next]_vars, ~LoopActs
  PROVE  Extended /\ \A i \in Added : ctx'[i] \in Notes
  <1>1. CASE Stays \/ Goes
    <2>1. Noted
      BY <1>1 DEF Stays, Goes
    <2> QED BY <2>1, NotedExtended
  <1>2. CASE Begins \/ Ends
    <2>1. ctx' = ctx
      BY <1>2 DEF Begins, StartPrompt, Ends, EndRun
    <2> QED BY <2>1, SameExtended
  <1> QED BY <1>1, <1>2, OtherSteps

LEMMA FlakyNext == TypeInv /\ FlakyInv /\ [Next]_vars => FlakyInv'
  <1> SUFFICES ASSUME TypeInv, FlakyInv, [Next]_vars, last' = "flaky"
               PROVE  ctx'[LastAsst'].stop \notin {"overflow", "length"}
    BY DEF FlakyInv
  <1>1. ctx \in Seq(Entry) /\ (last # "none" => HasAnswer(ctx))
    BY DEF TypeInv, LoopInv, LoopTypes, SessionTypes
  <1>2. ASSUME Extended, last = "flaky", \A i \in Added : ctx'[i].kind # "asst"
        PROVE  ctx'[LastAsst'].stop \notin {"overflow", "length"}
    <2>1. PICK a : a = LastAsst
      OBVIOUS
    <2>2. /\ a \in DOMAIN ctx /\ ctx[a].kind = "asst"
          /\ \A j \in DOMAIN ctx : j > a => ctx[j].kind # "asst"
      BY <1>1, <1>2, <2>1, LastAsstIs
    <2>3. a \in DOMAIN ctx' /\ ctx'[a] = ctx[a]
      BY <1>2, <2>2 DEF Extended
    <2>4. \A j \in DOMAIN ctx' : j > a => ctx'[j].kind # "asst"
      <3> TAKE j \in DOMAIN ctx'
      <3>1. CASE j \in Added
        BY <1>2, <3>1
      <3>2. CASE j \notin Added
        <4>1. j \in DOMAIN ctx /\ ctx'[j] = ctx[j]
          BY <1>2, <3>2 DEF Extended, Added
        <4> QED BY <2>2, <4>1
      <3> QED BY <3>1, <3>2
    <2>5. LastAsst' = a
      BY <1>2, <2>2, <2>3, <2>4, LastAsstNext
    <2> QED BY <1>2, <2>1, <2>3, <2>5 DEF FlakyInv
  <1>3. ASSUME Extended, NEW i \in Added, ctx'[i].kind = "asst",
               \A j \in Added : ctx'[j].kind = "asst" => i = j
        PROVE  LastAsst' = i
    <2>1. i \in DOMAIN ctx' /\ \A j \in DOMAIN ctx' : j > i => j \in Added
      BY <1>3 DEF Extended, Added
    <2>2. \A j \in DOMAIN ctx' : j > i => ctx'[j].kind # "asst"
      <3> TAKE j \in DOMAIN ctx'
      <3> HAVE j > i
      <3>1. i # j
        BY <1>3 DEF Extended, Added
      <3> QED BY <1>3, <2>1, <3>1
    <2> QED BY <1>3, <2>1, <2>2, LastAsstNext
  <1>4. CASE ~LoopActs
    <2>1. Extended /\ \A i \in Added : ctx'[i].kind # "asst"
      BY <1>4, OtherExtended DEF Notes
    <2>2. last' = last
      <3>1. PostRetry \/ PostCompact => last' = "none"
        BY DEF PostRetry, PostCompact
      <3> QED BY <1>4, <3>1, OtherRecovery
    <2> QED BY <1>2, <2>1, <2>2
  <1>5. CASE RunStep \/ EndTurn
    <2>1. Extended /\ Heard
      BY <1>5, LoopExtended DEF LoopActs, RunStep, EndTurn
    <2>2. CASE \A i \in Added : ctx'[i].kind # "asst"
      BY <1>2, <2>1, <2>2, HeardIs
    <2>3. CASE \E i \in Added : ctx'[i].kind = "asst"
      <3>1. PICK i \in Added : ctx'[i].kind = "asst" /\ last' = ctx'[i].stop
        BY <2>1, <2>3, HeardIs
      <3>2. \A j \in Added : ctx'[j].kind = "asst" => i = j
        BY <1>5, <3>1, OneNewAnswer DEF LoopActs
      <3>3. LastAsst' = i
        BY <1>3, <2>1, <3>1, <3>2
      <3> QED BY <3>1, <3>3
    <2> QED BY <2>2, <2>3
  <1>6. CASE BreakRun
    <2>1. Extended /\ Added = {Len(ctx) + 1} /\ ctx'[Len(ctx) + 1] \in Rejections
      BY <1>6, BreakRunAdds
    <2>2. ctx'[Len(ctx) + 1].kind = "asst" /\ ctx'[Len(ctx) + 1].stop \notin {"overflow", "length"}
      BY <2>1 DEF Rejections
    <2>3. LastAsst' = Len(ctx) + 1
      BY <1>3, <2>1, <2>2
    <2> QED BY <2>2, <2>3
  <1> QED BY <1>4, <1>5, <1>6 DEF LoopActs

LEMMA RecoverNext ==
  TypeInv /\ FlakyInv /\ RecoverInv /\ OverflowRetriedOnce /\ [Next]_vars
    => RecoverInv' /\ OverflowRetriedOnce'
  <1> SUFFICES ASSUME TypeInv, FlakyInv, RecoverInv, OverflowRetriedOnce, [Next]_vars
               PROVE  RecoverInv' /\ OverflowRetriedOnce'
    OBVIOUS
  <1>1. CASE RunStep \/ EndTurn
    <2>1. Extended /\ Heard /\ omitted' = omitted
      BY <1>1, LoopExtended DEF LoopActs, RunStep, EndTurn
    <2> QED BY <2>1, HeardIs, RecoverGrows
  <1>2. CASE BreakRun
    <2>1. Extended /\ tried' = tried /\ omitted' = omitted
      BY <1>2, BreakRunAdds DEF BreakRun, runVars
    <2> QED BY <2>1, RecoverGrows
  <1>3. CASE ~LoopActs /\ UNCHANGED <<tried, last, omitted>>
    BY <1>3, OtherExtended, RecoverGrows
  <1>4. ASSUME Extended, ctx' = ctx, last # "none" PROVE LastAsst \in DOMAIN ctx /\ DOMAIN ctx = 1 .. Len(ctx)
    BY <1>4, RecoveryFacts
  <1>5. CASE PostRetry
    <2>1. /\ last = "flaky" /\ omitted' = omitted \cup {LastAsst} /\ ctx' = ctx /\ tried' = tried
      BY <1>5 DEF PostRetry, Wait, loopVars
    <2>2. ctx[LastAsst].stop \notin {"overflow", "length"}
      BY <2>1 DEF FlakyInv
    <2>3. \A i : Truncated(i)' => Truncated(i)
      BY <2>1, <2>2 DEF Truncated
    <2>4. \A k : Resets(k) => Resets(k)'
      BY <2>1 DEF Resets
    <2>5. RecoverInv'
      BY <2>1, <2>3, <2>4 DEF RecoverInv
    <2>6. OverflowRetriedOnce'
      BY <2>1, <2>3, <2>4 DEF OverflowRetriedOnce
    <2> QED BY <2>5, <2>6
  <1>6. CASE PostCompact /\ ~Recoverable
    <2>1. UNCHANGED <<tried, omitted>>
      BY <1>6, Zenon DEF PostCompact
    <2>2. PostCompact => ~LoopActs
      <3>1. PostCompact => sc = "post"
        BY DEF PostCompact
      <3>2. LoopActs => sc = "run"
        BY DEF LoopActs, RunStep, EndTurn, BreakRun
      <3> QED BY <3>1, <3>2
    <2> QED BY <1>6, <2>1, <2>2, OtherExtended, RecoverGrows
  <1>7. CASE PostCompact /\ Recoverable
    <2>1. last # "none" /\ ~tried
      BY <1>7 DEF Recoverable
    <2>2. \/ tried' = TRUE /\ Wait("compactRetry")
             /\ omitted' = omitted \cup {i \in LastAsst .. Len(ctx) : ctx[i].kind \in {"asst", "result"}}
          \/ UNCHANGED <<tried, omitted>>
      BY <1>7, Zenon DEF PostCompact
    <2>3. CASE UNCHANGED <<tried, omitted>>
      <3>1. sc = "post"
        BY <1>7 DEF PostCompact
      <3>2. LoopActs => sc = "run"
        BY DEF LoopActs, RunStep, EndTurn, BreakRun
      <3> QED BY <2>3, <3>1, <3>2, OtherExtended, RecoverGrows
    <2>4. CASE tried' = TRUE /\ Wait("compactRetry")
             /\ omitted' = omitted \cup {i \in LastAsst .. Len(ctx) : ctx[i].kind \in {"asst", "result"}}
      <3>1. ctx' = ctx
        BY <2>4 DEF Wait, loopVars
      <3>2. PICK a : a = LastAsst
        OBVIOUS
      <3>3. /\ a \in DOMAIN ctx /\ ctx[a].kind = "asst" /\ DOMAIN ctx = 1 .. Len(ctx) /\ Len(ctx) \in Nat
            /\ \A j \in DOMAIN ctx : j > a => ctx[j].kind # "asst"
        <4>1. ctx \in Seq(Entry) /\ HasAnswer(ctx)
          BY <2>1 DEF TypeInv, LoopInv, LoopTypes, SessionTypes
        <4> QED BY <3>2, <4>1, LastAsstIs, RecoveryFacts
      <3>4. \A i \in DOMAIN ctx : Truncated(i)' => Truncated(i) \/ i = a
        <4> SUFFICES ASSUME NEW i \in DOMAIN ctx, Truncated(i)', ~Truncated(i) PROVE i = a
          OBVIOUS
        <4>1. i \in LastAsst .. Len(ctx) /\ ctx[i].kind = "asst"
          BY <2>4, <3>1 DEF Truncated
        <4> QED BY <3>2, <3>3, <4>1
      <3>5. ASSUME NEW i \in DOMAIN ctx', NEW j \in DOMAIN ctx', i < j, Truncated(i)', Truncated(j)'
            PROVE  \E k \in DOMAIN ctx' : k > i /\ Resets(k)'
        <4>1. i \in DOMAIN ctx /\ j \in DOMAIN ctx
          BY <3>1, <3>5
        <4>2. i # a
          <5>1. i = a => ctx[j].kind # "asst"
            BY <3>3, <3>5, <4>1
          <5> QED BY <3>1, <3>5, <5>1 DEF Truncated
        <4>3. Truncated(i)
          BY <3>4, <3>5, <4>1, <4>2
        <4>4. PICK k \in DOMAIN ctx : k > i /\ Resets(k)
          BY <2>1, <4>1, <4>3 DEF RecoverInv
        <4> QED BY <3>1, <4>4 DEF Resets
      <3>6. RecoverInv'
        BY <2>4 DEF RecoverInv
      <3> QED BY <3>5, <3>6 DEF OverflowRetriedOnce
    <2> QED BY <2>2, <2>3, <2>4
  <1> QED BY <1>1, <1>2, <1>3, <1>5, <1>6, <1>7, OtherRecovery DEF LoopActs

\* An overflow, or an answer cut off, is compacted away and retried once until the
\* user speaks or an answer succeeds, whatever runs, retries and compactions come
\* between (_checkCompaction, _overflowRecoveryAttempted).
THEOREM OverflowsRetriedOnce == Spec => []OverflowRetriedOnce
  <1> DEFINE Inv == TypeInv /\ FlakyInv /\ RecoverInv /\ OverflowRetriedOnce
  <1>1. Init => Inv
    <2>1. Init => FlakyInv /\ RecoverInv /\ OverflowRetriedOnce
      BY DEF Init, LoopInit, FlakyInv, RecoverInv, OverflowRetriedOnce
    <2> QED BY <2>1, TypeInit
  <1>2. Inv /\ [Next]_vars => Inv'
    BY TypeNext, FlakyNext, RecoverNext
  <1> QED BY <1>1, <1>2, PTL DEF Spec

-----------------------------------------------------------------------------
(* One queued message of a kind at a time.  A message is fresh until an     *)
(* answer follows it or a prompt starts another run; no poll finds one of   *)
(* its kind before that.                                                    *)

Fresh(via) ==
  \E i \in DOMAIN ctx :
    /\ ctx[i].kind = "message" /\ ctx[i].via = via /\ ~PromptAfter(i)
    /\ \A k \in DOMAIN ctx : k > i => ctx[k].kind # "asst"

PendOne ==
  \/ \A k \in DOMAIN pend : pend[k].via = "prompt"
  \/ \A k \in DOMAIN pend : pend[k].via # "prompt" /\ (OneAtATime => Len(pend) <= 1)

OnePair ==
  \A i, j \in DOMAIN ctx :
    (/\ i < j /\ ctx[i].kind = "message" /\ ctx[j].kind = "message"
     /\ ctx[i].via = ctx[j].via /\ ctx[i].via # "prompt" /\ ~PromptAfter(i))
      => \E k \in i .. j : ctx[k].kind = "asst"

FreshInv ==
  /\ \A via : (\E k \in DOMAIN pend : pend[k].via = via) => ~Fresh(via)
  /\ pc = "prompting" /\ ~loop.skip => ~Fresh("steer") /\ \A k \in DOMAIN pend : pend[k].via # "steer"
  /\ pc \notin {"prompting", "injecting"} => ~Fresh("steer") /\ ~Fresh("follow")

OneInv == OneAtATime /\ ~spent /\ ~thrown /\ ~PromptPending => OnePair /\ FreshInv

\* Where no message is added, none becomes fresh, and an answer ends them all.
LEMMA FreshFades ==
  ASSUME Extended, \A i \in Added : ctx'[i].kind # "message"
  PROVE  /\ \A via : Fresh(via)' => Fresh(via)
         /\ (\E i \in Added : ctx'[i].kind = "asst") => \A via : ~Fresh(via)'
         /\ OnePair => OnePair'
  <1>1. /\ Len(ctx) \in Nat /\ Len(ctx') \in Nat /\ Len(ctx) <= Len(ctx')
        /\ DOMAIN ctx = 1 .. Len(ctx) /\ DOMAIN ctx' = 1 .. Len(ctx')
        /\ \A k \in DOMAIN ctx : k \in DOMAIN ctx' /\ ctx'[k] = ctx[k]
        /\ \A k \in DOMAIN ctx' : k \notin DOMAIN ctx => k \in Added
        /\ \A k \in Added, i \in DOMAIN ctx : k > i /\ k \in DOMAIN ctx'
    BY DEF Extended, Added
  <1>2. \A i \in DOMAIN ctx' : ctx'[i].kind = "message" => i \in DOMAIN ctx
    BY <1>1
  <1>3. \A i \in DOMAIN ctx : PromptAfter(i) => PromptAfter(i)'
    BY <1>1 DEF PromptAfter
  <1>4. ASSUME NEW via, Fresh(via)' PROVE Fresh(via) /\ \A i \in Added : ctx'[i].kind # "asst"
    <2>1. PICK i \in DOMAIN ctx' :
            /\ ctx'[i].kind = "message" /\ ctx'[i].via = via /\ ~PromptAfter(i)'
            /\ \A k \in DOMAIN ctx' : k > i => ctx'[k].kind # "asst"
      BY <1>4 DEF Fresh
    <2>2. i \in DOMAIN ctx /\ ctx[i] = ctx'[i] /\ ~PromptAfter(i)
      BY <1>1, <1>2, <1>3, <2>1
    <2>3. \A k \in DOMAIN ctx : k > i => ctx[k].kind # "asst"
      BY <1>1, <2>1
    <2>4. Fresh(via)
      BY <2>1, <2>2, <2>3 DEF Fresh
    <2> QED BY <1>1, <2>1, <2>2, <2>4
  <1>5. ASSUME OnePair, NEW i \in DOMAIN ctx', NEW j \in DOMAIN ctx', i < j,
               ctx'[i].kind = "message", ctx'[j].kind = "message", ctx'[i].via = ctx'[j].via,
               ctx'[i].via # "prompt", ~PromptAfter(i)'
        PROVE  \E k \in i .. j : ctx'[k].kind = "asst"
    <2>1. /\ i \in DOMAIN ctx /\ j \in DOMAIN ctx /\ ctx[i] = ctx'[i] /\ ctx[j] = ctx'[j]
          /\ ~PromptAfter(i)
      BY <1>1, <1>2, <1>3, <1>5
    <2>2. PICK k \in i .. j : ctx[k].kind = "asst"
      BY <1>5, <2>1 DEF OnePair
    <2>3. ctx'[k] = ctx[k]
      BY <1>1, <2>1, <2>2
    <2> QED BY <2>2, <2>3
  <1> QED BY <1>4, <1>5 DEF OnePair

\* A message that is added.
LEMMA FreshGrows ==
  ASSUME Extended, NEW n, n = Len(ctx) + 1, Added = {n}, ctx'[n].kind = "message"
  PROVE  /\ ctx'[n].via = "prompt" =>
              OnePair' /\ \A via \in {"steer", "follow"} : ~Fresh(via)'
         /\ ctx'[n].via # "prompt" =>
              /\ OnePair /\ ~Fresh(ctx'[n].via) => OnePair'
              /\ \A via : via # ctx'[n].via /\ ~Fresh(via) => ~Fresh(via)'
  <1>1. /\ Len(ctx) \in Nat /\ n \in DOMAIN ctx' /\ DOMAIN ctx = 1 .. Len(ctx) /\ DOMAIN ctx' = 1 .. n
        /\ \A k \in DOMAIN ctx : k \in DOMAIN ctx' /\ ctx'[k] = ctx[k] /\ k < n
        /\ \A k \in DOMAIN ctx' : k \notin DOMAIN ctx => k = n
        /\ n \in Nat
    <2>1. Len(ctx') = n
      <3>1. Len(ctx') \in Added
        <4>1. n \in Added
          OBVIOUS
        <4> QED BY <4>1 DEF Extended, Added
      <3> QED BY <3>1
    <2> QED BY <2>1 DEF Extended
  <1>2. \A i \in DOMAIN ctx : PromptAfter(i) => PromptAfter(i)'
    BY <1>1 DEF PromptAfter
  <1>3. ASSUME ctx'[n].via = "prompt" PROVE OnePair' /\ \A via \in {"steer", "follow"} : ~Fresh(via)'
    <2>1. \A i \in DOMAIN ctx : PromptAfter(i)'
      BY <1>1, <1>3 DEF PromptAfter
    <2>2. OnePair'
      <3> SUFFICES ASSUME NEW i \in DOMAIN ctx', NEW j \in DOMAIN ctx', i < j, ~PromptAfter(i)'
                   PROVE  FALSE
        BY DEF OnePair
      <3> QED BY <1>1, <2>1
    <2>3. ASSUME NEW via \in {"steer", "follow"}, Fresh(via)' PROVE FALSE
      <3>1. PICK i \in DOMAIN ctx' : ctx'[i].via = via /\ ~PromptAfter(i)'
        BY <2>3 DEF Fresh
      <3> QED BY <1>1, <1>3, <2>1, <3>1
    <2> QED BY <2>2, <2>3
  <1>4. ASSUME NEW via, via # ctx'[n].via, Fresh(via)' PROVE Fresh(via)
    <2>1. PICK i \in DOMAIN ctx' :
            /\ ctx'[i].kind = "message" /\ ctx'[i].via = via /\ ~PromptAfter(i)'
            /\ \A k \in DOMAIN ctx' : k > i => ctx'[k].kind # "asst"
      BY <1>4 DEF Fresh
    <2>2. i \in DOMAIN ctx /\ ctx[i] = ctx'[i] /\ ~PromptAfter(i)
      BY <1>1, <1>2, <1>4, <2>1
    <2>3. \A k \in DOMAIN ctx : k > i => ctx[k].kind # "asst"
      BY <1>1, <2>1
    <2> QED BY <2>1, <2>2, <2>3 DEF Fresh
  <1>5. ASSUME OnePair, ~Fresh(ctx'[n].via), NEW i \in DOMAIN ctx', NEW j \in DOMAIN ctx', i < j,
               ctx'[i].kind = "message", ctx'[j].kind = "message", ctx'[i].via = ctx'[j].via,
               ctx'[i].via # "prompt", ~PromptAfter(i)'
        PROVE  \E k \in i .. j : ctx'[k].kind = "asst"
    <2>1. i \in DOMAIN ctx /\ ctx[i] = ctx'[i] /\ ~PromptAfter(i)
      BY <1>1, <1>2, <1>5
    <2>2. CASE j \in DOMAIN ctx
      <3>1. PICK k \in i .. j : ctx[k].kind = "asst"
        BY <1>1, <1>5, <2>1, <2>2 DEF OnePair
      <3>2. ctx'[k] = ctx[k]
        BY <1>1, <2>1, <2>2, <3>1
      <3> QED BY <3>1, <3>2
    <2>3. CASE j = n
      <3>1. ctx[i].via = ctx'[n].via
        BY <1>5, <2>1, <2>3
      <3>2. PICK k \in DOMAIN ctx : k > i /\ ctx[k].kind = "asst"
        BY <1>5, <2>1, <3>1 DEF Fresh
      <3>3. k \in i .. j /\ ctx'[k] = ctx[k]
        BY <1>1, <2>1, <2>3, <3>2
      <3> QED BY <3>2, <3>3
    <2> QED BY <1>1, <2>2, <2>3
  <1> QED BY <1>3, <1>4, <1>5 DEF OnePair

\* What a poll takes.
LEMMA Polled ==
  ASSUME TypeInv
  PROVE  /\ \A k \in DOMAIN Drained(steer) : Drained(steer)[k].via = "steer"
         /\ \A k \in DOMAIN Drained(follow) : Drained(follow)[k].via = "follow"
         /\ OneAtATime => Len(Drained(steer)) <= 1 /\ Len(Drained(follow)) <= 1
  <1>1. steer \in Seq(QueuedMsg({"steer"})) /\ follow \in Seq(QueuedMsg({"follow"}))
    BY DEF TypeInv, LoopInv, LoopTypes
  <1>2. /\ Drained(steer) \in Seq(QueuedMsg({"steer"})) /\ Drained(follow) \in Seq(QueuedMsg({"follow"}))
        /\ OneAtATime => Len(Drained(steer)) <= 1 /\ Len(Drained(follow)) <= 1
    BY <1>1, DrainTypes
  <1>3. /\ \A k \in DOMAIN Drained(steer) : Drained(steer)[k] \in QueuedMsg({"steer"})
        /\ \A k \in DOMAIN Drained(follow) : Drained(follow)[k] \in QueuedMsg({"follow"})
    BY <1>2, LenProperties, ElementOfSeq
  <1> QED BY <1>2, <1>3 DEF QueuedMsg

LEMMA NonePending == ASSUME pend' = <<>> PROVE DOMAIN pend' = {} /\ Len(pend') = 0 /\ ~PromptPending'
  BY DEF PromptPending

\* Before a delivery, and where nothing is pending, every kind may be polled.
LEMMA OneCalm ==
  ASSUME TypeInv, PendInv, PendOne, OneInv, Extended, \A i \in Added : ctx'[i].kind # "message",
         pc \notin {"prompting", "injecting"}, spent' = spent, thrown' = thrown,
         pend' \in {pend, <<>>, Drained(steer), Drained(follow)},
         pc' = "prompting" => pend' = <<>> \/ pend' = Drained(follow) \/ loop'.skip
  PROVE  PendOne' /\ OneInv'
  <1>1. ~PromptPending
    BY DEF PendInv, PromptPending
  <1>2. /\ DOMAIN pend' = {} \/ pend' = pend \/ \A k \in DOMAIN pend' : pend'[k].via \in {"steer", "follow"}
        /\ pend' = <<>> \/ pend' = Drained(follow) => \A k \in DOMAIN pend' : pend'[k].via # "steer"
    BY Polled, NonePending
  <1>3. PendOne'
    <2>1. CASE pend' = pend
      BY <2>1 DEF PendOne
    <2>2. CASE pend' = <<>>
      BY <2>2, NonePending DEF PendOne
    <2>3. CASE pend' = Drained(steer) \/ pend' = Drained(follow)
      BY <2>3, Polled DEF PendOne
    <2> QED BY <2>1, <2>2, <2>3
  <1>4. ASSUME OneAtATime, ~spent', ~thrown' PROVE OnePair' /\ FreshInv'
    <2>1. /\ OnePair /\ ~Fresh("steer") /\ ~Fresh("follow")
          /\ \A via : (\E k \in DOMAIN pend : pend[k].via = via) => ~Fresh(via)
      BY <1>1, <1>4 DEF OneInv, FreshInv
    <2>2. OnePair' /\ ~Fresh("steer")' /\ ~Fresh("follow")' /\ \A via : ~Fresh(via) => ~Fresh(via)'
      BY <2>1, FreshFades
    <2>3. ASSUME NEW via, NEW k \in DOMAIN pend', pend'[k].via = via PROVE ~Fresh(via)'
      <3>1. CASE pend' = pend
        BY <2>1, <2>2, <2>3, <3>1
      <3>2. CASE pend' # pend
        <4>1. via \in {"steer", "follow"}
          BY <1>2, <2>3, <3>2
        <4> QED BY <2>2, <4>1
      <3> QED BY <3>1, <3>2
    <2>4. pc' = "prompting" /\ ~loop'.skip => \A k \in DOMAIN pend' : pend'[k].via # "steer"
      BY <1>2
    <2> QED BY <2>2, <2>3, <2>4 DEF FreshInv
  <1> QED BY <1>3, <1>4 DEF OneInv

LEMMA OneOther ==
  ASSUME TypeInv, PendInv, PendOne, OneInv, [Next]_vars, ~LoopActs
  PROVE  PendOne' /\ OneInv'
  <1>1. Extended /\ \A i \in Added : ctx'[i].kind # "message"
    BY OtherExtended DEF Notes
  <1>2. CASE Stays
    <2>1. UNCHANGED <<pc, pend, loop, spent, thrown>>
      BY <1>2 DEF Stays
    <2>2. /\ PendOne' /\ (PromptPending' => PromptPending)
          /\ OnePair => OnePair'
          /\ \A via : ~Fresh(via) => ~Fresh(via)'
      BY <1>1, <2>1, FreshFades DEF PendOne, PromptPending
    <2>3. FreshInv => FreshInv'
      BY <2>1, <2>2 DEF FreshInv
    <2> QED BY <2>1, <2>2, <2>3 DEF OneInv, PromptPending
  <1>3. CASE Begins
    <2>1. PICK prompts \in Seq(QueuedMsg({"prompt"})) : prompts # <<>> /\ pend' = prompts
      BY <1>3 DEF Begins, StartPrompt, Start
    <2>2. \A k \in DOMAIN prompts : prompts[k].via = "prompt"
      <3>1. \A k \in DOMAIN prompts : prompts[k] \in QueuedMsg({"prompt"})
        BY LenProperties, ElementOfSeq
      <3> QED BY <3>1 DEF QueuedMsg
    <2>3. 1 \in DOMAIN prompts
      BY <2>1, EmptySeq, LenProperties
    <2>4. PendOne' /\ PromptPending'
      BY <2>1, <2>2, <2>3 DEF PendOne, PromptPending
    <2> QED BY <2>4 DEF OneInv
  <1>4. CASE Goes
    <2>1. PICK role : CanContinue(role) /\ Continue(role)
      BY <1>4 DEF Goes
    <2>2. /\ pc = "off" /\ pc' = "prompting" /\ thrown' = thrown /\ spent' = spent
          /\ \/ pend' = <<>>
             \/ pend' = Drained(follow)
             \/ pend' = Drained(steer) /\ loop' = [NoLocals EXCEPT !.skip = TRUE]
      BY <2>1, Zenon DEF Continue, Start
    <2>3. loop' = [NoLocals EXCEPT !.skip = TRUE] => loop'.skip
      BY DEF NoLocals
    <2> QED BY <1>1, <2>2, <2>3, OneCalm
  <1>5. CASE Ends
    <2>1. pc \in {"ended", "broken"} /\ pc' = "off" /\ pend' = pend /\ spent' = spent /\ thrown' = thrown
      BY <1>5 DEF Ends, EndRun
    <2> QED BY <1>1, <2>1, OneCalm
  <1> QED BY <1>2, <1>3, <1>4, <1>5, OtherSteps

LEMMA OneDelivered ==
  ASSUME TypeInv, PendInv, PendOne, OneInv, Deliver, AddsMessage, Extended
  PROVE  PendOne' /\ OneInv'
  <1>1. /\ pc \in {"prompting", "injecting"} /\ pend # <<>> /\ pend' = Tail(pend)
        /\ UNCHANGED <<pc, loop, spent, thrown>>
    BY DEF Deliver
  <1>2. PICK n : n = Len(ctx) + 1
    OBVIOUS
  <1>3. Added = {n} /\ ctx'[n].kind = "message" /\ ctx'[n].via = pend[1].via
    BY <1>2 DEF AddsMessage, Delivered
  <1>4. pend \in Seq(QueuedMsg({"prompt", "steer", "follow"}))
    BY DEF TypeInv, LoopInv, LoopTypes
  <1>5. /\ \A k \in DOMAIN pend' : k + 1 \in DOMAIN pend /\ pend'[k] = pend[k + 1]
        /\ 1 \in DOMAIN pend /\ Len(pend') = Len(pend) - 1 /\ Len(pend) \in Nat
        /\ DOMAIN pend' = 1 .. Len(pend')
        /\ pend[1].via \in {"prompt", "steer", "follow"}
    <2>1. \A k \in DOMAIN pend' : k + 1 \in DOMAIN pend /\ pend'[k] = pend[k + 1]
      BY <1>1, <1>4, HeadTailProperties, LenProperties
    <2>2. /\ 1 \in DOMAIN pend /\ Len(pend') = Len(pend) - 1 /\ Len(pend) \in Nat
          /\ DOMAIN pend' = 1 .. Len(pend')
      BY <1>1, <1>4, EmptySeq, HeadTailProperties, LenProperties
    <2>3. pend[1] \in QueuedMsg({"prompt", "steer", "follow"})
      BY <1>4, <2>2, ElementOfSeq, LenProperties
    <2> QED BY <2>1, <2>2, <2>3 DEF QueuedMsg
  <1>6. CASE \A k \in DOMAIN pend : pend[k].via = "prompt"
    <2>1. pend[1].via = "prompt" /\ \A k \in DOMAIN pend' : pend'[k].via = "prompt"
      BY <1>5, <1>6
    <2>2. PendOne'
      BY <2>1 DEF PendOne
    <2>3. OnePair' /\ ~Fresh("steer")' /\ ~Fresh("follow")'
      BY <1>2, <1>3, <2>1, FreshGrows
    <2>4. ~PromptPending' => FreshInv'
      <3>1. ~PromptPending' => DOMAIN pend' = {}
        BY <2>1 DEF PromptPending
      <3> QED BY <2>3, <3>1 DEF FreshInv
    <2> QED BY <2>2, <2>3, <2>4 DEF OneInv
  <1>7. CASE \A k \in DOMAIN pend : pend[k].via # "prompt" /\ (OneAtATime => Len(pend) <= 1)
    <2>1. /\ pend[1].via \in {"steer", "follow"} /\ ~PromptPending
          /\ \A k \in DOMAIN pend' : pend'[k].via # "prompt"
          /\ OneAtATime => Len(pend') <= 1
      BY <1>5, <1>7 DEF PromptPending
    <2>2. PendOne'
      BY <2>1 DEF PendOne
    <2>3. ASSUME OneAtATime, ~spent, ~thrown PROVE OnePair' /\ FreshInv'
      <3>1. OnePair /\ FreshInv /\ DOMAIN pend' = {}
        BY <1>5, <1>7, <2>1, <2>3 DEF OneInv
      <3>2. ~Fresh(pend[1].via)
        BY <1>5, <3>1 DEF FreshInv
      <3>3. OnePair' /\ \A via : via # pend[1].via /\ ~Fresh(via) => ~Fresh(via)'
        BY <1>2, <1>3, <2>1, <3>1, <3>2, FreshGrows
      <3>4. pc = "prompting" /\ ~loop.skip => pend[1].via # "steer" /\ ~Fresh("steer")
        BY <1>5, <3>1 DEF FreshInv
      <3>5. pc' = "prompting" /\ ~loop'.skip => ~Fresh("steer")'
        BY <1>1, <3>3, <3>4
      <3> QED BY <1>1, <3>1, <3>3, <3>5 DEF FreshInv
    <2> QED BY <1>1, <2>2, <2>3 DEF OneInv
  <1> QED BY <1>6, <1>7 DEF PendOne

LEMMA OneLoop ==
  ASSUME TypeInv, PendInv, PendOne, OneInv, LoopActs
  PROVE  PendOne' /\ OneInv'
  <1>0. Extended
    BY LoopExtended
  <1>1. ASSUME pend' = <<>>, spent' \/ thrown' PROVE PendOne' /\ OneInv'
    BY <1>1, NonePending DEF PendOne, OneInv
  <1>2. CASE RunStep /\ Deliver
    <2>1. AddsMessage
      <3>1. pend # <<>> /\ ctx' = Append(ctx, Delivered(Head(pend)))
        BY <1>2 DEF Deliver
      <3>2. Head(pend) \in QueuedMsg({"prompt", "steer", "follow"})
        BY <3>1, HeadTailProperties DEF TypeInv, LoopInv, LoopTypes
      <3>3. Added = {Len(ctx) + 1} /\ ctx'[Len(ctx) + 1] = Delivered(Head(pend))
        BY <3>1, <3>2, Entries, AppendExtended
      <3> QED BY <1>2, <3>1, <3>2, <3>3 DEF AddsMessage
    <2> QED BY <1>0, <1>2, <2>1, OneDelivered
  <1>3. CASE RunStep /\ ~Deliver
    <2>1. AddsAnswer \/ AddsResults
      BY <1>3, RunStepAdds DEF AddsMessage
    <2>2. \A i \in Added : ctx'[i].kind # "message"
      BY <2>1 DEF AddsAnswer, AddsResults
    <2>3. CASE FirstPoll
      <3>1. pc = "prompting" /\ pend = <<>> /\ pc' = "injecting" /\ spent' = spent /\ thrown' = thrown
            /\ \/ loop.skip /\ pend' = pend
               \/ ~loop.skip /\ pend' = Drained(steer)
        BY <2>3, Zenon DEF FirstPoll
      <3>2. PendOne'
        BY <3>1, Polled DEF PendOne
      <3>3. ~PromptPending /\ DOMAIN pend = {}
        BY <3>1 DEF PromptPending
      <3>4. ASSUME OneAtATime, ~spent, ~thrown PROVE OnePair' /\ FreshInv'
        <4>1. OnePair /\ (~loop.skip => ~Fresh("steer"))
          BY <3>1, <3>3, <3>4 DEF OneInv, FreshInv
        <4>2. OnePair' /\ (~loop.skip => ~Fresh("steer")')
          BY <1>0, <2>2, <4>1, FreshFades
        <4>3. ASSUME NEW via, NEW k \in DOMAIN pend', pend'[k].via = via PROVE ~Fresh(via)'
          <5>1. ~loop.skip /\ via = "steer"
            BY <3>1, <3>3, <4>3, Polled
          <5> QED BY <4>2, <5>1
        <4> QED BY <3>1, <4>2, <4>3 DEF FreshInv
      <3> QED BY <3>1, <3>2, <3>4 DEF OneInv
    <2>4. CASE Prepared
      <3>1. /\ pc = "between" /\ pc' = "injecting" /\ spent' = spent /\ thrown' = thrown
            /\ pend' = pend \/ pend' = Drained(steer)
        BY <2>4, Zenon DEF Prepared
      <3> QED BY <1>0, <2>2, <3>1, OneCalm
    <2>5. CASE OutOfBudget
      <3>1. pend' = <<>> /\ spent'
        BY <2>5 DEF OutOfBudget
      <3> QED BY <1>1, <3>1
    <2>6. CASE AddsAnswer /\ ~FirstPoll /\ ~Prepared /\ ~OutOfBudget
      <3>1. pc = "injecting" /\ pend = <<>> /\ ~PromptPending
        BY <2>6 DEF AddsAnswer, Requesting, PromptPending
      <3>2. pend' = pend /\ spent' = spent /\ thrown' = thrown /\ pc' # "prompting"
        <4>1. ASSUME NEW n, NEW s, NEW par, Answer(n, s, par)
              PROVE  pend' = pend /\ spent' = spent /\ thrown' = thrown /\ pc' \in {"tools", "turnEnd"}
          BY <4>1 DEF Answer
        <4>2. ASSUME NEW s, Refuse(s)
              PROVE  pend' = pend /\ spent' = spent /\ thrown' = thrown /\ pc' = "failedTurn"
          BY <4>2 DEF Refuse
        <4>3. pc \notin {"tools", "executing", "turnEnd"}
          BY <3>1
        <4>4. \/ \E n \in 0 .. MaxCalls, s \in {"stop", "length"}, par \in BOOLEAN : Answer(n, s, par)
              \/ \E s \in Failed \cup {"aborted"} : Refuse(s)
          BY <1>3, <2>6, <4>3, Zenon DEF RunStep, PrepareCall, CutBatch, FinishCall, CollectResults, FinishTurn
        <4> QED BY <4>1, <4>2, <4>4
      <3>3. \E i \in Added : ctx'[i].kind = "asst"
        BY <2>6 DEF AddsAnswer
      <3>4. PendOne'
        BY <3>1, <3>2 DEF PendOne
      <3>5. (OnePair => OnePair') /\ \A via : ~Fresh(via)'
        BY <1>0, <2>2, <3>3, FreshFades
      <3>6. FreshInv'
        BY <3>2, <3>5 DEF FreshInv
      <3> QED BY <3>1, <3>2, <3>4, <3>5, <3>6 DEF OneInv
    <2>7. CASE AddsResults /\ ~FirstPoll /\ ~Prepared /\ ~OutOfBudget
      <3>1. pend' = pend /\ spent' = spent /\ thrown' = thrown /\ pc \in {"tools", "executing", "turnEnd"}
            /\ pc' # "prompting"
        <4>1. ASSUME NEW n \in 0 .. MaxCalls, NEW s \in {"stop", "length"}, NEW par \in BOOLEAN,
                     Answer(n, s, par)
              PROVE  FALSE
          <5>1. ctx'[Len(ctx) + 1] = Asst(n, s) /\ Len(ctx') >= Len(ctx) + 1
            BY <4>1, AnswerIs
          <5> QED BY <1>0, <2>7, <5>1 DEF AddsResults, Added, Asst, Extended
        <4>2. ASSUME NEW s \in Failed \cup {"aborted"}, Refuse(s) PROVE FALSE
          <5>1. ctx' = Append(ctx, Asst(0, s))
            BY <4>2 DEF Refuse
          <5>2. s \in Stops /\ 0 \in 0 .. MaxCalls
            BY LoopAssumption DEF Stops
          <5>3. Added = {Len(ctx) + 1} /\ ctx'[Len(ctx) + 1] = Asst(0, s)
            BY <5>1, <5>2, Entries, AppendExtended
          <5> QED BY <2>7, <5>3 DEF AddsResults, Asst
        <4>3. ASSUME NEW how \in Prep, PrepareCall(how)
              PROVE  pend' = pend /\ spent' = spent /\ thrown' = thrown /\ pc = "tools" /\ pc' # "prompting"
          <5>1. pc' \in {"tools", "executing", "turnEnd"}
            BY <4>3, Zenon DEF PrepareCall
          <5> QED BY <4>3, <5>1 DEF PrepareCall
        <4>4. ASSUME CutBatch
              PROVE  pend' = pend /\ spent' = spent /\ thrown' = thrown /\ pc = "tools" /\ pc' # "prompting"
          BY <4>4 DEF CutBatch
        <4>5. ASSUME NEW i \in Calls, NEW how \in Hows, FinishCall(i, how)
              PROVE  pend' = pend /\ spent' = spent /\ thrown' = thrown /\ pc = "executing"
                     /\ pc' # "prompting"
          <5>1. pc' \in {"tools", "turnEnd"} \/ pc' = pc
            BY <4>5, Zenon DEF FinishCall
          <5> QED BY <4>5, <5>1 DEF FinishCall
        <4>6. ASSUME CollectResults
              PROVE  pend' = pend /\ spent' = spent /\ thrown' = thrown /\ pc = "executing"
                     /\ pc' # "prompting"
          BY <4>6 DEF CollectResults
        <4>7. ASSUME NEW continue, FinishTurn(continue)
              PROVE  pend' = pend /\ spent' = spent /\ thrown' = thrown /\ pc = "turnEnd"
                     /\ pc' # "prompting"
          BY <4>7 DEF FinishTurn
        <4> QED BY <1>3, <2>7, <4>1, <4>2, <4>3, <4>4, <4>5, <4>6, <4>7 DEF RunStep
      <3> QED BY <1>0, <2>2, <3>1, OneCalm
    <2> QED BY <2>1, <2>3, <2>4, <2>5, <2>6, <2>7
  <1>4. CASE EndTurn
    <2>1. \A i \in Added : ctx'[i].kind # "message"
      BY <1>4, EndTurnKinds DEF Notes, Rejections
    <2>2. ASSUME NEW stop, NEW repeated, TurnEnd(stop, repeated, Flushed) PROVE PendOne' /\ OneInv'
      <3>1. pc = "polling" /\ pend' \in {pend, Drained(steer), Drained(follow)}
            /\ spent' = spent /\ thrown' = thrown /\ pc' \in {"ended", "between"}
        BY <2>2, Zenon DEF TurnEnd
      <3> QED BY <1>0, <2>1, <3>1, OneCalm
    <2>3. ASSUME FailedTurnEnd(Flushed) PROVE PendOne' /\ OneInv'
      <3>1. pc = "failedTurn" /\ pend' = pend /\ spent' = spent /\ thrown' = thrown /\ pc' = "ended"
        BY <2>3 DEF FailedTurnEnd
      <3> QED BY <1>0, <2>1, <3>1, OneCalm
    <2>4. ASSUME NEW s, RunFails(s, Flushed) PROVE PendOne' /\ OneInv'
      BY <1>1, <2>4 DEF RunFails
    <2> QED BY <1>4, <2>2, <2>3, <2>4, Zenon DEF EndTurn
  <1>5. CASE BreakRun
    BY <1>1, <1>5 DEF BreakRun, RunBreaks
  <1> QED BY <1>2, <1>3, <1>4, <1>5 DEF LoopActs

\* One at a time, no request shows the model two queued messages of a kind that no
\* answer separates, whichever polls took them and whatever runs came before
\* (drain(), the polls of runLoop and continue()).
THEOREM OneMessageAtATime == Spec => []OneQueuedPerTurn
  <1> DEFINE Inv == TypeInv /\ PendInv /\ PendOne /\ OneInv
  <1>1. Init => Inv
    <2>1. Init => PendOne /\ OneInv
      BY DEF Init, LoopInit, PendOne, OneInv, OnePair, FreshInv, Fresh
    <2> QED BY <2>1, TypeInit, PendInit
  <1>2. Inv /\ [Next]_vars => Inv'
    BY TypeNext, PendNext, OneOther, OneLoop
  <1>3. Inv => OneQueuedPerTurn
    BY DEF OneInv, OnePair, OneQueuedPerTurn, Requesting, PromptPending
  <1> QED BY <1>1, <1>2, <1>3, PTL DEF Spec

-----------------------------------------------------------------------------
(* Where a message is.  A place is a queue and a position in it; a step     *)
(* carries what is in one queue over to another, adds a new message, or     *)
(* loses some.                                                              *)

InSteer(i, m)    == i \in DOMAIN steer /\ steer[i].m = m
InFollow(i, m)   == i \in DOMAIN follow /\ follow[i].m = m
InPend(i, m)     == i \in DOMAIN pend /\ pend[i].m = m
InNext(i, m)     == i \in DOMAIN nextTurn /\ nextTurn[i].m = m
InCustoms(i, m)  == i \in DOMAIN customs /\ customs[i] = m
InDeferred(i, m) == i \in DOMAIN deferred /\ deferred[i] = m
InCtx(i, m)      == i \in DOMAIN ctx /\ ctx[i].kind \in {"message", "custom"} /\ ctx[i].m = m
InFront(i, m)    == i = 0 /\ front.m = m

Holds(n, i, m) ==
  \/ n = "steer" /\ InSteer(i, m)
  \/ n = "follow" /\ InFollow(i, m)
  \/ n = "pend" /\ InPend(i, m)
  \/ n = "next" /\ InNext(i, m)
  \/ n = "customs" /\ InCustoms(i, m)
  \/ n = "deferred" /\ InDeferred(i, m)
  \/ n = "ctx" /\ InCtx(i, m)
  \/ n = "front" /\ InFront(i, m)

Single(m) == \A n1, i1, n2, i2 : Holds(n1, i1, m) /\ Holds(n2, i2, m) => n1 = n2 /\ i1 = i2
Somewhere(m) == \E n, i : Holds(n, i, m)

LEMMA PlacesAre ==
  ASSUME NEW m
  PROVE  /\ Single(m) => \A p, q \in Places(m) : p = q
         /\ Places(m) = {} => ~Somewhere(m)
         /\ Places(m) # {} => Somewhere(m)
  <1>1. ASSUME NEW p \in Places(m) PROVE \E n, i : p = <<n, i>> /\ Holds(n, i, m)
    <2>1. CASE p \in {"steer"} \X {i \in DOMAIN steer : steer[i].m = m}
      <3>1. PICK i \in DOMAIN steer : p = <<"steer", i>> /\ steer[i].m = m
        BY <2>1
      <3> QED BY <3>1 DEF Holds, InSteer
    <2>2. CASE p \in {"follow"} \X {i \in DOMAIN follow : follow[i].m = m}
      <3>1. PICK i \in DOMAIN follow : p = <<"follow", i>> /\ follow[i].m = m
        BY <2>2
      <3> QED BY <3>1 DEF Holds, InFollow
    <2>3. CASE p \in {"pend"} \X {i \in DOMAIN pend : pend[i].m = m}
      <3>1. PICK i \in DOMAIN pend : p = <<"pend", i>> /\ pend[i].m = m
        BY <2>3
      <3> QED BY <3>1 DEF Holds, InPend
    <2>4. CASE p \in {"next"} \X {i \in DOMAIN nextTurn : nextTurn[i].m = m}
      <3>1. PICK i \in DOMAIN nextTurn : p = <<"next", i>> /\ nextTurn[i].m = m
        BY <2>4
      <3> QED BY <3>1 DEF Holds, InNext
    <2>5. CASE p \in {"customs"} \X {i \in DOMAIN customs : customs[i] = m}
      <3>1. PICK i \in DOMAIN customs : p = <<"customs", i>> /\ customs[i] = m
        BY <2>5
      <3> QED BY <3>1 DEF Holds, InCustoms
    <2>6. CASE p \in {"deferred"} \X {i \in DOMAIN deferred : deferred[i] = m}
      <3>1. PICK i \in DOMAIN deferred : p = <<"deferred", i>> /\ deferred[i] = m
        BY <2>6
      <3> QED BY <3>1 DEF Holds, InDeferred
    <2>7. CASE p \in {"ctx"} \X {i \in DOMAIN ctx : ctx[i].kind \in {"message", "custom"} /\ ctx[i].m = m}
      <3>1. PICK i \in DOMAIN ctx : p = <<"ctx", i>> /\ ctx[i].kind \in {"message", "custom"} /\ ctx[i].m = m
        BY <2>7
      <3> QED BY <3>1 DEF Holds, InCtx
    <2>8. CASE p \in {"front"} \X {i \in {0} : front.m = m}
      <3>1. p = <<"front", 0>> /\ front.m = m
        BY <2>8
      <3> QED BY <3>1 DEF Holds, InFront
    <2> QED BY <1>1, <2>1, <2>2, <2>3, <2>4, <2>5, <2>6, <2>7, <2>8, Zenon DEF Places
  <1>2. ASSUME NEW n, NEW i, Holds(n, i, m) PROVE <<n, i>> \in Places(m)
    BY <1>2 DEF Places, Holds, InSteer, InFollow, InPend, InNext, InCustoms, InDeferred, InCtx, InFront
  <1> QED BY <1>1, <1>2 DEF Single, Somewhere

\* Two queues, q1 and q2, give their first a1 and a2 messages to d1 and d2.
Flows(q1, a1, d1, b1, q2, a2, d2, b2, m) ==
  /\ \A n, i : Holds(n, i, m)' => i \in Int
  /\ \A n, i : n \notin {q1, q2} /\ Holds(n, i, m)' =>
       \/ Holds(n, i, m)
       \/ n = d1 /\ i - b1 <= a1 /\ Holds(q1, i - b1, m)
       \/ n = d2 /\ i - b2 <= a2 /\ Holds(q2, i - b2, m)
  /\ \A i : Holds(q1, i, m)' => i > 0 /\ Holds(q1, i + a1, m)
  /\ \A i : Holds(q2, i, m)' => i > 0 /\ Holds(q2, i + a2, m)

Conserves(m) == (Single(m) => Single(m)') /\ (Somewhere(m)' => Somewhere(m))
Keeps(m) == Somewhere(m) => Somewhere(m)'

LEMMA Flow ==
  ASSUME NEW q1, NEW q2, NEW d1, NEW d2, q1 # q2,
         NEW a1 \in Int, NEW a2 \in Int, NEW b1 \in Int, NEW b2 \in Int, NEW m,
         Flows(q1, a1, d1, b1, q2, a2, d2, b2, m)
  PROVE  Conserves(m)
  <1>1. Somewhere(m)' => Somewhere(m)
    <2> SUFFICES ASSUME NEW n, NEW i, Holds(n, i, m)' PROVE Somewhere(m)
      BY DEF Somewhere
    <2> QED BY DEF Somewhere, Flows
  <1>2. ASSUME Single(m), NEW n, NEW i, NEW k, NEW j, Holds(n, i, m)', Holds(k, j, m)'
        PROVE  n = k /\ i = j
    <2>1. i \in Int /\ j \in Int
      BY <1>2 DEF Flows
    <2>2. \/ n \notin {q1, q2} /\ Holds(n, i, m)
          \/ n = d1 /\ i - b1 <= a1 /\ Holds(q1, i - b1, m)
          \/ n = d2 /\ i - b2 <= a2 /\ Holds(q2, i - b2, m)
          \/ n = q1 /\ i > 0 /\ Holds(q1, i + a1, m)
          \/ n = q2 /\ i > 0 /\ Holds(q2, i + a2, m)
      BY <1>2 DEF Flows
    <2>3. \/ k \notin {q1, q2} /\ Holds(k, j, m)
          \/ k = d1 /\ j - b1 <= a1 /\ Holds(q1, j - b1, m)
          \/ k = d2 /\ j - b2 <= a2 /\ Holds(q2, j - b2, m)
          \/ k = q1 /\ j > 0 /\ Holds(q1, j + a1, m)
          \/ k = q2 /\ j > 0 /\ Holds(q2, j + a2, m)
      BY <1>2 DEF Flows
    <2>4. \A x, y, z, w : Holds(x, y, m) /\ Holds(z, w, m) => x = z /\ y = w
      BY <1>2 DEF Single
    <2> QED BY <2>1, <2>2, <2>3, <2>4
  <1> QED BY <1>1, <1>2 DEF Single, Conserves

\* One queue gives its first messages to another.
FlowsOne(q, a, d, b, m) ==
  /\ \A n, i : Holds(n, i, m)' => i \in Int
  /\ \A n, i : n # q /\ Holds(n, i, m)' =>
       Holds(n, i, m) \/ (n = d /\ i - b <= a /\ Holds(q, i - b, m))
  /\ \A i : Holds(q, i, m)' => i > 0 /\ Holds(q, i + a, m)

LEMMA FlowOne ==
  ASSUME NEW q, NEW d, q # "none", NEW a \in Int, NEW b \in Int, NEW m, FlowsOne(q, a, d, b, m)
  PROVE  Conserves(m)
  <1>1. \A i : ~Holds("none", i, m) /\ ~Holds("none", i, m)'
    BY DEF Holds
  <1>2. 0 \in Int
    OBVIOUS
  <1>3. Flows(q, a, d, b, "none", 0, d, 0, m)
    BY <1>1 DEF Flows, FlowsOne
  <1> QED BY <1>2, <1>3, Flow

\* The queues a step leaves alone.
SameQueue(n) == \A i, m : Holds(n, i, m)' <=> Holds(n, i, m)

LEMMA SameQueues ==
  /\ steer' = steer => SameQueue("steer")
  /\ follow' = follow => SameQueue("follow")
  /\ pend' = pend => SameQueue("pend")
  /\ nextTurn' = nextTurn => SameQueue("next")
  /\ customs' = customs => SameQueue("customs")
  /\ deferred' = deferred => SameQueue("deferred")
  /\ ctx' = ctx => SameQueue("ctx")
  /\ front'.m = front.m => SameQueue("front")
  BY DEF SameQueue, Holds, InSteer, InFollow, InPend, InNext, InCustoms, InDeferred, InCtx, InFront

LEMMA Positions ==
  /\ TypeInv => \A n, i, m : Holds(n, i, m) => i \in Int /\ (n # "front" => i > 0)
  /\ TypeInv' => \A n, i, m : Holds(n, i, m)' => i \in Int /\ (n # "front" => i > 0)
  <1>1. ASSUME TypeInv PROVE \A n, i, m : Holds(n, i, m) => i \in Int /\ (n # "front" => i > 0)
    <2>1. \A s : s \in Seq(Messages) \cup Seq(Customs) \cup Seq(Entry) \cup Seq(QueuedMsg({"prompt"}))
                 \cup Seq(QueuedMsg({"steer"})) \cup Seq(QueuedMsg({"follow"}))
                 \cup Seq(QueuedMsg({"prompt", "steer", "follow"})) =>
                   \A i \in DOMAIN s : i \in Int /\ i > 0
      BY LenProperties
    <2>2. \A i : /\ i \in DOMAIN steer => i \in Int /\ i > 0
                 /\ i \in DOMAIN follow => i \in Int /\ i > 0
                 /\ i \in DOMAIN pend => i \in Int /\ i > 0
                 /\ i \in DOMAIN nextTurn => i \in Int /\ i > 0
                 /\ i \in DOMAIN customs => i \in Int /\ i > 0
                 /\ i \in DOMAIN deferred => i \in Int /\ i > 0
                 /\ i \in DOMAIN ctx => i \in Int /\ i > 0
      BY <1>1, <2>1 DEF TypeInv, LoopInv, LoopTypes, SessionTypes
    <2> QED
      BY <2>2 DEF Holds, InSteer, InFollow, InPend, InNext, InCustoms, InDeferred, InCtx, InFront
  <1>2. ASSUME TypeInv' PROVE \A n, i, m : Holds(n, i, m)' => i \in Int /\ (n # "front" => i > 0)
    <2>1. \A s : s \in Seq(Messages) \cup Seq(Customs) \cup Seq(Entry) \cup Seq(QueuedMsg({"prompt"}))
                 \cup Seq(QueuedMsg({"steer"})) \cup Seq(QueuedMsg({"follow"}))
                 \cup Seq(QueuedMsg({"prompt", "steer", "follow"})) =>
                   \A i \in DOMAIN s : i \in Int /\ i > 0
      BY LenProperties
    <2>2. \A i : /\ i \in DOMAIN steer' => i \in Int /\ i > 0
                 /\ i \in DOMAIN follow' => i \in Int /\ i > 0
                 /\ i \in DOMAIN pend' => i \in Int /\ i > 0
                 /\ i \in DOMAIN nextTurn' => i \in Int /\ i > 0
                 /\ i \in DOMAIN customs' => i \in Int /\ i > 0
                 /\ i \in DOMAIN deferred' => i \in Int /\ i > 0
                 /\ i \in DOMAIN ctx' => i \in Int /\ i > 0
      BY <1>2, <2>1 DEF TypeInv, LoopInv, LoopTypes, SessionTypes
    <2> QED
      BY <2>2 DEF Holds, InSteer, InFollow, InPend, InNext, InCustoms, InDeferred, InCtx, InFront
  <1> QED BY <1>1, <1>2

\* What a poll takes, and what it leaves.
LEMMA PollSplits ==
  ASSUME NEW S, NEW q \in Seq(S)
  PROVE  \E a \in Nat :
           /\ \A i : i \in DOMAIN Drained(q) <=> i \in DOMAIN q /\ i <= a
           /\ \A i \in DOMAIN Drained(q) : Drained(q)[i] = q[i]
           /\ \A i \in Int : i \in DOMAIN Left(q) <=> i > 0 /\ i + a \in DOMAIN q
           /\ \A i \in DOMAIN Left(q) : i \in Int /\ Left(q)[i] = q[i + a]
  <1>1. DOMAIN q = 1 .. Len(q) /\ Len(q) \in Nat
    BY LenProperties
  <1>2. CASE OneAtATime /\ q # <<>>
    <2>1. /\ Drained(q) = <<Head(q)>> /\ Left(q) = Tail(q) /\ Head(q) = q[1]
          /\ 1 \in DOMAIN q /\ Len(q) > 0
      BY <1>1, <1>2, EmptySeq DEF Drained, Left
    <2>2. DOMAIN <<Head(q)>> = {1} /\ <<Head(q)>>[1] = q[1]
      BY <2>1
    <2>3. /\ Tail(q) \in Seq(S) /\ Len(Tail(q)) = Len(q) - 1
          /\ \A i \in 1 .. Len(Tail(q)) : Tail(q)[i] = q[i + 1]
      BY <1>2, HeadTailProperties
    <2>4. DOMAIN Tail(q) = 1 .. Len(q) - 1
      BY <2>3, LenProperties
    <2>5. /\ \A i : i \in DOMAIN Drained(q) <=> i \in DOMAIN q /\ i <= 1
          /\ \A i \in DOMAIN Drained(q) : Drained(q)[i] = q[i]
      BY <1>1, <2>1, <2>2
    <2>6. /\ \A i \in Int : i \in DOMAIN Left(q) <=> i > 0 /\ i + 1 \in DOMAIN q
          /\ \A i \in DOMAIN Left(q) : i \in Int /\ Left(q)[i] = q[i + 1]
      BY <1>1, <2>1, <2>3, <2>4
    <2> WITNESS 1 \in Nat
    <2> QED BY <2>5, <2>6
  <1>3. CASE ~(OneAtATime /\ q # <<>>)
    <2>1. Drained(q) = q /\ Left(q) = <<>>
      BY <1>3 DEF Drained, Left
    <2>2. DOMAIN <<>> = {}
      OBVIOUS
    <2> WITNESS Len(q) \in Nat
    <2> QED BY <1>1, <2>1, <2>2
  <1> QED BY <1>2, <1>3

\* A poll carries the first messages of a queue over to the pending ones.
Polls(q) ==
  \E a \in Nat :
    /\ \A i, m : Holds(q, i, m)' => i > 0 /\ Holds(q, i + a, m)
    /\ \A i, m : Holds("pend", i, m)' => i <= a /\ Holds(q, i, m)
    /\ \A i, m : Holds(q, i, m) => Holds("pend", i, m)' \/ Holds(q, i - a, m)'
    /\ \A i, m : ~Holds("pend", i, m)

LEMMA SteeringPolled ==
  ASSUME TypeInv, pend = <<>>, pend' = Drained(steer), steer' = Left(steer)
  PROVE  Polls("steer")
  <1>1. steer \in Seq(QueuedMsg({"steer"}))
    BY SessionFacts
  <1>2. PICK a \in Nat :
           /\ \A i : i \in DOMAIN pend' <=> i \in DOMAIN steer /\ i <= a
           /\ \A i \in DOMAIN pend' : pend'[i] = steer[i]
           /\ \A i \in Int : i \in DOMAIN steer' <=> i > 0 /\ i + a \in DOMAIN steer
           /\ \A i \in DOMAIN steer' : i \in Int /\ steer'[i] = steer[i + a]
    BY <1>1, PollSplits
  <1>3. \A i \in DOMAIN steer : i \in Int /\ i > 0
    BY <1>1, LenProperties
  <1>4. \A i, m : /\ Holds("steer", i, m) <=> InSteer(i, m)
                  /\ Holds("steer", i, m)' <=> InSteer(i, m)'
                  /\ Holds("pend", i, m)' <=> InPend(i, m)'
                  /\ ~Holds("pend", i, m)
    BY DEF Holds, InPend
  <1>5. \A i, m : InSteer(i, m)' => i > 0 /\ InSteer(i + a, m)
    BY <1>2 DEF InSteer
  <1>6. \A i, m : InPend(i, m)' => i <= a /\ InSteer(i, m)
    BY <1>2 DEF InSteer, InPend
  <1>7. ASSUME NEW i, NEW m, InSteer(i, m) PROVE InPend(i, m)' \/ InSteer(i - a, m)'
    <2>1. i \in DOMAIN steer /\ steer[i].m = m /\ i \in Int /\ i > 0
      BY <1>3, <1>7 DEF InSteer
    <2>2. CASE i <= a
      BY <1>2, <2>1, <2>2 DEF InPend
    <2>3. CASE ~(i <= a)
      <3>1. i - a \in Int /\ i - a > 0 /\ (i - a) + a = i
        BY <2>1, <2>3
      <3>2. i - a \in DOMAIN steer' /\ steer'[i - a] = steer[(i - a) + a]
        BY <1>2, <2>1, <3>1
      <3> QED BY <2>1, <3>1, <3>2, Zenon DEF InSteer
    <2> QED BY <2>2, <2>3
  <1> QED BY <1>4, <1>5, <1>6, <1>7 DEF Polls

LEMMA FollowUpsPolled ==
  ASSUME TypeInv, pend = <<>>, pend' = Drained(follow), follow' = Left(follow)
  PROVE  Polls("follow")
  <1>1. follow \in Seq(QueuedMsg({"follow"}))
    BY SessionFacts
  <1>2. PICK a \in Nat :
           /\ \A i : i \in DOMAIN pend' <=> i \in DOMAIN follow /\ i <= a
           /\ \A i \in DOMAIN pend' : pend'[i] = follow[i]
           /\ \A i \in Int : i \in DOMAIN follow' <=> i > 0 /\ i + a \in DOMAIN follow
           /\ \A i \in DOMAIN follow' : i \in Int /\ follow'[i] = follow[i + a]
    BY <1>1, PollSplits
  <1>3. \A i \in DOMAIN follow : i \in Int /\ i > 0
    BY <1>1, LenProperties
  <1>4. \A i, m : /\ Holds("follow", i, m) <=> InFollow(i, m)
                  /\ Holds("follow", i, m)' <=> InFollow(i, m)'
                  /\ Holds("pend", i, m)' <=> InPend(i, m)'
                  /\ ~Holds("pend", i, m)
    BY DEF Holds, InPend
  <1>5. \A i, m : InFollow(i, m)' => i > 0 /\ InFollow(i + a, m)
    BY <1>2 DEF InFollow
  <1>6. \A i, m : InPend(i, m)' => i <= a /\ InFollow(i, m)
    BY <1>2 DEF InFollow, InPend
  <1>7. ASSUME NEW i, NEW m, InFollow(i, m) PROVE InPend(i, m)' \/ InFollow(i - a, m)'
    <2>1. i \in DOMAIN follow /\ follow[i].m = m /\ i \in Int /\ i > 0
      BY <1>3, <1>7 DEF InFollow
    <2>2. CASE i <= a
      BY <1>2, <2>1, <2>2 DEF InPend
    <2>3. CASE ~(i <= a)
      <3>1. i - a \in Int /\ i - a > 0 /\ (i - a) + a = i
        BY <2>1, <2>3
      <3>2. i - a \in DOMAIN follow' /\ follow'[i - a] = follow[(i - a) + a]
        BY <1>2, <2>1, <3>1
      <3> QED BY <2>1, <3>1, <3>2, Zenon DEF InFollow
    <2> QED BY <2>2, <2>3
  <1> QED BY <1>4, <1>5, <1>6, <1>7 DEF Polls

\* The custom messages that wait are recorded, all together.
Flushes ==
  \E a \in Nat, b \in Nat :
    /\ \A i, m : ~Holds("customs", i, m)'
    /\ \A i, m : Holds("ctx", i, m)' => Holds("ctx", i, m) \/ (i - b <= a /\ Holds("customs", i - b, m))
    /\ \A i, m : Holds("ctx", i, m) => Holds("ctx", i, m)'
    /\ \A i, m : Holds("customs", i, m) => Holds("ctx", i + b, m)'

LEMMA FlushesAt ==
  ASSUME TypeInv, Extended, customs' = <<>>, NEW b \in Nat, NEW a \in Nat,
         Len(ctx') = Len(ctx) + b + Len(customs) + a,
         \A k \in DOMAIN customs : ctx'[Len(ctx) + b + k] = Custom(customs[k]),
         \A i \in Added : i <= Len(ctx) + b \/ i > Len(ctx) + b + Len(customs)
                            => ctx'[i] \in Rejections
  PROVE  Flushes
  <1>1. /\ DOMAIN customs = 1 .. Len(customs) /\ Len(customs) \in Nat
        /\ Len(ctx) \in Nat /\ DOMAIN ctx = 1 .. Len(ctx) /\ DOMAIN ctx' = 1 .. Len(ctx')
        /\ \A i \in DOMAIN ctx : i \in DOMAIN ctx' /\ ctx'[i] = ctx[i]
        /\ \A i \in DOMAIN ctx' : i \notin DOMAIN ctx => i \in Added
    BY SessionFacts, LenProperties DEF Extended, Added
  <1>2. PICK c : c = Len(ctx) + b
    OBVIOUS
  <1>3. c \in Nat /\ Len(customs) \in Nat
    BY <1>1, <1>2
  <1>4. \A i, m : /\ Holds("customs", i, m) <=> InCustoms(i, m)
                  /\ Holds("ctx", i, m) <=> InCtx(i, m)
                  /\ Holds("ctx", i, m)' <=> InCtx(i, m)'
    BY DEF Holds
  <1>5. \A i, m : ~Holds("customs", i, m)'
    BY DEF Holds, InCustoms
  <1>6. \A i, m : InCtx(i, m) => InCtx(i, m)'
    BY <1>1 DEF InCtx
  <1>7. ASSUME NEW i, NEW m, InCtx(i, m)', ~InCtx(i, m)
        PROVE  i - c <= Len(customs) /\ InCustoms(i - c, m)
    <2>1. i \in DOMAIN ctx' /\ ctx'[i].kind \in {"message", "custom"} /\ ctx'[i].m = m
      BY <1>7 DEF InCtx
    <2>2. i \in Added /\ i \in Int /\ i > Len(ctx)
      <3>1. i \notin DOMAIN ctx
        BY <1>1, <1>7, <2>1 DEF InCtx
      <3> QED BY <1>1, <2>1, <3>1 DEF Added
    <2>3. ~(i <= Len(ctx) + b \/ i > Len(ctx) + b + Len(customs))
      BY <2>1, <2>2 DEF Rejections
    <2>4. i - c \in DOMAIN customs /\ c + (i - c) = i
      BY <1>1, <1>2, <2>2, <2>3
    <2>5. ctx'[c + (i - c)] = Custom(customs[i - c])
      BY <1>2, <2>4, Zenon
    <2>6. ctx'[i] = Custom(customs[i - c])
      BY <2>4, <2>5, Zenon
    <2>7. customs[i - c] = m
      BY <2>1, <2>6 DEF Custom
    <2> QED BY <1>1, <2>4, <2>7 DEF InCustoms
  <1>8. ASSUME NEW i, NEW m, InCustoms(i, m) PROVE InCtx(i + c, m)'
    <2>1. i \in DOMAIN customs /\ customs[i] = m
      BY <1>8 DEF InCustoms
    <2>2. c + i = i + c /\ c + i \in DOMAIN ctx'
      BY <1>1, <1>2, <2>1
    <2>3. ctx'[c + i] = Custom(m)
      BY <1>2, <2>1, Zenon
    <2>4. ctx'[c + i].kind = "custom" /\ ctx'[c + i].m = m
      BY <2>3 DEF Custom
    <2> QED BY <2>2, <2>4, Zenon DEF InCtx
  <1> QED BY <1>3, <1>4, <1>5, <1>6, <1>7, <1>8 DEF Flushes

LEMMA EndTurnFlushes ==
  ASSUME TypeInv, EndTurn
  PROVE  Flushes
  <1>1. PICK b \in 0 .. 1, a \in 0 .. 1 :
           /\ b + a <= 1 /\ Len(ctx') = Len(ctx) + b + Len(customs) + a
           /\ \A k \in DOMAIN customs : ctx'[Len(ctx) + b + k] = Custom(customs[k])
           /\ \A i \in Added : i <= Len(ctx) + b \/ i > Len(ctx) + b + Len(customs)
                                 => ctx'[i] \in Rejections
    BY EndTurnAdds
  <1>2. b \in Nat /\ a \in Nat
    OBVIOUS
  <1>3. Extended /\ customs' = <<>>
    BY LoopExtended DEF LoopActs, EndTurn
  <1> QED BY <1>1, <1>2, <1>3, FlushesAt

LEMMA RecordFlushes ==
  ASSUME TypeInv, ctx' = ctx \o Flushed, customs' = <<>>
  PROVE  Flushes
  <1>1. /\ customs \in Seq(Customs) /\ Flushed \in Seq(Entry) /\ Len(Flushed) = Len(customs)
        /\ \A i \in DOMAIN Flushed : i \in DOMAIN customs /\ Flushed[i] = Custom(customs[i])
    BY SessionFacts, FlushedTypes
  <1>2. /\ DOMAIN customs = 1 .. Len(customs) /\ Len(customs) \in Nat
        /\ DOMAIN Flushed = 1 .. Len(Flushed)
        /\ ctx \in Seq(Entry) /\ Len(ctx) \in Nat
    BY <1>1, BatchFacts, LenProperties
  <1>3. Extended
    <2>1. Grows
      BY <1>1 DEF Grows
    <2> QED BY <2>1, GrowsExtended
  <1>4. /\ Len(ctx') = Len(ctx) + Len(Flushed)
        /\ \A i \in 1 .. Len(ctx) + Len(Flushed) :
             ctx'[i] = IF i <= Len(ctx) THEN ctx[i] ELSE Flushed[i - Len(ctx)]
    BY <1>1, <1>2, Concat
  <1>5. Len(ctx') = Len(ctx) + 0 + Len(customs) + 0
    BY <1>1, <1>2, <1>4
  <1>6. ASSUME NEW k \in DOMAIN customs PROVE ctx'[Len(ctx) + 0 + k] = Custom(customs[k])
    <2>1. /\ Len(ctx) + 0 + k \in 1 .. Len(ctx) + Len(Flushed) /\ ~(Len(ctx) + 0 + k <= Len(ctx))
          /\ (Len(ctx) + 0 + k) - Len(ctx) = k /\ k \in DOMAIN Flushed
      BY <1>1, <1>2
    <2> QED BY <1>1, <1>4, <2>1
  <1>7. \A i \in Added : ~(i <= Len(ctx) + 0 \/ i > Len(ctx) + 0 + Len(customs))
    BY <1>2, <1>5 DEF Added
  <1> QED BY <1>3, <1>5, <1>6, <1>7, FlushesAt

LEMMA CtxSame ==
  ASSUME Extended, \A i \in Added : ctx'[i].kind \notin {"message", "custom"}
  PROVE  SameQueue("ctx")
  <1>1. /\ \A i \in DOMAIN ctx : i \in DOMAIN ctx' /\ ctx'[i] = ctx[i]
        /\ \A i \in DOMAIN ctx' : i \notin DOMAIN ctx => i \in Added
    BY DEF Extended, Added
  <1>2. \A i, m : InCtx(i, m)' <=> InCtx(i, m)
    BY <1>1 DEF InCtx
  <1> QED BY <1>2 DEF SameQueue, Holds

\* The steps that carry messages over and lose none: a poll, a flush, or both.
PollPart ==
  \/ SameQueue("steer") /\ SameQueue("follow") /\ SameQueue("pend")
  \/ Polls("steer") /\ SameQueue("follow")
  \/ Polls("follow") /\ SameQueue("steer")
FlushPart == (SameQueue("customs") /\ SameQueue("ctx")) \/ Flushes
RestPart == SameQueue("next") /\ SameQueue("deferred") /\ SameQueue("front")

Names == {"steer", "follow", "pend", "next", "customs", "deferred", "ctx", "front"}

LEMMA NoSuchQueue == \A n, i, m : n \notin Names => ~Holds(n, i, m) /\ ~Holds(n, i, m)'
  BY DEF Names, Holds

LEMMA CarriedBack ==
  ASSUME TypeInv, TypeInv', FlushPart, RestPart,
         \/ PollPart
         \/ SameQueue("steer") /\ SameQueue("follow") /\ pend' = <<>>
  PROVE  \A m : Conserves(m)
  <1> TAKE m
  <1> DEFINE Sources ==
        \E q \in {"steer", "follow", "none"}, a \in Int :
          /\ \A n \in {"steer", "follow", "pend"} : \A i : n # q /\ Holds(n, i, m)' =>
               Holds(n, i, m) \/ (n = "pend" /\ i - 0 <= a /\ Holds(q, i - 0, m))
          /\ \A i : Holds(q, i, m)' => i > 0 /\ Holds(q, i + a, m)
  <1>1. Sources
    <2>1. \A n, i : Holds(n, i, m)' => i \in Int /\ i - 0 = i
      BY Positions
    <2>2. CASE SameQueue("steer") /\ SameQueue("follow")
               /\ (SameQueue("pend") \/ pend' = <<>>)
      <3>1. \A i : Holds("pend", i, m)' => Holds("pend", i, m)
        <4>1. ASSUME pend' = <<>>, NEW i PROVE ~Holds("pend", i, m)'
          BY <4>1 DEF Holds, InPend
        <4> QED BY <2>2, <4>1 DEF SameQueue
      <3>2. \A n \in {"steer", "follow", "pend"} : \A i : Holds(n, i, m)' => Holds(n, i, m)
        BY <2>2, <3>1 DEF SameQueue
      <3>3. \A i : ~Holds("none", i, m)'
        BY NoSuchQueue DEF Names
      <3>4. 0 \in Int
        OBVIOUS
      <3> QED BY <3>2, <3>3, <3>4
    <2>3. ASSUME NEW q \in {"steer", "follow"}, Polls(q),
                 \A n \in {"steer", "follow"} : n # q => SameQueue(n)
          PROVE  Sources
      <3>1. PICK a \in Nat :
              /\ \A i, k : Holds(q, i, k)' => i > 0 /\ Holds(q, i + a, k)
              /\ \A i, k : Holds("pend", i, k)' => i <= a /\ Holds(q, i, k)
        BY <2>3 DEF Polls
      <3>2. ASSUME NEW n \in {"steer", "follow", "pend"}, NEW i, n # q, Holds(n, i, m)'
            PROVE  Holds(n, i, m) \/ (n = "pend" /\ i - 0 <= a /\ Holds(q, i - 0, m))
        <4>1. CASE n = "pend"
          <5>1. i <= a /\ Holds(q, i, m) /\ i - 0 = i
            BY <2>1, <3>1, <3>2, <4>1
          <5> QED BY <4>1, <5>1
        <4>2. CASE n # "pend"
          BY <2>3, <3>2, <4>2 DEF SameQueue
        <4> QED BY <4>1, <4>2
      <3>3. a \in Int /\ q \in {"steer", "follow", "none"}
        OBVIOUS
      <3> QED BY <3>1, <3>2, <3>3
    <2> QED BY <2>2, <2>3 DEF PollPart
  <1>2. \E q \in {"customs", "nobody"}, a \in Int, b \in Int :
          /\ \A n \in {"customs", "ctx"} : \A i : n # q /\ Holds(n, i, m)' =>
               Holds(n, i, m) \/ (n = "ctx" /\ i - b <= a /\ Holds(q, i - b, m))
          /\ \A i : Holds(q, i, m)' => i > 0 /\ Holds(q, i + a, m)
    <2>1. CASE SameQueue("customs") /\ SameQueue("ctx")
      <3>1. \A n \in {"customs", "ctx"} : \A i : Holds(n, i, m)' => Holds(n, i, m)
        BY <2>1 DEF SameQueue
      <3>2. \A i : ~Holds("nobody", i, m)'
        BY NoSuchQueue DEF Names
      <3>3. 0 \in Int
        OBVIOUS
      <3> QED BY <3>1, <3>2, <3>3
    <2>2. CASE Flushes
      <3>1. PICK a \in Nat, b \in Nat :
              /\ \A i, k : ~Holds("customs", i, k)'
              /\ \A i, k : Holds("ctx", i, k)' =>
                   Holds("ctx", i, k) \/ (i - b <= a /\ Holds("customs", i - b, k))
        BY <2>2 DEF Flushes
      <3>2. a \in Int /\ b \in Int
        OBVIOUS
      <3> QED BY <3>1, <3>2
    <2> QED BY <2>1, <2>2 DEF FlushPart
  <1>3. PICK q1 \in {"steer", "follow", "none"}, a1 \in Int :
          /\ \A n \in {"steer", "follow", "pend"} : \A i : n # q1 /\ Holds(n, i, m)' =>
               Holds(n, i, m) \/ (n = "pend" /\ i - 0 <= a1 /\ Holds(q1, i - 0, m))
          /\ \A i : Holds(q1, i, m)' => i > 0 /\ Holds(q1, i + a1, m)
    BY <1>1
  <1>4. PICK q2 \in {"customs", "nobody"}, a2 \in Int, b2 \in Int :
          /\ \A n \in {"customs", "ctx"} : \A i : n # q2 /\ Holds(n, i, m)' =>
               Holds(n, i, m) \/ (n = "ctx" /\ i - b2 <= a2 /\ Holds(q2, i - b2, m))
          /\ \A i : Holds(q2, i, m)' => i > 0 /\ Holds(q2, i + a2, m)
    BY <1>2
  <1>5. ASSUME NEW n, NEW i, n \notin {q1, q2}, Holds(n, i, m)'
        PROVE  \/ Holds(n, i, m)
               \/ n = "pend" /\ i - 0 <= a1 /\ Holds(q1, i - 0, m)
               \/ n = "ctx" /\ i - b2 <= a2 /\ Holds(q2, i - b2, m)
    <2>1. CASE n \in {"steer", "follow", "pend"}
      BY <1>3, <1>5, <2>1, Zenon
    <2>2. CASE n \in {"customs", "ctx"}
      BY <1>4, <1>5, <2>2, Zenon
    <2>3. CASE n \in {"next", "deferred", "front"}
      BY <1>5, <2>3 DEF RestPart, SameQueue
    <2>4. n \in Names
      BY <1>5, NoSuchQueue
    <2> QED BY <2>1, <2>2, <2>3, <2>4 DEF Names
  <1>6. \A n, i : Holds(n, i, m)' => i \in Int
    BY Positions
  <1>7. q1 # q2 /\ 0 \in Int
    OBVIOUS
  <1>8. Flows(q1, a1, "pend", 0, q2, a2, "ctx", b2, m)
    BY <1>3, <1>4, <1>5, <1>6 DEF Flows
  <1> QED BY <1>7, <1>8, Flow

LEMMA CarriedOn ==
  ASSUME PollPart, FlushPart, RestPart
  PROVE  \A m : Keeps(m)
  <1> SUFFICES ASSUME NEW m, NEW n, NEW i, Holds(n, i, m) PROVE Somewhere(m)'
    BY DEF Keeps, Somewhere
  <1>1. n \in Names
    BY NoSuchQueue
  <1>2. CASE n \in {"steer", "follow", "pend"}
    <2>1. Holds(n, i, m)' \/ \E j : Holds("pend", j, m)' \/ Holds(n, j, m)'
      BY <1>2 DEF PollPart, Polls, SameQueue
    <2> QED BY <2>1 DEF Somewhere
  <1>3. CASE n \in {"customs", "ctx"}
    <2>1. Holds(n, i, m)' \/ \E j : Holds("ctx", j, m)'
      BY <1>3 DEF FlushPart, Flushes, SameQueue
    <2> QED BY <2>1 DEF Somewhere
  <1>4. CASE n \in {"next", "deferred", "front"}
    BY <1>4 DEF RestPart, SameQueue, Somewhere
  <1> QED BY <1>1, <1>2, <1>3, <1>4 DEF Names

\* A step that sends nothing carries every message over, or accounts for it.
Accounts ==
  /\ sent' = sent /\ returned \subseteq returned' /\ dropped \subseteq dropped'
  /\ thrown => thrown'
  /\ \A m \in Messages :
       Conserves(m) /\ (Keeps(m) \/ m \in returned' \cup dropped' \cup Customs \/ thrown')

LEMMA CarriedAccounts ==
  ASSUME TypeInv, TypeInv', PollPart, FlushPart, RestPart,
         sent' = sent, returned' = returned, dropped' = dropped, thrown => thrown'
  PROVE  Accounts
  BY CarriedBack, CarriedOn DEF Accounts

LEMMA LostAccounts ==
  ASSUME TypeInv, TypeInv', SameQueue("steer"), SameQueue("follow"), pend' = <<>>, FlushPart, RestPart,
         sent' = sent, returned' = returned, dropped' = dropped, thrown'
  PROVE  Accounts
  BY CarriedBack DEF Accounts

LEMMA DeliverAccounts ==
  ASSUME TypeInv, TypeInv', Extended, AddsMessage, UNCHANGED <<nextTurn, deferred, front, customs>>,
         sent' = sent, returned' = returned, dropped' = dropped
  PROVE  Accounts
  <1>1. /\ pend # <<>> /\ pend' = Tail(pend)
        /\ UNCHANGED <<steer, follow, thrown>>
    BY DEF AddsMessage, Deliver
  <1>2. UNCHANGED <<nextTurn, deferred, front, customs>>
    OBVIOUS
  <1>3. PICK n : n = Len(ctx)
    OBVIOUS
  <1>4. /\ n \in Nat /\ Added = {n + 1} /\ ctx'[n + 1] = Delivered(pend[1])
        /\ DOMAIN ctx = 1 .. n /\ n + 1 \in DOMAIN ctx'
        /\ \A i \in DOMAIN ctx : i \in DOMAIN ctx' /\ ctx'[i] = ctx[i]
        /\ \A i \in DOMAIN ctx' : i \notin DOMAIN ctx => i = n + 1
    <2>1. Added = {Len(ctx) + 1} /\ ctx'[Len(ctx) + 1] = Delivered(pend[1])
      BY <1>1 DEF AddsMessage
    <2>2. Len(ctx) + 1 \in DOMAIN ctx'
      <3>1. Len(ctx) + 1 \in Added
        BY <2>1
      <3> QED BY <3>1 DEF Extended, Added
    <2>3. /\ \A i \in DOMAIN ctx : i \in DOMAIN ctx' /\ ctx'[i] = ctx[i]
          /\ \A i \in DOMAIN ctx' : i \notin DOMAIN ctx => i \in Added
      BY DEF Extended, Added
    <2> QED BY <1>3, <2>1, <2>2, <2>3 DEF Extended
  <1>5. /\ pend \in Seq(QueuedMsg({"prompt", "steer", "follow"}))
        /\ DOMAIN pend = 1 .. Len(pend) /\ Len(pend) \in Nat
    BY LenProperties DEF TypeInv, LoopInv, LoopTypes
  <1>6. /\ 1 \in DOMAIN pend /\ DOMAIN pend' = 1 .. Len(pend) - 1
        /\ \A i \in DOMAIN pend' : pend'[i] = pend[i + 1]
    BY <1>1, <1>5, EmptySeq, HeadTailProperties, LenProperties
  <1>7. /\ \A i, m : InPend(i, m)' => i > 0 /\ InPend(i + 1, m)
        /\ \A i, m : InPend(i, m) => i = 1 \/ InPend(i - 1, m)'
    <2>1. ASSUME NEW i, NEW m, InPend(i, m)' PROVE i > 0 /\ InPend(i + 1, m)
      BY <1>5, <1>6, <2>1 DEF InPend
    <2>2. ASSUME NEW i, NEW m, InPend(i, m), i # 1 PROVE InPend(i - 1, m)'
      <3>1. i \in DOMAIN pend /\ pend[i].m = m
        BY <2>2 DEF InPend
      <3>2. i - 1 \in DOMAIN pend' /\ (i - 1) + 1 = i
        BY <1>5, <1>6, <2>2, <3>1
      <3>3. pend'[i - 1] = pend[(i - 1) + 1]
        BY <1>6, <3>2
      <3> QED BY <3>1, <3>2, <3>3, Zenon DEF InPend
    <2> QED BY <2>1, <2>2
  <1>8. /\ \A i, m : InCtx(i, m)' => InCtx(i, m) \/ (i = n + 1 /\ InPend(1, m))
        /\ \A i, m : InCtx(i, m) => InCtx(i, m)'
        /\ \A m : InPend(1, m) => InCtx(n + 1, m)'
    BY <1>4, <1>6 DEF InCtx, InPend, Delivered
  <1>9. \A i, m : /\ Holds("pend", i, m) <=> InPend(i, m)
                  /\ Holds("pend", i, m)' <=> InPend(i, m)'
                  /\ Holds("ctx", i, m) <=> InCtx(i, m)
                  /\ Holds("ctx", i, m)' <=> InCtx(i, m)'
    BY DEF Holds
  <1>10. \A k \in Names \ {"pend", "ctx"} : SameQueue(k)
    BY <1>1, <1>2, SameQueues DEF Names
  <1>11. ASSUME NEW m PROVE Conserves(m)
    <2>1. \A k, i : Holds(k, i, m)' => i \in Int
      BY Positions
    <2>2. ASSUME NEW k, NEW i, k # "pend", Holds(k, i, m)'
          PROVE  Holds(k, i, m) \/ (k = "ctx" /\ i - n <= 1 /\ Holds("pend", i - n, m))
      <3>1. CASE k = "ctx"
        <4>1. InCtx(i, m) \/ (i = n + 1 /\ InPend(1, m))
          BY <1>8, <1>9, <2>2, <3>1
        <4>2. i = n + 1 => i - n = 1
          BY <1>4
        <4> QED BY <1>9, <3>1, <4>1, <4>2
      <3>2. CASE k # "ctx"
        <4>1. k \in Names \ {"pend", "ctx"}
          BY <2>2, <3>2, NoSuchQueue
        <4> QED BY <1>10, <2>2, <4>1 DEF SameQueue
      <3> QED BY <3>1, <3>2
    <2>3. \A i : Holds("pend", i, m)' => i > 0 /\ Holds("pend", i + 1, m)
      BY <1>7, <1>9
    <2>4. n \in Int /\ 1 \in Int
      BY <1>4
    <2>5. FlowsOne("pend", 1, "ctx", n, m)
      BY <2>1, <2>2, <2>3 DEF FlowsOne
    <2> QED BY <2>4, <2>5, FlowOne
  <1>12. ASSUME NEW m PROVE Keeps(m)
    <2> SUFFICES ASSUME NEW k, NEW i, Holds(k, i, m) PROVE Somewhere(m)'
      BY DEF Keeps, Somewhere
    <2>1. k \in Names
      BY NoSuchQueue
    <2>2. CASE k = "pend"
      BY <1>7, <1>8, <1>9, <2>2 DEF Somewhere
    <2>3. CASE k = "ctx"
      BY <1>8, <1>9, <2>3 DEF Somewhere
    <2>4. CASE k \notin {"pend", "ctx"}
      BY <1>10, <2>1, <2>4 DEF SameQueue, Somewhere
    <2> QED BY <2>2, <2>3, <2>4
  <1> QED BY <1>1, <1>2, <1>11, <1>12 DEF Accounts

LEMMA LoopAccounts ==
  ASSUME TypeInv, TypeInv', PendInv, LoopActs
  PROVE  Accounts
  <1>0. Extended
    BY LoopExtended
  <1>1. CASE RunStep
    <2>1. /\ UNCHANGED <<nextTurn, deferred, front, customs>> /\ sent' = sent /\ returned' = returned
          /\ dropped' = dropped
      BY <1>1 DEF RunStep, callVars
    <2>2. CASE AddsMessage
      <3>1. UNCHANGED <<pc, thrown>>
        BY <2>2 DEF AddsMessage, Deliver
      <3> QED BY <1>0, <2>1, <2>2, DeliverAccounts
    <2>3. CASE AddsAnswer \/ AddsResults
      <3>1. SameQueue("ctx")
        BY <1>0, <2>3, CtxSame DEF AddsAnswer, AddsResults
      <3>2. CASE FirstPoll
        <4>1. /\ pend = <<>> /\ follow' = follow /\ thrown' = thrown
              /\ \/ pend' = pend /\ steer' = steer
                 \/ pend' = Drained(steer) /\ steer' = Left(steer)
          BY <3>2, Zenon DEF FirstPoll
        <4>2. PollPart
          BY <4>1, SteeringPolled, SameQueues DEF PollPart
        <4> QED BY <2>1, <3>1, <4>1, <4>2, CarriedAccounts, SameQueues DEF FlushPart, RestPart
      <3>3. CASE Prepared
        <4>1. /\ follow' = follow /\ thrown' = thrown
              /\ \/ pend' = pend /\ steer' = steer
                 \/ pend = <<>> /\ pend' = Drained(steer) /\ steer' = Left(steer)
          BY <3>3, Zenon DEF Prepared
        <4>2. PollPart
          BY <4>1, SteeringPolled, SameQueues DEF PollPart
        <4> QED BY <2>1, <3>1, <4>1, <4>2, CarriedAccounts, SameQueues DEF FlushPart, RestPart
      <3>4. CASE ~FirstPoll /\ ~Prepared /\ ~Deliver
        <4>1. UNCHANGED <<steer, follow, pend, thrown>>
          BY <1>1, <3>4, Zenon DEF RunStep, OutOfBudget, Answer, Refuse, PrepareCall, CutBatch, FinishCall,
             CollectResults, FinishTurn
        <4>2. PollPart
          BY <4>1, SameQueues DEF PollPart
        <4> QED BY <2>1, <3>1, <4>1, <4>2, CarriedAccounts, SameQueues DEF FlushPart, RestPart
      <3>5. CASE Deliver
        <4>1. AddsMessage
          <5>1. pend # <<>> /\ ctx' = Append(ctx, Delivered(Head(pend)))
            BY <3>5 DEF Deliver
          <5>2. Head(pend) \in QueuedMsg({"prompt", "steer", "follow"})
            BY <5>1, HeadTailProperties DEF TypeInv, LoopInv, LoopTypes
          <5>3. Added = {Len(ctx) + 1} /\ ctx'[Len(ctx) + 1] = Delivered(Head(pend))
            BY <5>1, <5>2, Entries, AppendExtended
          <5> QED BY <3>5, <5>1, <5>2, <5>3 DEF AddsMessage
        <4> QED BY <2>2, <4>1
      <3> QED BY <3>2, <3>3, <3>4, <3>5
    <2> QED BY <1>1, <2>2, <2>3, RunStepAdds
  <1>2. CASE EndTurn
    <2>1. /\ UNCHANGED <<nextTurn, deferred, front>> /\ sent' = sent /\ returned' = returned
          /\ dropped' = dropped
      BY <1>2 DEF EndTurn, callVars
    <2>2. RestPart /\ FlushPart
      BY <1>2, <2>1, SameQueues, EndTurnFlushes DEF RestPart, FlushPart
    <2>3. ASSUME NEW stop, NEW repeated, TurnEnd(stop, repeated, Flushed) PROVE Accounts
      <3>1. pc = "polling" /\ thrown' = thrown
        BY <2>3 DEF TurnEnd
      <3>2. pend = <<>>
        BY <3>1 DEF PendInv
      <3>3. \/ UNCHANGED <<steer, follow, pend>>
            \/ steer' = Left(steer) /\ follow' = follow /\ pend' = Drained(steer)
            \/ /\ steer' = Left(steer) /\ Drained(steer) = <<>>
               /\ follow' = Left(follow) /\ pend' = Drained(follow)
        BY <2>3, Zenon DEF TurnEnd
      <3>4. Drained(steer) = <<>> => Left(steer) = steer
        BY SessionFacts, NoElement DEF Drained, Left
      <3>5. PollPart
        BY <3>2, <3>3, <3>4, SteeringPolled, FollowUpsPolled, SameQueues DEF PollPart
      <3> QED BY <2>1, <2>2, <3>1, <3>5, CarriedAccounts
    <2>4. ASSUME FailedTurnEnd(Flushed) PROVE Accounts
      <3>1. UNCHANGED <<steer, follow, pend, thrown>>
        BY <2>4 DEF FailedTurnEnd
      <3>2. PollPart
        BY <3>1, SameQueues DEF PollPart
      <3> QED BY <2>1, <2>2, <3>1, <3>2, CarriedAccounts
    <2>5. ASSUME NEW s, RunFails(s, Flushed) PROVE Accounts
      <3>1. UNCHANGED <<steer, follow>> /\ pend' = <<>> /\ thrown'
        BY <2>5 DEF RunFails
      <3> QED BY <2>1, <2>2, <3>1, SameQueues, LostAccounts
    <2> QED BY <1>2, <2>3, <2>4, <2>5, Zenon DEF EndTurn
  <1>3. CASE BreakRun
    <2>1. /\ UNCHANGED <<nextTurn, deferred, front, customs>> /\ sent' = sent /\ returned' = returned
          /\ dropped' = dropped
          /\ UNCHANGED <<steer, follow>> /\ pend' = <<>> /\ thrown'
      BY <1>3 DEF BreakRun, RunBreaks, queueVars, callVars
    <2>2. SameQueue("ctx")
      BY <1>3, BreakRunAdds, CtxSame DEF Rejections
    <2> QED BY <2>1, <2>2, SameQueues, LostAccounts DEF FlushPart, RestPart
  <1> QED BY <1>1, <1>2, <1>3 DEF LoopActs

\* What a queue shows, and what handlers defer, one at a time; a preflight is
\* only there while the session is idle.
ShownInv ==
  /\ \A k \in DOMAIN steer : steer[k].m \in Users =>
       \E i \in DOMAIN mirror.steer : mirror.steer[i] = steer[k].m
  /\ \A k \in DOMAIN follow : follow[k].m \in Users =>
       \E i \in DOMAIN mirror.follow : mirror.follow[i] = follow[k].m
WaitInv ==
  /\ \A i \in DOMAIN deferred : i = 1
  /\ front.at = "preflight" => sc = "idle"

LEMMA ContinuePolls ==
  ASSUME TypeInv, PendInv, NEW role, Continue(role)
  PROVE  PollPart /\ thrown' = thrown
  <1>1. /\ pc = "off" /\ thrown' = thrown
        /\ \/ pend' = <<>> /\ UNCHANGED <<steer, follow>>
           \/ pend' = Drained(steer) /\ steer' = Left(steer) /\ follow' = follow
           \/ pend' = Drained(follow) /\ follow' = Left(follow) /\ steer' = steer
    BY Zenon DEF Continue, Start
  <1>2. pend = <<>>
    BY <1>1 DEF PendInv
  <1> QED BY <1>1, <1>2, SteeringPolled, FollowUpsPolled, SameQueues DEF PollPart

LEMMA GoOnPolls ==
  ASSUME TypeInv, PendInv, GoOn \/ GoOnIfQueued \/ Rest \/ \E c \in Control : Wait(c)
  PROVE  PollPart /\ thrown' = thrown /\ ctx' = ctx
  <1>1. ASSUME UNCHANGED loopVars PROVE PollPart /\ thrown' = thrown /\ ctx' = ctx
    <2>1. UNCHANGED <<steer, follow, pend, thrown, ctx>>
      BY <1>1 DEF loopVars
    <2> QED BY <2>1, SameQueues DEF PollPart
  <1>2. ASSUME GoOn PROVE PollPart /\ thrown' = thrown /\ ctx' = ctx
    <2>1. (Continue(LastRole) /\ ctx' = ctx) \/ UNCHANGED loopVars
      BY <1>2, Zenon DEF GoOn
    <2> QED BY <1>1, <2>1, ContinuePolls
  <1>3. Rest \/ (\E c \in Control : Wait(c)) => UNCHANGED loopVars
    BY DEF Rest, Wait
  <1> QED BY <1>1, <1>2, <1>3 DEF GoOnIfQueued

LEMMA StillAccounts ==
  ASSUME TypeInv, TypeInv', UNCHANGED loopVars, UNCHANGED <<customs, nextTurn, deferred>>,
         front'.m = front.m, sent' = sent, returned' = returned, dropped' = dropped
  PROVE  Accounts
  <1>1. UNCHANGED <<steer, follow, pend, thrown, ctx>>
    BY DEF loopVars
  <1> QED BY <1>1, SameQueues, CarriedAccounts DEF PollPart, FlushPart, RestPart

LEMMA AfterAccounts ==
  ASSUME TypeInv, TypeInv', PendInv, queueVars' = queueVars, callVars' = callVars,
         GoOn \/ GoOnIfQueued \/ Rest \/ \E c \in Control : Wait(c)
  PROVE  Accounts
  <1>1. UNCHANGED <<customs, nextTurn, deferred, front>> /\ sent' = sent /\ returned' = returned
        /\ dropped' = dropped
    BY DEF queueVars, callVars
  <1>2. PollPart /\ thrown' = thrown /\ ctx' = ctx
    BY GoOnPolls
  <1> QED BY <1>1, <1>2, SameQueues, CarriedAccounts DEF FlushPart, RestPart

LEMMA BeforeAccounts ==
  ASSUME TypeInv, TypeInv', PendInv, NEW handlers \in BOOLEAN, NEW asked \in BOOLEAN,
         BeforeSettle(handlers, asked)
  PROVE  Accounts
  <1> DEFINE flush == IF handlers THEN Flushed ELSE <<>>
             role  == IF flush # <<>> THEN "custom" ELSE LastRole
  <1>1. /\ customs' = IF handlers THEN <<>> ELSE customs
        /\ UNCHANGED <<nextTurn, front, deferred>> /\ sent' = sent /\ returned' = returned
        /\ dropped' = dropped
    BY DEF BeforeSettle, callVars
  <1>2. \/ Continue(role) /\ ctx' = ctx \o flush
        \/ Record(flush)
    BY Zenon DEF BeforeSettle
  <1>3. ctx' = ctx \o flush
    BY <1>2 DEF Record
  <1> HIDE DEF role
  <1>4. FlushPart
    <2>1. CASE handlers
      BY <1>1, <1>3, <2>1, RecordFlushes DEF FlushPart
    <2>2. CASE ~handlers
      <3>1. ctx' = ctx /\ customs' = customs
        BY <1>1, <1>3, <2>2, BatchFacts, ConcatEmptySeq
      <3> QED BY <3>1, SameQueues DEF FlushPart
    <2> QED BY <2>1, <2>2
  <1>5. PollPart /\ thrown' = thrown
    <2>1. CASE Continue(role)
      BY <2>1, ContinuePolls
    <2>2. CASE Record(flush)
      <3>1. UNCHANGED <<steer, follow, pend, thrown>>
        BY <2>2 DEF Record
      <3> QED BY <3>1, SameQueues DEF PollPart
    <2> QED BY <1>2, <2>1, <2>2
  <1> QED BY <1>1, <1>4, <1>5, SameQueues, CarriedAccounts DEF RestPart

LEMMA FewerConserve ==
  ASSUME NEW m, \A n, i : Holds(n, i, m)' => Holds(n, i, m)
  PROVE  Conserves(m)
  BY DEF Conserves, Single, Somewhere

LEMMA ClearAccounts ==
  ASSUME TypeInv, TypeInv', ShownInv, ClearQueue
  PROVE  Accounts
  <1>1. /\ steer' = <<>> /\ follow' = <<>>
        /\ UNCHANGED <<pend, ctx, customs, nextTurn, front, deferred, thrown>> /\ sent' = sent
        /\ dropped' = dropped
        /\ returned' = returned \cup {mirror.steer[i] : i \in DOMAIN mirror.steer}
                                \cup {mirror.follow[i] : i \in DOMAIN mirror.follow}
    BY DEF ClearQueue, ClearQueues, callVars
  <1>2. \A n \in Names \ {"steer", "follow"} : SameQueue(n)
    BY <1>1, SameQueues DEF Names
  <1>3. \A i, m : ~Holds("steer", i, m)' /\ ~Holds("follow", i, m)'
    BY <1>1 DEF Holds, InSteer, InFollow
  <1>4. ASSUME NEW m PROVE Conserves(m)
    <2>1. ASSUME NEW n, NEW i, Holds(n, i, m)' PROVE Holds(n, i, m)
      <3>1. n \in Names \ {"steer", "follow"}
        BY <1>3, <2>1, NoSuchQueue
      <3> QED BY <1>2, <2>1, <3>1 DEF SameQueue
    <2> QED BY <2>1, FewerConserve
  <1>5. ASSUME NEW m \in Messages, Somewhere(m), ~Somewhere(m)' PROVE m \in returned' \cup Customs
    <2>1. PICK n, i : Holds(n, i, m)
      BY <1>5 DEF Somewhere
    <2>2. n \in {"steer", "follow"}
      <3>1. n \in Names /\ ~Holds(n, i, m)'
        BY <1>5, <2>1, NoSuchQueue DEF Somewhere
      <3> QED BY <1>2, <2>1, <3>1 DEF SameQueue
    <2>3. CASE m \in Users
      <3>1. \/ \E k \in DOMAIN mirror.steer : mirror.steer[k] = m
            \/ \E k \in DOMAIN mirror.follow : mirror.follow[k] = m
        BY <2>1, <2>2, <2>3 DEF Holds, InSteer, InFollow, ShownInv
      <3> QED BY <1>1, <3>1
    <2> QED BY <2>3 DEF Messages
  <1> QED BY <1>1, <1>4, <1>5 DEF Accounts, Keeps

LEMMA RefusedAccounts ==
  ASSUME TypeInv, TypeInv', PreflightRefused
  PROVE  Accounts
  <1>1. /\ UNCHANGED <<steer, follow, pend, ctx, customs, nextTurn, deferred, thrown>> /\ sent' = sent
        /\ dropped' = dropped /\ returned' = returned \cup {front.m} /\ front' = NoFront
    BY DEF PreflightRefused, loopVars
  <1>2. \A n \in Names \ {"front"} : SameQueue(n)
    BY <1>1, SameQueues DEF Names
  <1>3. \A m \in Messages : \A i : Holds("front", i, m)' => FALSE
    BY <1>1, SessionAssumption DEF Holds, InFront, NoFront, Messages
  <1>4. ASSUME NEW m \in Messages PROVE Conserves(m)
    <2>1. ASSUME NEW n, NEW i, Holds(n, i, m)' PROVE Holds(n, i, m)
      <3>1. n \in Names \ {"front"}
        BY <1>3, <2>1, NoSuchQueue
      <3> QED BY <1>2, <2>1, <3>1 DEF SameQueue
    <2> QED BY <2>1, FewerConserve
  <1>5. ASSUME NEW m \in Messages, Somewhere(m), ~Somewhere(m)' PROVE m \in returned'
    <2>1. PICK n, i : Holds(n, i, m)
      BY <1>5 DEF Somewhere
    <2>2. n = "front"
      <3>1. n \in Names /\ ~Holds(n, i, m)'
        BY <1>5, <2>1, NoSuchQueue DEF Somewhere
      <3> QED BY <1>2, <2>1, <3>1 DEF SameQueue
    <2> QED BY <1>1, <2>1, <2>2 DEF Holds, InFront
  <1> QED BY <1>1, <1>4, <1>5 DEF Accounts, Keeps

LEMMA StartAccounts ==
  ASSUME TypeInv, TypeInv', PendInv, StartRun
  PROVE  Accounts
  <1> DEFINE first == <<Queued(front.m, "prompt")>>
  <1>1. /\ front.at = "preflight" /\ sc = "idle" /\ pend' = first \o nextTurn /\ nextTurn' = <<>>
        /\ front' = [at |-> "run", m |-> None]
        /\ UNCHANGED <<steer, follow, ctx, customs, deferred, thrown>> /\ sent' = sent
        /\ dropped' = dropped /\ returned' = returned
    BY DEF StartRun, BeginRun, StartPrompt, Start
  <1>2. pend = <<>> /\ front.m \in Messages /\ nextTurn \in Seq(QueuedMsg({"prompt"}))
    BY <1>1, SessionFacts DEF PendInv, FrontInv, Messages
  <1>3. PICK k : k = Len(nextTurn)
    OBVIOUS
  <1>4. k \in Nat /\ DOMAIN nextTurn = 1 .. k
    BY <1>2, <1>3, LenProperties
  <1>5. /\ DOMAIN pend' = 1 .. 1 + k /\ pend'[1].m = front.m
        /\ \A i \in 1 .. k : pend'[i + 1] = nextTurn[i]
    <2>1. first \in Seq(QueuedMsg({"prompt"})) /\ Len(first) = 1 /\ first[1].m = front.m
      <3>1. Queued(front.m, "prompt") \in QueuedMsg({"prompt"})
        BY <1>2, QueueKinds
      <3>2. first \in Seq(QueuedMsg({"prompt"})) /\ Len(first) = 1 /\ first[1] = Queued(front.m, "prompt")
        BY <3>1, OneElement
      <3> QED BY <3>2 DEF Queued
    <2> HIDE DEF first
    <2>7. /\ first \o nextTurn \in Seq(QueuedMsg({"prompt"}))
          /\ Len(first \o nextTurn) = Len(first) + Len(nextTurn)
          /\ \A i \in 1 .. Len(first) + Len(nextTurn) :
               (first \o nextTurn)[i] = IF i <= Len(first) THEN first[i] ELSE nextTurn[i - Len(first)]
      BY <1>2, <2>1, ConcatProperties
    <2>8. pend' = first \o nextTurn
      BY <1>1 DEF first
    <2>2. /\ pend' \in Seq(QueuedMsg({"prompt"})) /\ Len(pend') = 1 + k
          /\ \A i \in 1 .. 1 + k : pend'[i] = IF i <= 1 THEN first[i] ELSE nextTurn[i - 1]
      BY <1>3, <2>1, <2>7, <2>8, Zenon
    <2>3. DOMAIN pend' = 1 .. 1 + k /\ 1 \in 1 .. 1 + k
      BY <1>4, <2>2, LenProperties
    <2>4. pend'[1].m = front.m
      BY <2>1, <2>2, <2>3
    <2>5. \A i \in 1 .. k : i + 1 \in 1 .. 1 + k /\ ~(i + 1 <= 1) /\ (i + 1) - 1 = i
      BY <1>4
    <2>6. \A i \in 1 .. k : pend'[i + 1] = nextTurn[i]
      BY <2>2, <2>5
    <2> QED BY <2>3, <2>4, <2>6
  <1>6. \A n \in Names \ {"front", "next", "pend"} : SameQueue(n)
    BY <1>1, SameQueues DEF Names
  <1>7. \A m \in Messages : \A i : ~Holds("front", i, m)' /\ ~Holds("next", i, m)' /\ ~Holds("pend", i, m)
    BY <1>1, <1>2, SessionAssumption DEF Holds, InFront, InNext, InPend, Messages
  <1>8. \A i, m : /\ Holds("pend", i, m)' <=> InPend(i, m)'
                  /\ Holds("next", i, m) <=> InNext(i, m)
                  /\ Holds("front", i, m) <=> InFront(i, m)
    BY DEF Holds
  <1>9. ASSUME NEW i, NEW m, InPend(i, m)'
        PROVE  \/ i - 1 = 0 /\ InFront(0, m)
               \/ i - 1 <= k /\ InNext(i - 1, m)
    <2>1. i \in 1 .. 1 + k /\ pend'[i].m = m
      BY <1>5, <1>9 DEF InPend
    <2>2. CASE i = 1
      BY <1>5, <2>1, <2>2 DEF InFront
    <2>3. CASE i # 1
      <3>1. i - 1 \in 1 .. k /\ (i - 1) + 1 = i
        BY <1>4, <2>1, <2>3
      <3>2. pend'[(i - 1) + 1] = nextTurn[i - 1]
        BY <1>5, <3>1
      <3>3. nextTurn[i - 1].m = m
        BY <2>1, <3>1, <3>2, Zenon
      <3> QED BY <1>4, <3>1, <3>3 DEF InNext
    <2> QED BY <2>2, <2>3
  <1>10. ASSUME NEW m \in Messages PROVE Conserves(m)
    <2>1. \A n, i : Holds(n, i, m)' => i \in Int
      BY Positions
    <2>2. ASSUME NEW n, NEW i, n \notin {"front", "next"}, Holds(n, i, m)'
          PROVE  \/ Holds(n, i, m)
                 \/ n = "pend" /\ i - 1 <= 0 /\ Holds("front", i - 1, m)
                 \/ n = "pend" /\ i - 1 <= k /\ Holds("next", i - 1, m)
      <3>1. CASE n = "pend"
        <4>1. \/ i - 1 = 0 /\ InFront(0, m)
              \/ i - 1 <= k /\ InNext(i - 1, m)
          BY <1>8, <1>9, <2>2, <3>1
        <4> QED BY <1>8, <3>1, <4>1
      <3>2. CASE n # "pend"
        <4>1. n \in Names \ {"front", "next", "pend"}
          BY <2>2, <3>2, NoSuchQueue
        <4> QED BY <1>6, <2>2, <4>1 DEF SameQueue
      <3> QED BY <3>1, <3>2
    <2>3. Flows("front", 0, "pend", 1, "next", k, "pend", 1, m)
      BY <1>7, <2>1, <2>2 DEF Flows
    <2>4. k \in Int /\ 0 \in Int /\ 1 \in Int /\ "front" # "next"
      BY <1>4
    <2> QED BY <2>3, <2>4, Flow
  <1>11. ASSUME NEW m \in Messages PROVE Keeps(m)
    <2> SUFFICES ASSUME NEW n, NEW i, Holds(n, i, m) PROVE Somewhere(m)'
      BY DEF Keeps, Somewhere
    <2>1. n \in Names /\ n # "pend"
      BY <1>7, NoSuchQueue
    <2>2. CASE n = "front"
      <3>1. InPend(1, m)'
        BY <1>4, <1>5, <1>8, <2>2 DEF InFront, InPend
      <3> QED BY <1>8, <3>1 DEF Somewhere
    <2>3. CASE n = "next"
      <3>1. i \in 1 .. k /\ nextTurn[i].m = m
        BY <1>4, <1>8, <2>3 DEF InNext
      <3>2. i + 1 \in DOMAIN pend' /\ pend'[i + 1].m = m
        BY <1>4, <1>5, <3>1
      <3>3. InPend(i + 1, m)'
        BY <3>2 DEF InPend
      <3> QED BY <1>8, <3>3 DEF Somewhere
    <2>4. CASE n \notin {"front", "next"}
      BY <1>6, <2>1, <2>4 DEF SameQueue, Somewhere
    <2> QED BY <2>2, <2>3, <2>4
  <1> QED BY <1>1, <1>10, <1>11 DEF Accounts

\* What handlers deferred starts a run, is the prompt in progress, or is refused.
LEMMA DeferredAccounts ==
  ASSUME TypeInv, TypeInv', PendInv, WaitInv, DeferredStarts
  PROVE  Accounts
  <1>1. /\ sc = "settling" /\ deferred # <<>> /\ deferred' = <<>>
        /\ UNCHANGED <<steer, follow, ctx, customs, nextTurn, thrown>> /\ sent' = sent
        /\ returned' = returned
    BY DEF DeferredStarts, queueVars, BeginRun, StartPrompt, Start, loopVars
  <1>2. PICK x : x = deferred[1]
    OBVIOUS
  <1>3. Head(deferred) = x /\ x \in Messages /\ 1 \in DOMAIN deferred /\ DOMAIN deferred = {1}
    <2>1. deferred \in Seq(Messages) /\ Head(deferred) \in Messages /\ Head(deferred) = deferred[1]
      BY <1>1, SessionFacts, HeadTailProperties
    <2>2. 1 \in DOMAIN deferred
      BY <1>1, <2>1, EmptySeq, LenProperties
    <2> QED BY <1>2, <2>1, <2>2 DEF WaitInv
  <1>4. pend = <<>> /\ pc = "off" /\ front.at # "preflight" /\ front.m = None
    BY <1>1, SessionFacts DEF PendInv, WaitInv, FrontInv
  <1>5. \A i, m : /\ Holds("deferred", i, m) <=> i = 1 /\ m = x
                  /\ ~Holds("deferred", i, m)' /\ ~Holds("pend", i, m)
                  /\ m \in Messages => ~Holds("front", i, m)
    BY <1>1, <1>2, <1>3, <1>4, SessionAssumption
    DEF Holds, InDeferred, InPend, InFront, Messages
  <1>6. \A n \in Names \ {"deferred", "pend", "front"} : SameQueue(n)
    BY <1>1, SameQueues DEF Names
  <1>7. ASSUME NEW n0 \in {"pend", "front"}, NEW i0 \in Int, dropped \subseteq dropped',
               \A n \in {"pend", "front"} : \A i : \A m \in Messages :
                 Holds(n, i, m)' <=> n = n0 /\ i = i0 /\ m = x
        PROVE  Accounts
    <2>1. ASSUME NEW m \in Messages PROVE Conserves(m)
      <3>1. \A n, i : Holds(n, i, m)' => i \in Int
        BY Positions
      <3>2. ASSUME NEW n, NEW i, n # "deferred", Holds(n, i, m)'
            PROVE  Holds(n, i, m) \/ (n = n0 /\ i - (i0 - 1) <= 1 /\ Holds("deferred", i - (i0 - 1), m))
        <4>1. CASE n \in {"pend", "front"}
          <5>1. n = n0 /\ i = i0 /\ m = x
            BY <1>7, <3>2, <4>1
          <5>2. i - (i0 - 1) = 1
            BY <5>1
          <5> QED BY <1>5, <5>1, <5>2
        <4>2. CASE n \notin {"pend", "front"}
          <5>1. n \in Names \ {"deferred", "pend", "front"}
            BY <3>2, <4>2, NoSuchQueue
          <5> QED BY <1>6, <3>2, <5>1 DEF SameQueue
        <4> QED BY <4>1, <4>2
      <3>3. FlowsOne("deferred", 1, n0, i0 - 1, m)
        BY <1>5, <3>1, <3>2 DEF FlowsOne
      <3>4. 1 \in Int /\ i0 - 1 \in Int
        OBVIOUS
      <3> QED BY <3>3, <3>4, FlowOne
    <2>2. ASSUME NEW m \in Messages PROVE Keeps(m)
      <3> SUFFICES ASSUME NEW n, NEW i, Holds(n, i, m) PROVE Somewhere(m)'
        BY DEF Keeps, Somewhere
      <3>1. n \in Names \ {"pend", "front"}
        BY <1>5, NoSuchQueue
      <3>2. CASE n = "deferred"
        <4>1. m = x
          BY <1>5, <3>2
        <4>2. Holds(n0, i0, m)'
          BY <1>7, <4>1
        <4> QED BY <4>2 DEF Somewhere
      <3>3. CASE n # "deferred"
        BY <1>6, <3>1, <3>3 DEF SameQueue, Somewhere
      <3> QED BY <3>2, <3>3
    <2> QED BY <1>1, <1>7, <2>1, <2>2 DEF Accounts
  <1>8. CASE x \in Customs
    <2>1. /\ pend' = <<Queued(x, "prompt")>> /\ front' = front /\ dropped' = dropped
      BY <1>3, <1>8, Zenon DEF DeferredStarts, BeginRun, StartPrompt, Start
    <2>2. DOMAIN pend' = {1} /\ pend'[1].m = x
      BY <2>1 DEF Queued
    <2>3. \A i : \A m \in Messages : Holds("pend", i, m)' <=> i = 1 /\ m = x
      BY <2>2 DEF Holds, InPend
    <2>4. \A i : \A m \in Messages : ~Holds("front", i, m)'
      BY <1>5, <2>1, SameQueues DEF SameQueue
    <2>5. \A n \in {"pend", "front"} : \A i : \A m \in Messages :
                 Holds(n, i, m)' <=> n = "pend" /\ i = 1 /\ m = x
      BY <2>3, <2>4
    <2>6. 1 \in Int /\ dropped \subseteq dropped'
      BY <2>1
    <2> QED BY <1>7, <2>5, <2>6
  <1>9. CASE x \notin Customs /\ front = NoFront
    <2>1. front' = [at |-> "preflight", m |-> x] /\ dropped' = dropped /\ pend' = pend
      BY <1>3, <1>9, Zenon DEF DeferredStarts, loopVars
    <2>2. \A i : \A m \in Messages : Holds("front", i, m)' <=> i = 0 /\ m = x
      BY <2>1 DEF Holds, InFront
    <2>3. \A i : \A m \in Messages : ~Holds("pend", i, m)'
      BY <1>5, <2>1, SameQueues DEF SameQueue
    <2>4. \A n \in {"pend", "front"} : \A i : \A m \in Messages :
                 Holds(n, i, m)' <=> n = "front" /\ i = 0 /\ m = x
      BY <2>2, <2>3
    <2>5. 0 \in Int /\ dropped \subseteq dropped'
      BY <2>1
    <2> QED BY <1>7, <2>4, <2>5
  <1>10. CASE x \notin Customs /\ front # NoFront
    <2>1. front' = NoFront /\ dropped' = dropped \cup {x} /\ UNCHANGED loopVars
      BY <1>3, <1>10, Zenon DEF DeferredStarts
    <2>2. front'.m = front.m /\ pend' = pend
      BY <1>4, <2>1 DEF NoFront, loopVars
    <2>3. \A n \in Names \ {"deferred"} : SameQueue(n)
      BY <1>6, <2>2, SameQueues DEF Names
    <2>4. ASSUME NEW m PROVE Conserves(m)
      <3>1. ASSUME NEW n, NEW i, Holds(n, i, m)' PROVE Holds(n, i, m)
        <4>1. n \in Names \ {"deferred"}
          BY <1>5, <3>1, NoSuchQueue
        <4> QED BY <2>3, <3>1, <4>1 DEF SameQueue
      <3> QED BY <3>1, FewerConserve
    <2>5. ASSUME NEW m \in Messages, Somewhere(m), ~Somewhere(m)' PROVE m \in dropped'
      <3>1. PICK n, i : Holds(n, i, m)
        BY <2>5 DEF Somewhere
      <3>2. n \in Names /\ ~Holds(n, i, m)'
        BY <2>5, <3>1, NoSuchQueue DEF Somewhere
      <3>3. n = "deferred"
        BY <2>3, <3>1, <3>2 DEF SameQueue
      <3> QED BY <1>5, <2>1, <3>1, <3>3
    <2> QED BY <1>1, <2>1, <2>4, <2>5 DEF Accounts, Keeps
  <1> QED BY <1>8, <1>9, <1>10

LEMMA OtherAccounts ==
  ASSUME TypeInv, TypeInv', PendInv, ShownInv, WaitInv, ~LoopActs,
         Program \/ ClearQueue \/ Abort \/ UNCHANGED vars
  PROVE  Accounts
  <1>2. CASE UNCHANGED vars
    <2>1. UNCHANGED loopVars /\ UNCHANGED <<customs, nextTurn, deferred, front>>
          /\ sent' = sent /\ returned' = returned /\ dropped' = dropped
      BY <1>2 DEF vars, queueVars, callVars
    <2> QED BY <2>1, StillAccounts
  <1>3. CASE Abort
    <2>1. /\ UNCHANGED <<steer, follow, pend, ctx, thrown, customs, nextTurn, deferred, front>>
          /\ sent' = sent /\ returned' = returned /\ dropped' = dropped
      BY <1>3 DEF Abort, AbortRun, queueVars
    <2> QED BY <2>1, SameQueues, CarriedAccounts DEF PollPart, FlushPart, RestPart
  <1>4. CASE RunEnds
    <2>1. /\ UNCHANGED <<steer, follow, pend, ctx, thrown, customs, nextTurn, deferred, front>>
          /\ sent' = sent /\ returned' = returned /\ dropped' = dropped
      BY <1>4 DEF RunEnds, EndRun, queueVars, callVars
    <2> QED BY <2>1, SameQueues, CarriedAccounts DEF PollPart, FlushPart, RestPart
  <1>5. CASE PostMidRun \/ PostRetry
    <2>1. queueVars' = queueVars /\ callVars' = callVars /\ \E c \in Control : Wait(c)
      BY <1>5 DEF PostMidRun, PostRetry, Control
    <2> QED BY <2>1, AfterAccounts
  <1>6. CASE PostCompact
    <2>1. queueVars' = queueVars /\ callVars' = callVars
      BY <1>6 DEF PostCompact
    <2>2. Wait("compactRetry") \/ Wait("compact") \/ GoOnIfQueued
      BY <1>6, Zenon DEF PostCompact
    <2>3. "compactRetry" \in Control /\ "compact" \in Control
      BY DEF Control
    <2> QED BY <2>1, <2>2, <2>3, AfterAccounts
  <1>7. ASSUME NEW slept, BackoffEnds(slept) PROVE Accounts
    <2>1. queueVars' = queueVars /\ callVars' = callVars
      BY <1>7 DEF BackoffEnds
    <2>2. GoOn \/ Wait("finish") \/ GoOnIfQueued
      BY <1>7, Zenon DEF BackoffEnds
    <2>3. "finish" \in Control
      BY DEF Control
    <2> QED BY <2>1, <2>2, <2>3, AfterAccounts
  <1>8. ASSUME NEW ok, CompactionEnds(ok) PROVE Accounts
    <2>1. queueVars' = queueVars /\ callVars' = callVars
      BY <1>8 DEF CompactionEnds
    <2>2. GoOn \/ Wait("finish") \/ GoOnIfQueued \/ Rest
      BY <1>8, Zenon DEF CompactionEnds
    <2>3. "finish" \in Control
      BY DEF Control
    <2> QED BY <2>1, <2>2, <2>3, AfterAccounts
  <1>9. CASE Settle
    <2>1. /\ ctx' = ctx \o Flushed /\ customs' = <<>>
          /\ UNCHANGED <<steer, follow, pend, thrown, nextTurn, deferred, front>>
          /\ sent' = sent /\ returned' = returned /\ dropped' = dropped
      BY <1>9 DEF Settle, Record, callVars
    <2> QED BY <2>1, SameQueues, RecordFlushes, CarriedAccounts DEF PollPart, FlushPart, RestPart
  <1>10. CASE SettledEnds
    <2>1. UNCHANGED loopVars /\ UNCHANGED <<customs, nextTurn, deferred>>
          /\ sent' = sent /\ returned' = returned /\ dropped' = dropped
          /\ front' = IF front.at = "run" THEN [front EXCEPT !.at = "after"] ELSE front
      BY <1>10 DEF SettledEnds, queueVars
    <2>2. front'.m = front.m
      BY <2>1, SessionFacts
    <2> QED BY <2>1, <2>2, StillAccounts
  <1>11. CASE PromptReturns
    <2>1. UNCHANGED loopVars /\ UNCHANGED <<customs, nextTurn, deferred>>
          /\ sent' = sent /\ returned' = returned /\ dropped' = dropped
          /\ front.at = "after" /\ front' = NoFront
      BY <1>11 DEF PromptReturns, queueVars
    <2>2. front'.m = front.m
      BY <2>1, SessionFacts DEF FrontInv, NoFront
    <2> QED BY <2>1, <2>2, StillAccounts
  <1> QED
    BY <1>2, <1>3, <1>4, <1>5, <1>6, <1>7, <1>8, <1>9, <1>10, <1>11,
       ClearAccounts, RefusedAccounts, StartAccounts, DeferredAccounts, BeforeAccounts
    DEF Program, LoopActs

\* A call that sends a message puts it in one place.
Placed(m0) ==
  \E n0 \in Names, i0 \in Int : \A m \in Messages : \A n, i :
    Holds(n, i, m)' <=> Holds(n, i, m) \/ (n = n0 /\ i = i0 /\ m = m0)
Sends ==
  \E m0 \in Messages :
    /\ m0 \notin sent /\ sent' = sent \cup {m0}
    /\ returned' = returned /\ dropped' = dropped /\ thrown' = thrown
    /\ Placed(m0)

LEMMA PlacedBy ==
  ASSUME NEW m0, NEW n0 \in Names, NEW i0 \in Int,
         \A n \in Names \ {n0} : SameQueue(n),
         \A m \in Messages : \A i : Holds(n0, i, m)' <=> Holds(n0, i, m) \/ (i = i0 /\ m = m0)
  PROVE  Placed(m0)
  <1>1. ASSUME NEW m \in Messages, NEW n, NEW i
        PROVE  Holds(n, i, m)' <=> Holds(n, i, m) \/ (n = n0 /\ i = i0 /\ m = m0)
    <2>1. CASE n = n0
      BY <2>1
    <2>2. CASE n \in Names \ {n0}
      BY <2>2 DEF SameQueue
    <2>3. CASE n \notin Names
      BY <2>3, NoSuchQueue
    <2> QED BY <2>1, <2>2, <2>3
  <1> QED BY <1>1 DEF Placed

LEMMA Appended ==
  ASSUME NEW S, NEW q \in Seq(S), NEW x \in S
  PROVE  /\ \A i : i \in DOMAIN Append(q, x) <=> i \in DOMAIN q \/ i = Len(q) + 1
         /\ \A i \in DOMAIN q : Append(q, x)[i] = q[i]
         /\ Append(q, x)[Len(q) + 1] = x
         /\ Len(q) + 1 \in Int /\ Len(q) + 1 \notin DOMAIN q
  <1>1. DOMAIN q = 1 .. Len(q) /\ Len(q) \in Nat
    BY LenProperties
  <1>2. /\ Append(q, x) \in Seq(S) /\ Len(Append(q, x)) = Len(q) + 1
        /\ \A i \in 1 .. Len(q) : Append(q, x)[i] = q[i]
        /\ Append(q, x)[Len(q) + 1] = x
    BY AppendProperties
  <1>3. DOMAIN Append(q, x) = 1 .. Len(q) + 1
    BY <1>2, LenProperties
  <1> QED BY <1>1, <1>2, <1>3

\* A message appended to a queue of its own, and one recorded at the end of ctx.
LEMMA AppendPlaces ==
  ASSUME NEW K, NEW q \in Seq(QueuedMsg(K)), NEW x \in QueuedMsg(K)
  PROVE  /\ Len(q) + 1 \in Int
         /\ \A i, m : i \in DOMAIN Append(q, x) /\ Append(q, x)[i].m = m
              <=> (i \in DOMAIN q /\ q[i].m = m) \/ (i = Len(q) + 1 /\ m = x.m)
  <1>1. /\ \A i : i \in DOMAIN Append(q, x) <=> i \in DOMAIN q \/ i = Len(q) + 1
        /\ \A i \in DOMAIN q : Append(q, x)[i] = q[i]
        /\ Append(q, x)[Len(q) + 1] = x
        /\ Len(q) + 1 \in Int /\ Len(q) + 1 \notin DOMAIN q
    BY Appended
  <1>2. ASSUME NEW i, NEW m, i \in DOMAIN Append(q, x), Append(q, x)[i].m = m
        PROVE  (i \in DOMAIN q /\ q[i].m = m) \/ (i = Len(q) + 1 /\ m = x.m)
    BY <1>1, <1>2, Zenon
  <1>3. ASSUME NEW i, NEW m, (i \in DOMAIN q /\ q[i].m = m) \/ (i = Len(q) + 1 /\ m = x.m)
        PROVE  i \in DOMAIN Append(q, x) /\ Append(q, x)[i].m = m
    BY <1>1, <1>3, Zenon
  <1> QED BY <1>1, <1>2, <1>3

LEMMA PromptSends ==
  ASSUME TypeInv, NEW u \in Users, Prompt(u) \/ PromptWhileSettling(u)
  PROVE  Sends
  <1>0. u \in Messages
    BY DEF Messages
  <1>1. CASE Prompt(u)
    <2>1. /\ UNCHANGED <<steer, follow, pend, ctx, customs, nextTurn, deferred, thrown>>
          /\ u \notin sent /\ sent' = sent \cup {u}
          /\ returned' = returned /\ dropped' = dropped
          /\ front = NoFront /\ front' = [at |-> "preflight", m |-> u]
      BY <1>1 DEF Prompt, New, loopVars
    <2>2. \A n \in Names \ {"front"} : SameQueue(n)
      BY <2>1, SameQueues DEF Names
    <2>3. front.m = None /\ front'.m = u
      BY <2>1 DEF NoFront
    <2>4. None \notin Messages
      BY SessionAssumption DEF Messages
    <2>5. ASSUME NEW m \in Messages, NEW i
          PROVE  Holds("front", i, m)' <=> Holds("front", i, m) \/ (i = 0 /\ m = u)
      BY <2>3, <2>4, <2>5 DEF Holds, InFront
    <2>6. "front" \in Names /\ 0 \in Int
      BY DEF Names
    <2>7. Placed(u)
      BY <2>2, <2>5, <2>6, PlacedBy
    <2> QED BY <1>0, <2>1, <2>7 DEF Sends
  <1>2. CASE PromptWhileSettling(u)
    <2>1. /\ UNCHANGED <<steer, follow, pend, ctx, customs, nextTurn, front, thrown>>
          /\ u \notin sent /\ sent' = sent \cup {u}
          /\ returned' = returned /\ dropped' = dropped
          /\ deferred = <<>> /\ deferred' = <<u>>
      BY <1>2 DEF PromptWhileSettling, New, loopVars
    <2>2. \A n \in Names \ {"deferred"} : SameQueue(n)
      BY <2>1, SameQueues DEF Names
    <2>3. ASSUME NEW m \in Messages, NEW i
          PROVE  Holds("deferred", i, m)' <=> Holds("deferred", i, m) \/ (i = 1 /\ m = u)
      BY <2>1, <2>3 DEF Holds, InDeferred
    <2>4. "deferred" \in Names /\ 1 \in Int
      BY DEF Names
    <2>5. Placed(u)
      BY <2>2, <2>3, <2>4, PlacedBy
    <2> QED BY <1>0, <2>1, <2>5 DEF Sends
  <1> QED BY <1>1, <1>2

LEMMA SteerSends ==
  ASSUME TypeInv, NEW m0 \in Messages, New(m0), UNCHANGED <<customs, nextTurn, front, deferred>>,
         returned' = returned, dropped' = dropped,
         Steer(Queued(m0, "steer")) \/ FollowUp(Queued(m0, "follow"))
  PROVE  Sends
  <1>0. m0 \notin sent /\ sent' = sent \cup {m0}
    BY DEF New
  <1>1. CASE Steer(Queued(m0, "steer"))
    <2>1. UNCHANGED <<follow, pend, ctx, thrown>> /\ steer' = Append(steer, Queued(m0, "steer"))
      BY <1>1 DEF Steer
    <2>2. \A n \in Names \ {"steer"} : SameQueue(n)
      BY <2>1, SameQueues DEF Names
    <2>3. Queued(m0, "steer").m = m0
      BY DEF Queued
    <2>4. /\ Len(steer) + 1 \in Int
          /\ \A i, m : InSteer(i, m)' <=> InSteer(i, m) \/ (i = Len(steer) + 1 /\ m = m0)
      <3>1. steer \in Seq(QueuedMsg({"steer"})) /\ Queued(m0, "steer") \in QueuedMsg({"steer"})
        BY SessionFacts, QueueKinds
      <3> QED BY <2>1, <2>3, <3>1, AppendPlaces DEF InSteer
    <2>5. \A m \in Messages : \A i :
            Holds("steer", i, m)' <=> Holds("steer", i, m) \/ (i = Len(steer) + 1 /\ m = m0)
      BY <2>4 DEF Holds
    <2>6. "steer" \in Names
      BY DEF Names
    <2>7. Placed(m0)
      BY <2>2, <2>4, <2>5, <2>6, PlacedBy
    <2> QED BY <1>0, <2>1, <2>7 DEF Sends
  <1>2. CASE FollowUp(Queued(m0, "follow"))
    <2>1. UNCHANGED <<steer, pend, ctx, thrown>> /\ follow' = Append(follow, Queued(m0, "follow"))
      BY <1>2 DEF FollowUp
    <2>2. \A n \in Names \ {"follow"} : SameQueue(n)
      BY <2>1, SameQueues DEF Names
    <2>3. Queued(m0, "follow").m = m0
      BY DEF Queued
    <2>4. /\ Len(follow) + 1 \in Int
          /\ \A i, m : InFollow(i, m)' <=> InFollow(i, m) \/ (i = Len(follow) + 1 /\ m = m0)
      <3>1. follow \in Seq(QueuedMsg({"follow"})) /\ Queued(m0, "follow") \in QueuedMsg({"follow"})
        BY SessionFacts, QueueKinds
      <3> QED BY <2>1, <2>3, <3>1, AppendPlaces DEF InFollow
    <2>5. \A m \in Messages : \A i :
            Holds("follow", i, m)' <=> Holds("follow", i, m) \/ (i = Len(follow) + 1 /\ m = m0)
      BY <2>4 DEF Holds
    <2>6. "follow" \in Names
      BY DEF Names
    <2>7. Placed(m0)
      BY <2>2, <2>4, <2>5, <2>6, PlacedBy
    <2> QED BY <1>0, <2>1, <2>7 DEF Sends
  <1> QED BY <1>1, <1>2

LEMMA CustomSends ==
  ASSUME TypeInv, PendInv, NEW c \in Customs,
         CustomNextTurn(c) \/ CustomQueued(c) \/ CustomContext(c) \/ CustomTriggers(c)
           \/ CustomTriggersLater(c)
  PROVE  Sends
  <1>0. c \in Messages
    BY DEF Messages
  <1>1. CASE CustomNextTurn(c)
    <2>1. /\ UNCHANGED <<steer, follow, pend, ctx, customs, front, deferred, thrown>>
          /\ c \notin sent /\ sent' = sent \cup {c} /\ returned' = returned /\ dropped' = dropped
          /\ nextTurn' = Append(nextTurn, Queued(c, "prompt"))
      BY <1>1 DEF CustomNextTurn, New, loopVars, callVars
    <2>2. \A n \in Names \ {"next"} : SameQueue(n)
      BY <2>1, SameQueues DEF Names
    <2>3. Queued(c, "prompt").m = c
      BY DEF Queued
    <2>4. /\ Len(nextTurn) + 1 \in Int
          /\ \A i, m : InNext(i, m)' <=> InNext(i, m) \/ (i = Len(nextTurn) + 1 /\ m = c)
      <3>1. nextTurn \in Seq(QueuedMsg({"prompt"})) /\ Queued(c, "prompt") \in QueuedMsg({"prompt"})
        BY <1>0, SessionFacts, QueueKinds
      <3> QED BY <2>1, <2>3, <3>1, AppendPlaces DEF InNext
    <2>5. \A m \in Messages : \A i :
            Holds("next", i, m)' <=> Holds("next", i, m) \/ (i = Len(nextTurn) + 1 /\ m = c)
      BY <2>4 DEF Holds
    <2>6. "next" \in Names
      BY DEF Names
    <2>7. Placed(c)
      BY <2>2, <2>4, <2>5, <2>6, PlacedBy
    <2> QED BY <1>0, <2>1, <2>7 DEF Sends
  <1>2. CASE CustomQueued(c)
    <2>1. /\ New(c) /\ (Steer(Queued(c, "steer")) \/ FollowUp(Queued(c, "follow")))
          /\ UNCHANGED <<customs, nextTurn, front, deferred>>
          /\ returned' = returned /\ dropped' = dropped
      BY <1>2 DEF CustomQueued, callVars
    <2> QED BY <1>0, <2>1, SteerSends
  <1>3. CASE CustomContext(c) /\ Streaming
    <2>1. /\ UNCHANGED <<steer, follow, pend, ctx, nextTurn, front, deferred, thrown>>
          /\ c \notin sent /\ sent' = sent \cup {c} /\ returned' = returned /\ dropped' = dropped
          /\ customs' = Append(customs, c)
      BY <1>3 DEF CustomContext, New, loopVars, callVars
    <2>2. \A n \in Names \ {"customs"} : SameQueue(n)
      BY <2>1, SameQueues DEF Names
    <2>3. /\ \A i : i \in DOMAIN customs' <=> i \in DOMAIN customs \/ i = Len(customs) + 1
          /\ \A i \in DOMAIN customs : customs'[i] = customs[i]
          /\ customs'[Len(customs) + 1] = c
          /\ Len(customs) + 1 \in Int /\ Len(customs) + 1 \notin DOMAIN customs
      <3>1. customs \in Seq(Customs)
        BY SessionFacts
      <3> QED BY <2>1, <3>1, Appended
    <2>4. \A i, m : InCustoms(i, m)' <=> InCustoms(i, m) \/ (i = Len(customs) + 1 /\ m = c)
      <3>1. ASSUME NEW i, NEW m, InCustoms(i, m)'
            PROVE  InCustoms(i, m) \/ (i = Len(customs) + 1 /\ m = c)
        BY <2>3, <3>1, Zenon DEF InCustoms
      <3>2. ASSUME NEW i, NEW m, InCustoms(i, m) \/ (i = Len(customs) + 1 /\ m = c)
            PROVE  InCustoms(i, m)'
        BY <2>3, <3>2, Zenon DEF InCustoms
      <3> QED BY <3>1, <3>2
    <2>5. \A m \in Messages : \A i :
            Holds("customs", i, m)' <=> Holds("customs", i, m) \/ (i = Len(customs) + 1 /\ m = c)
      BY <2>4 DEF Holds
    <2>6. "customs" \in Names
      BY DEF Names
    <2>7. Placed(c)
      BY <2>2, <2>3, <2>5, <2>6, PlacedBy
    <2> QED BY <1>0, <2>1, <2>7 DEF Sends
  <1>4. CASE CustomContext(c) /\ ~Streaming
    <2>1. /\ UNCHANGED <<steer, follow, pend, customs, nextTurn, front, deferred, thrown>>
          /\ c \notin sent /\ sent' = sent \cup {c} /\ returned' = returned /\ dropped' = dropped
          /\ ctx' = ctx \o <<Custom(c)>>
      BY <1>4 DEF CustomContext, Record, New, callVars
    <2>2. \A n \in Names \ {"ctx"} : SameQueue(n)
      BY <2>1, SameQueues DEF Names
    <2>3. /\ \A i : i \in DOMAIN ctx' <=> i \in DOMAIN ctx \/ i = Len(ctx) + 1
          /\ \A i \in DOMAIN ctx : ctx'[i] = ctx[i]
          /\ ctx'[Len(ctx) + 1] = Custom(c)
          /\ Len(ctx) + 1 \in Int /\ Len(ctx) + 1 \notin DOMAIN ctx
      <3>1. ctx \in Seq(Entry) /\ Custom(c) \in Entry
        BY Entries DEF TypeInv, LoopInv, LoopTypes
      <3>2. ctx' = Append(ctx, Custom(c))
        BY <2>1, <3>1, AppendIsConcat
      <3> QED BY <3>1, <3>2, Appended
    <2>4. Custom(c).kind \in {"message", "custom"} /\ Custom(c).m = c
      BY DEF Custom
    <2>5. \A i, m : InCtx(i, m)' <=> InCtx(i, m) \/ (i = Len(ctx) + 1 /\ m = c)
      <3>1. ASSUME NEW i, NEW m, InCtx(i, m)'
            PROVE  InCtx(i, m) \/ (i = Len(ctx) + 1 /\ m = c)
        BY <2>3, <2>4, <3>1, Zenon DEF InCtx
      <3>2. ASSUME NEW i, NEW m, InCtx(i, m) \/ (i = Len(ctx) + 1 /\ m = c)
            PROVE  InCtx(i, m)'
        BY <2>3, <2>4, <3>2, Zenon DEF InCtx
      <3> QED BY <3>1, <3>2
    <2>6. \A m \in Messages : \A i :
            Holds("ctx", i, m)' <=> Holds("ctx", i, m) \/ (i = Len(ctx) + 1 /\ m = c)
      BY <2>5 DEF Holds
    <2>7. "ctx" \in Names
      BY DEF Names
    <2>8. Placed(c)
      BY <2>2, <2>3, <2>6, <2>7, PlacedBy
    <2> QED BY <1>0, <2>1, <2>8 DEF Sends
  <1>5. CASE CustomTriggers(c)
    <2>1. /\ pc = "off" /\ pend' = <<Queued(c, "prompt")>>
          /\ UNCHANGED <<steer, follow, ctx, customs, nextTurn, front, deferred, thrown>>
          /\ c \notin sent /\ sent' = sent \cup {c} /\ returned' = returned /\ dropped' = dropped
      BY <1>5 DEF CustomTriggers, BeginRun, StartPrompt, Start, New, callVars
    <2>2. \A n \in Names \ {"pend"} : SameQueue(n)
      BY <2>1, SameQueues DEF Names
    <2>3. pend = <<>> /\ Queued(c, "prompt").m = c
      BY <2>1 DEF PendInv, Queued
    <2>4. \A i, m : InPend(i, m)' <=> i = 1 /\ m = c
      BY <2>1, <2>3 DEF InPend
    <2>5. \A i, m : ~InPend(i, m)
      BY <2>3 DEF InPend
    <2>6. \A m \in Messages : \A i : Holds("pend", i, m)' <=> Holds("pend", i, m) \/ (i = 1 /\ m = c)
      BY <2>4, <2>5 DEF Holds
    <2>7. "pend" \in Names /\ 1 \in Int
      BY DEF Names
    <2>8. Placed(c)
      BY <2>2, <2>6, <2>7, PlacedBy
    <2> QED BY <1>0, <2>1, <2>8 DEF Sends
  <1>6. CASE CustomTriggersLater(c)
    <2>1. /\ UNCHANGED <<steer, follow, pend, ctx, customs, nextTurn, front, thrown>>
          /\ c \notin sent /\ sent' = sent \cup {c}
          /\ returned' = returned /\ dropped' = dropped
          /\ deferred = <<>> /\ deferred' = <<c>>
      BY <1>6 DEF CustomTriggersLater, New, loopVars
    <2>2. \A n \in Names \ {"deferred"} : SameQueue(n)
      BY <2>1, SameQueues DEF Names
    <2>3. \A m \in Messages : \A i :
            Holds("deferred", i, m)' <=> Holds("deferred", i, m) \/ (i = 1 /\ m = c)
      BY <2>1 DEF Holds, InDeferred
    <2>4. "deferred" \in Names /\ 1 \in Int
      BY DEF Names
    <2>5. Placed(c)
      BY <2>2, <2>3, <2>4, PlacedBy
    <2> QED BY <1>0, <2>1, <2>5 DEF Sends
  <1> QED BY <1>1, <1>2, <1>3, <1>4, <1>5, <1>6

LEMMA OutsideSends ==
  ASSUME TypeInv, PendInv, Outside, ~ClearQueue, ~Abort
  PROVE  Sends
  <1>1. ASSUME NEW u \in Users, QueueSteer(u) \/ QueueFollowUp(u) PROVE Sends
    <2>1. /\ New(u) /\ (Steer(Queued(u, "steer")) \/ FollowUp(Queued(u, "follow")))
          /\ UNCHANGED <<customs, nextTurn, front, deferred>>
          /\ returned' = returned /\ dropped' = dropped
      BY <1>1 DEF QueueSteer, QueueFollowUp, callVars
    <2>2. u \in Messages
      BY DEF Messages
    <2> QED BY <2>1, <2>2, SteerSends
  <1> QED BY <1>1, PromptSends, CustomSends DEF Outside

\* An inductive form of InOnePlace.
PlacesInv ==
  \A m \in Messages :
    /\ Single(m)
    /\ m \notin sent => ~Somewhere(m)
    /\ m \in sent => Somewhere(m) \/ m \in returned \cup dropped \cup Customs \/ thrown

LEMMA PlacesIs == TypeInv /\ PlacesInv => InOnePlace
  <1> SUFFICES ASSUME TypeInv, PlacesInv, NEW m \in sent
      PROVE  /\ \A p, q \in Places(m) : p = q
             /\ Places(m) = {} => m \in returned \cup dropped \cup Customs \/ thrown
    BY DEF InOnePlace
  <1>1. m \in Messages
    BY SessionFacts
  <1>2. Single(m) /\ (Somewhere(m) \/ m \in returned \cup dropped \cup Customs \/ thrown)
    BY <1>1 DEF PlacesInv
  <1> QED BY <1>2, PlacesAre, Zenon

LEMMA PlacesInit == Init => PlacesInv /\ ShownInv /\ WaitInv
  <1> SUFFICES ASSUME Init PROVE PlacesInv /\ ShownInv /\ WaitInv
    OBVIOUS
  <1>1. /\ steer = <<>> /\ follow = <<>> /\ pend = <<>> /\ ctx = <<>> /\ nextTurn = <<>>
        /\ customs = <<>> /\ deferred = <<>> /\ front = NoFront /\ sent = {}
    BY DEF Init, LoopInit
  <1>2. None \notin Messages
    BY SessionAssumption DEF Messages
  <1>3. \A m \in Messages : \A n, i : ~Holds(n, i, m)
    BY <1>1, <1>2
    DEF Holds, InSteer, InFollow, InPend, InNext, InCustoms, InDeferred, InCtx, InFront, NoFront
  <1>4. PlacesInv
    BY <1>1, <1>3 DEF PlacesInv, Single, Somewhere
  <1> QED BY <1>1, <1>4 DEF ShownInv, WaitInv, NoFront

LEMMA PlacesCarried == ASSUME PlacesInv, Accounts PROVE PlacesInv'
  <1> SUFFICES ASSUME NEW m \in Messages
      PROVE  /\ Single(m)'
             /\ m \notin sent' => ~Somewhere(m)'
             /\ m \in sent' => Somewhere(m)' \/ m \in returned' \cup dropped' \cup Customs \/ thrown'
    BY DEF PlacesInv
  <1>1. /\ sent' = sent /\ returned \subseteq returned' /\ dropped \subseteq dropped'
        /\ thrown => thrown'
        /\ (Single(m) => Single(m)') /\ (Somewhere(m)' => Somewhere(m))
        /\ (Somewhere(m) => Somewhere(m)') \/ m \in returned' \cup dropped' \cup Customs \/ thrown'
    BY DEF Accounts, Conserves, Keeps
  <1>2. /\ Single(m)
        /\ m \notin sent => ~Somewhere(m)
        /\ m \in sent => Somewhere(m) \/ m \in returned \cup dropped \cup Customs \/ thrown
    BY DEF PlacesInv
  <1> QED BY <1>1, <1>2

LEMMA PlacesSent == ASSUME PlacesInv, Sends PROVE PlacesInv'
  <1>1. PICK m0 \in Messages :
           /\ m0 \notin sent /\ sent' = sent \cup {m0}
           /\ returned' = returned /\ dropped' = dropped /\ thrown' = thrown
           /\ Placed(m0)
    BY DEF Sends
  <1>2. PICK n0 \in Names, i0 \in Int : \A m \in Messages : \A n, i :
           Holds(n, i, m)' <=> Holds(n, i, m) \/ (n = n0 /\ i = i0 /\ m = m0)
    BY <1>1 DEF Placed
  <1> SUFFICES ASSUME NEW m \in Messages
      PROVE  /\ Single(m)'
             /\ m \notin sent' => ~Somewhere(m)'
             /\ m \in sent' => Somewhere(m)' \/ m \in returned' \cup dropped' \cup Customs \/ thrown'
    BY DEF PlacesInv
  <1>3. /\ Single(m)
        /\ m \notin sent => ~Somewhere(m)
        /\ m \in sent => Somewhere(m) \/ m \in returned \cup dropped \cup Customs \/ thrown
    BY DEF PlacesInv
  <1>4. CASE m = m0
    <2>1. \A n, i : ~Holds(n, i, m)
      BY <1>1, <1>3, <1>4 DEF Somewhere
    <2>2. \A n, i : Holds(n, i, m)' <=> n = n0 /\ i = i0
      BY <1>2, <1>4, <2>1
    <2>3. Somewhere(m)'
      BY <2>2 DEF Somewhere
    <2>4. Single(m)'
      BY <2>2 DEF Single
    <2> QED BY <1>1, <1>4, <2>3, <2>4
  <1>5. CASE m # m0
    <2>1. \A n, i : Holds(n, i, m)' <=> Holds(n, i, m)
      BY <1>2, <1>5
    <2>2. Single(m)' /\ (Somewhere(m)' <=> Somewhere(m))
      BY <1>3, <2>1 DEF Single, Somewhere
    <2> QED BY <1>1, <1>3, <1>5, <2>2
  <1> QED BY <1>4, <1>5

\* A text that is not among those heard stays on display.
LEMMA UnlistedKeeps ==
  ASSUME NEW S, NEW shown \in Seq(S), NEW texts
  PROVE  \A i \in DOMAIN shown : shown[i] \notin texts =>
           \E j \in DOMAIN Unlisted(shown, texts) : Unlisted(shown, texts)[j] = shown[i]
  <1> TAKE i \in DOMAIN shown
  <1> HAVE shown[i] \notin texts
  <1> DEFINE left == Unlisted(shown, texts)
  <1>1. CASE Hits(shown, texts) = {}
    BY <1>1 DEF Unlisted
  <1>2. CASE Hits(shown, texts) # {}
    <2>1. PICK k \in DOMAIN shown :
             /\ shown[k] \in texts /\ Len(left) = Len(shown) - 1
             /\ \A j \in DOMAIN left : left[j] = shown[IF j < k THEN j ELSE j + 1]
      BY <1>2, UnlistedIs
    <2>2. left \in Seq(S)
      BY UnlistedIs
    <2>3. DOMAIN left = 1 .. Len(left) /\ DOMAIN shown = 1 .. Len(shown) /\ Len(shown) \in Nat
      BY <2>2, LenProperties
    <2> HIDE DEF left
    <2>4. i # k
      BY <2>1
    <2>5. PICK j : j = IF i < k THEN i ELSE i - 1
      OBVIOUS
    <2>6. j \in DOMAIN left /\ (IF j < k THEN j ELSE j + 1) = i
      BY <2>1, <2>3, <2>4, <2>5
    <2> QED BY <2>1, <2>6 DEF left
  <1> QED BY <1>1, <1>2

-----------------------------------------------------------------------------
(* What is displayed of one queue.  drawn: the texts a poll took from it and  *)
(* not delivered yet; lost: an exception ended a run; known: the texts sent.  *)

Displayed(shown, queue, drawn, lost, known) ==
  /\ \A i, j \in DOMAIN shown : shown[i] = shown[j] => i = j
  /\ \A i \in DOMAIN shown : shown[i] \in known
  /\ \A k \in DOMAIN queue : queue[k].m \in Users => \E i \in DOMAIN shown : shown[i] = queue[k].m
  /\ \A i, j \in DOMAIN shown : \A k \in DOMAIN queue :
       i < j /\ shown[i] = queue[k].m => \E l \in DOMAIN queue : l > k /\ shown[j] = queue[l].m
  /\ ~lost =>
       \A i \in DOMAIN shown :
         shown[i] \in drawn \/ \E k \in DOMAIN queue : shown[i] = queue[k].m

\* The first a messages of the queue are drained, or lost.
LEMMA DisplayedDrained ==
  ASSUME NEW shown, NEW queue, NEW drawn, NEW lost, NEW known, NEW queue2, NEW drawn2, NEW lost2,
         NEW known2, Displayed(shown, queue, drawn, lost, known), NEW a \in Nat,
         \A i \in DOMAIN queue : i \in Int /\ i > 0,
         \A i \in DOMAIN queue2 : i \in Int /\ i > 0 /\ i + a \in DOMAIN queue /\ queue2[i] = queue[i + a],
         \A i \in DOMAIN queue : i > a => i - a \in DOMAIN queue2,
         lost => lost2, known \subseteq known2,
         ~lost2 => drawn \subseteq drawn2 /\ \A i \in DOMAIN queue : i <= a => queue[i].m \in drawn2
  PROVE  Displayed(shown, queue2, drawn2, lost2, known2)
  <1>1. \A i \in DOMAIN queue : i > a => i - a \in DOMAIN queue2 /\ queue2[i - a] = queue[i]
    <2> TAKE i \in DOMAIN queue
    <2> HAVE i > a
    <2>1. i - a \in DOMAIN queue2 /\ (i - a) + a = i
      OBVIOUS
    <2>2. queue2[i - a] = queue[(i - a) + a]
      BY <2>1
    <2> QED BY <2>1, <2>2
  <1>2. \A k \in DOMAIN queue2 : queue2[k].m \in Users => \E i \in DOMAIN shown : shown[i] = queue2[k].m
    BY DEF Displayed
  <1>3. ASSUME NEW i \in DOMAIN shown, NEW j \in DOMAIN shown, NEW k \in DOMAIN queue2,
               i < j, shown[i] = queue2[k].m
        PROVE  \E l \in DOMAIN queue2 : l > k /\ shown[j] = queue2[l].m
    <2>1. k \in Int /\ k > 0 /\ k + a \in DOMAIN queue /\ shown[i] = queue[k + a].m
      BY <1>3
    <2>2. PICK l \in DOMAIN queue : l > k + a /\ shown[j] = queue[l].m
      BY <1>3, <2>1 DEF Displayed
    <2>3. l - a \in DOMAIN queue2 /\ queue2[l - a] = queue[l] /\ l - a > k
      BY <1>1, <2>1, <2>2
    <2> QED BY <2>2, <2>3
  <1>4. ASSUME ~lost2, NEW i \in DOMAIN shown
        PROVE  shown[i] \in drawn2 \/ \E k \in DOMAIN queue2 : shown[i] = queue2[k].m
    <2>1. shown[i] \in drawn \/ \E k \in DOMAIN queue : shown[i] = queue[k].m
      BY <1>4 DEF Displayed
    <2>2. ASSUME NEW k \in DOMAIN queue, shown[i] = queue[k].m
          PROVE  shown[i] \in drawn2 \/ \E l \in DOMAIN queue2 : shown[i] = queue2[l].m
      BY <1>1, <1>4, <2>2
    <2> QED BY <1>4, <2>1, <2>2
  <1>5. /\ \A i, j \in DOMAIN shown : shown[i] = shown[j] => i = j
        /\ \A i \in DOMAIN shown : shown[i] \in known2
    BY DEF Displayed
  <1> QED BY <1>2, <1>3, <1>4, <1>5 DEF Displayed

\* A text is heard: it is in no queue any more, and comes off the display.
Taken(queue, drawn, drawn2, m, texts) ==
  /\ \A x \in Users : x \in texts <=> x = m
  /\ \A k \in DOMAIN queue : queue[k].m # m
  /\ drawn \ {m} \subseteq drawn2

LEMMA DisplayedHeard ==
  ASSUME NEW shown \in Seq(Users), NEW queue, NEW drawn, NEW lost, NEW known, NEW drawn2, NEW m, NEW texts,
         Displayed(shown, queue, drawn, lost, known), Taken(queue, drawn, drawn2, m, texts)
  PROVE  Displayed(Unlisted(shown, texts), queue, drawn2, lost, known)
  <1> USE DEF Taken
  <1> DEFINE left == Unlisted(shown, texts)
  <1>0. \A i \in DOMAIN shown : shown[i] \notin texts =>
          \E j \in DOMAIN left : left[j] = shown[i]
    BY UnlistedKeeps
  <1>1. DOMAIN shown = 1 .. Len(shown) /\ Len(shown) \in Nat
        /\ \A i \in DOMAIN shown : shown[i] \in Users
    BY LenProperties
  <1>2. CASE Hits(shown, texts) = {}
    <2>1. left = shown
      BY <1>2 DEF Unlisted
    <2>2. \A i \in DOMAIN shown : shown[i] # m
      BY <1>1, <1>2 DEF Hits
    <2>3. ~lost => \A i \in DOMAIN shown :
                     shown[i] \in drawn2 \/ \E k \in DOMAIN queue : shown[i] = queue[k].m
      BY <2>2 DEF Displayed
    <2>4. Displayed(shown, queue, drawn2, lost, known)
      BY <2>3, Zenon DEF Displayed
    <2> QED BY <2>1, <2>4
  <1>3. CASE Hits(shown, texts) # {}
    <2>1. PICK k \in DOMAIN shown :
             /\ shown[k] \in texts /\ Len(left) = Len(shown) - 1
             /\ \A j \in DOMAIN left : /\ (IF j < k THEN j ELSE j + 1) \in DOMAIN shown
                                       /\ left[j] = shown[IF j < k THEN j ELSE j + 1]
      BY <1>3, UnlistedIs
    <2>2. left \in Seq(Users)
      BY UnlistedIs
    <2>3. DOMAIN left = 1 .. Len(left) /\ Len(left) \in Nat
      BY <2>2, LenProperties
    <2>4. shown[k] = m
      BY <2>1
    <2>5. \A i \in DOMAIN shown : shown[i] = m => i = k
      BY <2>4 DEF Displayed
    <2>6. \A i \in DOMAIN shown : shown[i] # m => \E j \in DOMAIN left : left[j] = shown[i]
      <3> TAKE i \in DOMAIN shown
      <3> HAVE shown[i] # m
      <3>1. shown[i] \notin texts
        OBVIOUS
      <3> QED BY <1>0, <3>1
    <2> HIDE DEF left
    <2>7. \A j \in DOMAIN left : \E i \in DOMAIN shown : left[j] = shown[i] /\ shown[i] # m
      <3> TAKE j \in DOMAIN left
      <3>1. (IF j < k THEN j ELSE j + 1) \in DOMAIN shown
            /\ left[j] = shown[IF j < k THEN j ELSE j + 1]
        BY <2>1
      <3>2. (IF j < k THEN j ELSE j + 1) # k
        BY <1>1, <2>3
      <3> QED BY <2>5, <3>1, <3>2
    <2>8. \A i, j \in DOMAIN left : left[i] = left[j] => i = j
      <3> TAKE i, j \in DOMAIN left
      <3> HAVE left[i] = left[j]
      <3>1. PICK x, y : x = (IF i < k THEN i ELSE i + 1) /\ y = (IF j < k THEN j ELSE j + 1)
        OBVIOUS
      <3>2. x \in DOMAIN shown /\ y \in DOMAIN shown /\ shown[x] = shown[y]
        BY <2>1, <3>1
      <3>3. x = y
        BY <3>2 DEF Displayed
      <3> QED BY <1>1, <2>3, <3>1, <3>3
    <2>9. ASSUME NEW i \in DOMAIN left, NEW j \in DOMAIN left, NEW n \in DOMAIN queue,
                 i < j, left[i] = queue[n].m
          PROVE  \E l \in DOMAIN queue : l > n /\ left[j] = queue[l].m
      <3>1. PICK x, y : x = (IF i < k THEN i ELSE i + 1) /\ y = (IF j < k THEN j ELSE j + 1)
        OBVIOUS
      <3>2. x \in DOMAIN shown /\ y \in DOMAIN shown /\ left[i] = shown[x] /\ left[j] = shown[y]
        BY <2>1, <3>1
      <3>3. x < y
        BY <1>1, <2>3, <2>9, <3>1
      <3>4. \A i1, j1 \in DOMAIN shown : \A k1 \in DOMAIN queue :
              i1 < j1 /\ shown[i1] = queue[k1].m => \E l \in DOMAIN queue : l > k1 /\ shown[j1] = queue[l].m
        BY Zenon DEF Displayed
      <3>5. shown[x] = queue[n].m
        BY <2>9, <3>2
      <3>6. \E l \in DOMAIN queue : l > n /\ shown[y] = queue[l].m
        BY <2>9, <3>2, <3>3, <3>4, <3>5
      <3> QED BY <3>2, <3>6
    <2>10. \A n \in DOMAIN queue : queue[n].m \in Users => \E i \in DOMAIN left : left[i] = queue[n].m
      <3> TAKE n \in DOMAIN queue
      <3> HAVE queue[n].m \in Users
      <3>1. PICK i \in DOMAIN shown : shown[i] = queue[n].m
        BY DEF Displayed
      <3> QED BY <2>6, <3>1
    <2>11. /\ \A j \in DOMAIN left : left[j] \in known
           /\ ~lost => \A j \in DOMAIN left :
                         left[j] \in drawn2 \/ \E n \in DOMAIN queue : left[j] = queue[n].m
      BY <2>7 DEF Displayed
    <2>12. \A i, j \in DOMAIN left : \A n \in DOMAIN queue :
             i < j /\ left[i] = queue[n].m => \E l \in DOMAIN queue : l > n /\ left[j] = queue[l].m
      BY <2>9
    <2>13. Displayed(left, queue, drawn2, lost, known)
      BY <2>8, <2>10, <2>11, <2>12, Zenon DEF Displayed
    <2> QED BY <2>13 DEF left
  <1> QED BY <1>2, <1>3

\* A text is queued and listed.
LEMMA DisplayedListed ==
  ASSUME NEW shown \in Seq(Users), NEW K, NEW queue \in Seq(QueuedMsg(K)), NEW drawn, NEW lost, NEW known,
         NEW u \in Users, NEW x \in QueuedMsg(K), x.m = u, u \notin known,
         Displayed(shown, queue, drawn, lost, known)
  PROVE  Displayed(Append(shown, u), Append(queue, x), drawn, lost, known \cup {u})
  <1> DEFINE s2 == Append(shown, u)
             q2 == Append(queue, x)
  <1>1. /\ \A i : i \in DOMAIN s2 <=> i \in DOMAIN shown \/ i = Len(shown) + 1
        /\ \A i \in DOMAIN shown : s2[i] = shown[i]
        /\ s2[Len(shown) + 1] = u
    BY Appended
  <1>2. /\ \A i : i \in DOMAIN q2 <=> i \in DOMAIN queue \/ i = Len(queue) + 1
        /\ \A i \in DOMAIN queue : q2[i] = queue[i]
        /\ q2[Len(queue) + 1] = x
    BY Appended
  <1>3. /\ DOMAIN shown = 1 .. Len(shown) /\ Len(shown) \in Nat
        /\ DOMAIN queue = 1 .. Len(queue) /\ Len(queue) \in Nat
    BY LenProperties
  <1>4. PICK p, q : p = Len(shown) + 1 /\ q = Len(queue) + 1
    OBVIOUS
  <1> HIDE DEF s2, q2
  <1>5. \A i \in DOMAIN shown : shown[i] \in known /\ shown[i] # u
    BY DEF Displayed
  <1>6. \A i, j \in DOMAIN s2 : s2[i] = s2[j] => i = j
    <2> TAKE i, j \in DOMAIN s2
    <2> HAVE s2[i] = s2[j]
    <2>1. CASE i \in DOMAIN shown /\ j \in DOMAIN shown
      BY <1>1, <2>1 DEF Displayed
    <2>2. CASE i = Len(shown) + 1 \/ j = Len(shown) + 1
      BY <1>1, <1>5, <2>2
    <2> QED BY <1>1, <2>1, <2>2
  <1>7. \A i \in DOMAIN s2 : s2[i] \in known \cup {u}
    BY <1>1, <1>5
  <1>8. \A k \in DOMAIN q2 : q2[k].m \in Users => \E i \in DOMAIN s2 : s2[i] = q2[k].m
    <2> TAKE k \in DOMAIN q2
    <2> HAVE q2[k].m \in Users
    <2>1. CASE k \in DOMAIN queue
      <3>1. PICK i \in DOMAIN shown : shown[i] = queue[k].m
        BY <1>2, <2>1 DEF Displayed
      <3> QED BY <1>1, <1>2, <2>1, <3>1
    <2>2. CASE k = Len(queue) + 1
      BY <1>1, <1>2, <2>2
    <2> QED BY <1>2, <2>1, <2>2
  <1>9. ASSUME NEW i \in DOMAIN s2, NEW j \in DOMAIN s2, NEW k \in DOMAIN q2, i < j, s2[i] = q2[k].m
        PROVE  \E l \in DOMAIN q2 : l > k /\ s2[j] = q2[l].m
    <2>1. i \in DOMAIN shown /\ s2[i] = shown[i]
      BY <1>1, <1>3, <1>9
    <2>2. k \in DOMAIN queue /\ q2[k] = queue[k]
      BY <1>2, <1>5, <1>9, <2>1
    <2>3. CASE j \in DOMAIN shown
      <3>1. PICK l \in DOMAIN queue : l > k /\ shown[j] = queue[l].m
        <4>1. \A i1, j1 \in DOMAIN shown : \A k1 \in DOMAIN queue :
                i1 < j1 /\ shown[i1] = queue[k1].m => \E l \in DOMAIN queue : l > k1 /\ shown[j1] = queue[l].m
          BY Zenon DEF Displayed
        <4>2. shown[i] = queue[k].m
          BY <1>9, <2>1, <2>2
        <4> QED BY <1>9, <2>1, <2>2, <2>3, <4>1, <4>2, Zenon
      <3> QED BY <1>1, <1>2, <2>3, <3>1
    <2>4. CASE j = Len(shown) + 1
      <3>1. q \in DOMAIN q2 /\ q > k
        BY <1>2, <1>3, <1>4, <2>2
      <3> QED BY <1>1, <1>2, <1>4, <2>4, <3>1
    <2> QED BY <1>1, <2>3, <2>4
  <1>10. ASSUME ~lost, NEW i \in DOMAIN s2
         PROVE  s2[i] \in drawn \/ \E k \in DOMAIN q2 : s2[i] = q2[k].m
    <2>1. CASE i \in DOMAIN shown
      <3>1. shown[i] \in drawn \/ \E k \in DOMAIN queue : shown[i] = queue[k].m
        BY <1>10, <2>1 DEF Displayed
      <3> QED BY <1>1, <1>2, <2>1, <3>1
    <2>2. CASE i = Len(shown) + 1
      BY <1>1, <1>2, <2>2
    <2> QED BY <1>1, <2>1, <2>2
  <1>11. /\ \A i, j \in DOMAIN s2 : \A k \in DOMAIN q2 :
              i < j /\ s2[i] = q2[k].m => \E l \in DOMAIN q2 : l > k /\ s2[j] = q2[l].m
         /\ ~lost => \A i \in DOMAIN s2 : s2[i] \in drawn \/ \E k \in DOMAIN q2 : s2[i] = q2[k].m
    BY <1>9, <1>10
  <1>12. Displayed(s2, q2, drawn, lost, known \cup {u})
    BY <1>6, <1>7, <1>8, <1>11, Zenon DEF Displayed
  <1> QED BY <1>12 DEF s2, q2

\* A custom message is queued: it is not displayed.
LEMMA DisplayedUnlisted ==
  ASSUME NEW shown \in Seq(Users), NEW K, NEW queue \in Seq(QueuedMsg(K)), NEW drawn, NEW lost, NEW known,
         NEW known2, NEW x \in QueuedMsg(K), x.m \notin Users, known \subseteq known2,
         Displayed(shown, queue, drawn, lost, known)
  PROVE  Displayed(shown, Append(queue, x), drawn, lost, known2)
  <1> DEFINE q2 == Append(queue, x)
  <1>1. /\ \A i : i \in DOMAIN q2 <=> i \in DOMAIN queue \/ i = Len(queue) + 1
        /\ \A i \in DOMAIN queue : q2[i] = queue[i]
        /\ q2[Len(queue) + 1] = x
    BY Appended
  <1>2. \A i \in DOMAIN shown : shown[i] \in Users
    BY LenProperties
  <1> HIDE DEF q2
  <1>3. \A i \in DOMAIN shown : \A k \in DOMAIN q2 :
          shown[i] = q2[k].m => k \in DOMAIN queue /\ q2[k] = queue[k]
    BY <1>1, <1>2
  <1>4. \A k \in DOMAIN q2 : q2[k].m \in Users => k \in DOMAIN queue /\ q2[k] = queue[k]
    BY <1>1
  <1>5. \A k \in DOMAIN queue : k \in DOMAIN q2 /\ q2[k] = queue[k]
    BY <1>1
  <1>6. \A i, j \in DOMAIN shown : \A k \in DOMAIN q2 :
          i < j /\ shown[i] = q2[k].m => \E l \in DOMAIN q2 : l > k /\ shown[j] = q2[l].m
    <2> TAKE i, j \in DOMAIN shown
    <2> TAKE k \in DOMAIN q2
    <2> HAVE i < j /\ shown[i] = q2[k].m
    <2>1. k \in DOMAIN queue /\ shown[i] = queue[k].m
      BY <1>3
    <2>2. PICK l \in DOMAIN queue : l > k /\ shown[j] = queue[l].m
      BY <2>1 DEF Displayed
    <2> QED BY <1>5, <2>2
  <1>7. \A k \in DOMAIN q2 : q2[k].m \in Users => \E i \in DOMAIN shown : shown[i] = q2[k].m
    BY <1>4 DEF Displayed
  <1>8. /\ \A i \in DOMAIN shown : shown[i] \in known2
        /\ ~lost => \A i \in DOMAIN shown :
                      shown[i] \in drawn \/ \E k \in DOMAIN q2 : shown[i] = q2[k].m
    BY <1>5 DEF Displayed
  <1>9. \A i, j \in DOMAIN shown : shown[i] = shown[j] => i = j
    BY DEF Displayed
  <1> QED BY <1>6, <1>7, <1>8, <1>9 DEF Displayed, q2

DisplayInv ==
  /\ Displayed(mirror.steer, steer, Drawn("steer"), thrown, sent)
  /\ Displayed(mirror.follow, follow, Drawn("follow"), thrown, sent)
  /\ \A i \in DOMAIN mirror.steer, j \in DOMAIN mirror.follow : mirror.steer[i] # mirror.follow[j]

LEMMA DisplayIs == DisplayInv => DisplayIsTrue /\ ShownInv
  <1>1. \A shown, queue, via :
          Displayed(shown, queue, Drawn(via), thrown, sent) => ShowsQueue(shown, queue, via)
    BY Zenon DEF Displayed, ShowsQueue
  <1>2. \A shown, queue, drawn, lost, known :
          Displayed(shown, queue, drawn, lost, known) =>
            \A k \in DOMAIN queue : queue[k].m \in Users => \E i \in DOMAIN shown : shown[i] = queue[k].m
    BY Zenon DEF Displayed
  <1>3. DisplayInv => DisplayIsTrue
    BY <1>1 DEF DisplayInv, DisplayIsTrue
  <1>4. DisplayInv => ShownInv
    <2> SUFFICES ASSUME DisplayInv PROVE ShownInv
      OBVIOUS
    <2>1. Displayed(mirror.steer, steer, Drawn("steer"), thrown, sent)
          /\ Displayed(mirror.follow, follow, Drawn("follow"), thrown, sent)
      BY DEF DisplayInv
    <2>2. \A k \in DOMAIN steer : steer[k].m \in Users =>
            \E i \in DOMAIN mirror.steer : mirror.steer[i] = steer[k].m
      BY <1>2, <2>1
    <2>3. \A k \in DOMAIN follow : follow[k].m \in Users =>
            \E i \in DOMAIN mirror.follow : mirror.follow[i] = follow[k].m
      BY <1>2, <2>1
    <2> QED BY <2>2, <2>3 DEF ShownInv
  <1> QED BY <1>3, <1>4

\* The queue, and more is drained or lost than before.
LEMMA DisplayedStays ==
  ASSUME NEW shown, NEW queue, NEW drawn, NEW lost, NEW known, NEW drawn2, NEW lost2, NEW known2,
         Displayed(shown, queue, drawn, lost, known), lost => lost2, known \subseteq known2,
         ~lost2 => drawn \subseteq drawn2
  PROVE  Displayed(shown, queue, drawn2, lost2, known2)
  <1>1. \A i \in DOMAIN shown : shown[i] \in known2
    BY DEF Displayed
  <1>2. ~lost2 => \A i \in DOMAIN shown :
                    shown[i] \in drawn2 \/ \E k \in DOMAIN queue : shown[i] = queue[k].m
    BY DEF Displayed
  <1> QED BY <1>1, <1>2, Zenon DEF Displayed

\* The steps that leave the display alone: nothing is delivered or queued.
Kept ==
  /\ mirror' = mirror /\ (thrown => thrown') /\ sent \subseteq sent'
  /\ \/ UNCHANGED <<steer, follow>> /\ (pend = <<>> \/ pend' = pend \/ thrown')
     \/ pend = <<>> /\ pend' = Drained(steer) /\ steer' = Left(steer) /\ follow' = follow
     \/ pend = <<>> /\ pend' = Drained(follow) /\ follow' = Left(follow) /\ steer' = steer

LEMMA DisplayedPolled ==
  ASSUME NEW shown, NEW via, NEW queue \in Seq(QueuedMsg({via})), NEW lost, NEW lost2, NEW known,
         NEW known2, Displayed(shown, queue, {}, lost, known), lost => lost2, known \subseteq known2,
         NEW drawn2,
         \A i \in DOMAIN Drained(queue) : Drained(queue)[i].via = via => Drained(queue)[i].m \in drawn2
  PROVE  Displayed(shown, Left(queue), drawn2, lost2, known2)
  <1> DEFINE queue2 == Left(queue)
             taken  == Drained(queue)
  <1>1. PICK a \in Nat :
           /\ \A i : i \in DOMAIN taken <=> i \in DOMAIN queue /\ i <= a
           /\ \A i \in DOMAIN taken : taken[i] = queue[i]
           /\ \A i \in Int : i \in DOMAIN queue2 <=> i > 0 /\ i + a \in DOMAIN queue
           /\ \A i \in DOMAIN queue2 : i \in Int /\ queue2[i] = queue[i + a]
    BY PollSplits, Zenon
  <1>2. \A i \in DOMAIN queue : i \in Int /\ i > 0 /\ queue[i] \in QueuedMsg({via})
    BY LenProperties
  <1>3. \A i \in DOMAIN queue : queue[i].via = via
    BY <1>2 DEF QueuedMsg
  <1>4. \A i \in DOMAIN queue : i <= a => queue[i].m \in drawn2
    BY <1>1, <1>3
  <1>5. \A i \in DOMAIN queue2 : i \in Int /\ i > 0 /\ i + a \in DOMAIN queue /\ queue2[i] = queue[i + a]
    BY <1>1
  <1>6. \A i \in DOMAIN queue : i > a => i - a \in DOMAIN queue2
    BY <1>1, <1>2
  <1> HIDE DEF queue2, taken
  <1>7. Displayed(shown, queue2, drawn2, lost2, known2)
    <2>1. \A i \in DOMAIN queue : i \in Int /\ i > 0
      BY <1>2
    <2>2. ~lost2 => {} \subseteq drawn2 /\ \A i \in DOMAIN queue : i <= a => queue[i].m \in drawn2
      BY <1>4
    <2> QED BY <1>5, <1>6, <2>1, <2>2, DisplayedDrained, Zenon
  <1> QED BY <1>7 DEF queue2

LEMMA KeptDisplays ==
  ASSUME TypeInv, DisplayInv, Kept
  PROVE  DisplayInv'
  <1>1. /\ mirror' = mirror /\ (thrown => thrown') /\ sent \subseteq sent'
        /\ steer \in Seq(QueuedMsg({"steer"})) /\ follow \in Seq(QueuedMsg({"follow"}))
    BY SessionFacts DEF Kept
  <1>2. \A via : pend = <<>> => Drawn(via) = {}
    BY DEF Drawn
  <1>3. \A i \in DOMAIN mirror'.steer, j \in DOMAIN mirror'.follow : mirror'.steer[i] # mirror'.follow[j]
    BY <1>1 DEF DisplayInv
  <1>4. Displayed(mirror.steer, steer, Drawn("steer"), thrown, sent)
        /\ Displayed(mirror.follow, follow, Drawn("follow"), thrown, sent)
    BY DEF DisplayInv
  <1>5. ASSUME NEW via \in {"steer", "follow"}, pend = <<>> \/ pend' = pend \/ thrown'
        PROVE  ~thrown' => Drawn(via) \subseteq Drawn(via)'
    BY <1>2, <1>5 DEF Drawn
  <1>6. ASSUME steer' = steer, pend = <<>> \/ pend' = pend \/ thrown'
        PROVE  Displayed(mirror.steer, steer, Drawn("steer"), thrown, sent)'
    <2>1. Displayed(mirror.steer, steer, Drawn("steer")', thrown', sent')
      BY <1>1, <1>4, <1>5, <1>6, DisplayedStays
    <2> QED BY <1>1, <1>6, <2>1
  <1>7. ASSUME follow' = follow, pend = <<>> \/ pend' = pend \/ thrown'
        PROVE  Displayed(mirror.follow, follow, Drawn("follow"), thrown, sent)'
    <2>1. Displayed(mirror.follow, follow, Drawn("follow")', thrown', sent')
      BY <1>1, <1>4, <1>5, <1>7, DisplayedStays
    <2> QED BY <1>1, <1>7, <2>1
  <1>8. ASSUME pend = <<>>, pend' = Drained(steer), steer' = Left(steer)
        PROVE  Displayed(mirror.steer, steer, Drawn("steer"), thrown, sent)'
    <2>1. Displayed(mirror.steer, steer, {}, thrown, sent)
      BY <1>2, <1>4, <1>8
    <2>2. \A i \in DOMAIN Drained(steer) : Drained(steer)[i].via = "steer" => Drained(steer)[i].m \in Drawn("steer")'
      BY <1>8 DEF Drawn
    <2>3. Displayed(mirror.steer, Left(steer), Drawn("steer")', thrown', sent')
      BY <1>1, <2>1, <2>2, DisplayedPolled
    <2> QED BY <1>1, <1>8, <2>3
  <1>9. ASSUME pend = <<>>, pend' = Drained(follow), follow' = Left(follow)
        PROVE  Displayed(mirror.follow, follow, Drawn("follow"), thrown, sent)'
    <2>1. Displayed(mirror.follow, follow, {}, thrown, sent)
      BY <1>2, <1>4, <1>9
    <2>2. \A i \in DOMAIN Drained(follow) : Drained(follow)[i].via = "follow" => Drained(follow)[i].m \in Drawn("follow")'
      BY <1>9 DEF Drawn
    <2>3. Displayed(mirror.follow, Left(follow), Drawn("follow")', thrown', sent')
      BY <1>1, <2>1, <2>2, DisplayedPolled
    <2> QED BY <1>1, <1>9, <2>3
  <1> QED BY <1>3, <1>6, <1>7, <1>8, <1>9 DEF Kept, DisplayInv

LEMMA HeardTexts ==
  ASSUME Extended, Heard
  PROVE  \E texts :
           /\ texts = {ctx'[i].m : i \in {j \in Added : ctx'[j].kind = "message"}} \cap Users
           /\ mirror' = IF Hits(mirror.steer, texts) # {}
                          THEN [mirror EXCEPT !.steer = Unlisted(@, texts)]
                          ELSE [mirror EXCEPT !.follow = Unlisted(@, texts)]
  <1> DEFINE new   == {i \in DOMAIN ctx' : i > Len(ctx)}
             users == {ctx'[i].m : i \in {j \in new : ctx'[j].kind = "message"}} \cap Users
  <1>1. mirror' = IF Hits(mirror.steer, users) # {}
                    THEN [mirror EXCEPT !.steer = Unlisted(@, users)]
                    ELSE [mirror EXCEPT !.follow = Unlisted(@, users)]
    BY Zenon DEF Heard
  <1>2. new = Added
    BY DEF Extended, Added
  <1>3. users = {ctx'[i].m : i \in {j \in Added : ctx'[j].kind = "message"}} \cap Users
    BY <1>2, Zenon
  <1> HIDE DEF users
  <1> QED BY <1>1, <1>3

LEMMA UnlistedFrom ==
  ASSUME NEW S, NEW shown \in Seq(S), NEW texts
  PROVE  \A j \in DOMAIN Unlisted(shown, texts) :
           \E i \in DOMAIN shown : Unlisted(shown, texts)[j] = shown[i]
  <1>1. CASE Hits(shown, texts) = {}
    BY <1>1 DEF Unlisted
  <1>2. CASE Hits(shown, texts) # {}
    BY <1>2, UnlistedIs
  <1> QED BY <1>1, <1>2

\* Only the delivered text comes off the display, from the list that has it.
LEMMA HeardBoth ==
  ASSUME TypeInv, DisplayInv, NEW texts, NEW m, texts = {m} \cap Users,
         mirror' = IF Hits(mirror.steer, texts) # {}
                     THEN [mirror EXCEPT !.steer = Unlisted(@, texts)]
                     ELSE [mirror EXCEPT !.follow = Unlisted(@, texts)]
  PROVE  mirror'.steer = Unlisted(mirror.steer, texts) /\ mirror'.follow = Unlisted(mirror.follow, texts)
  <1>1. mirror \in [steer : Seq(Users), follow : Seq(Users)]
    BY SessionFacts
  <1>2. CASE Hits(mirror.steer, texts) # {}
    <2>1. mirror'.steer = Unlisted(mirror.steer, texts) /\ mirror'.follow = mirror.follow
      BY <1>1, <1>2
    <2>2. PICK i \in DOMAIN mirror.steer : mirror.steer[i] = m
      BY <1>2 DEF Hits
    <2>3. \A j \in DOMAIN mirror.follow : mirror.follow[j] # m
      BY <2>2 DEF DisplayInv
    <2>4. Hits(mirror.follow, texts) = {}
      BY <2>3 DEF Hits
    <2> QED BY <2>1, <2>4 DEF Unlisted
  <1>3. CASE Hits(mirror.steer, texts) = {}
    <2>1. mirror'.steer = mirror.steer /\ mirror'.follow = Unlisted(mirror.follow, texts)
      BY <1>1, <1>3
    <2> QED BY <1>3, <2>1 DEF Unlisted
  <1> QED BY <1>2, <1>3

LEMMA HeardDisplays ==
  ASSUME TypeInv, Extended, AddsMessage, Heard, PlacesInv, DisplayInv, sent' = sent
  PROVE  DisplayInv'
  <1>1. /\ pend # <<>> /\ pend' = Tail(pend)
        /\ UNCHANGED <<steer, follow, thrown>>
    BY DEF AddsMessage, Deliver
  <1>2. /\ pend \in Seq(QueuedMsg({"prompt", "steer", "follow"}))
        /\ DOMAIN pend = 1 .. Len(pend) /\ Len(pend) \in Nat
    BY LenProperties DEF TypeInv, LoopInv, LoopTypes
  <1>3. /\ 1 \in DOMAIN pend /\ Head(pend) = pend[1] /\ DOMAIN pend' = 1 .. Len(pend) - 1
        /\ \A i \in DOMAIN pend' : pend'[i] = pend[i + 1]
    BY <1>1, <1>2, EmptySeq, HeadTailProperties, LenProperties
  <1>4. PICK m : m = pend[1].m
    OBVIOUS
  <1>5. m \in Messages
    <2>1. pend[1] \in QueuedMsg({"prompt", "steer", "follow"})
      BY <1>2, <1>3
    <2> QED BY <1>4, <2>1 DEF QueuedMsg
  <1>6. PICK texts :
           /\ texts = {ctx'[i].m : i \in {j \in Added : ctx'[j].kind = "message"}} \cap Users
           /\ mirror' = IF Hits(mirror.steer, texts) # {}
                          THEN [mirror EXCEPT !.steer = Unlisted(@, texts)]
                          ELSE [mirror EXCEPT !.follow = Unlisted(@, texts)]
    BY HeardTexts
  <1>7. texts = {m} \cap Users
    <2>1. PICK n : n = Len(ctx) + 1
      OBVIOUS
    <2>2. Added = {n} /\ ctx'[n] = Delivered(pend[1])
      BY <1>3, <2>1 DEF AddsMessage
    <2>3. ctx'[n].kind = "message" /\ ctx'[n].m = m
      BY <1>4, <2>2 DEF Delivered
    <2> QED BY <1>6, <2>2, <2>3
  <1>8. mirror'.steer = Unlisted(mirror.steer, texts) /\ mirror'.follow = Unlisted(mirror.follow, texts)
    BY <1>6, <1>7, HeardBoth
  <1>9. (\A k \in DOMAIN steer : steer[k].m # m) /\ (\A k \in DOMAIN follow : follow[k].m # m)
    <2>1. Holds("pend", 1, m)
      BY <1>3, <1>4 DEF Holds, InPend
    <2>2. \A k \in DOMAIN steer : steer[k].m = m => Holds("steer", k, m)
      BY DEF Holds, InSteer
    <2>3. \A k \in DOMAIN follow : follow[k].m = m => Holds("follow", k, m)
      BY DEF Holds, InFollow
    <2>4. \A n1, i1, n2, i2 : Holds(n1, i1, m) /\ Holds(n2, i2, m) => n1 = n2 /\ i1 = i2
      BY <1>5 DEF PlacesInv, Single
    <2>5. "pend" # "steer" /\ "pend" # "follow"
      OBVIOUS
    <2> QED BY <2>1, <2>2, <2>3, <2>4, <2>5
  <1>10. ASSUME NEW via PROVE Drawn(via) \ {m} \subseteq {pend'[i].m : i \in {j \in DOMAIN pend' : pend'[j].via = via}}
    <2> SUFFICES ASSUME NEW i \in DOMAIN pend, pend[i].via = via, pend[i].m # m
        PROVE  \E j \in DOMAIN pend' : pend'[j].via = via /\ pend'[j].m = pend[i].m
      BY DEF Drawn
    <2>1. i # 1
      BY <1>4
    <2>2. i - 1 \in DOMAIN pend' /\ (i - 1) + 1 = i
      BY <1>2, <1>3, <2>1
    <2>3. pend'[i - 1] = pend[i]
      BY <1>3, <2>2
    <2> QED BY <2>2, <2>3
  <1>11. mirror.steer \in Seq(Users) /\ mirror.follow \in Seq(Users)
    BY SessionFacts
  <1>12. \A x \in Users : x \in texts <=> x = m
    BY <1>7
  <1>13. Displayed(mirror.steer, steer, Drawn("steer"), thrown, sent)
         /\ Displayed(mirror.follow, follow, Drawn("follow"), thrown, sent)
    BY DEF DisplayInv
  <1>14. Drawn("steer") \ {m} \subseteq Drawn("steer")' /\ Drawn("follow") \ {m} \subseteq Drawn("follow")'
    BY <1>10 DEF Drawn
  <1>19. /\ Taken(steer, Drawn("steer"), Drawn("steer")', m, texts)
         /\ Taken(follow, Drawn("follow"), Drawn("follow")', m, texts)
    BY <1>9, <1>12, <1>14 DEF Taken
  <1>15. Displayed(Unlisted(mirror.steer, texts), steer, Drawn("steer")', thrown, sent)
    BY <1>11, <1>13, <1>19, DisplayedHeard
  <1>16. Displayed(Unlisted(mirror.follow, texts), follow, Drawn("follow")', thrown, sent)
    BY <1>11, <1>13, <1>19, DisplayedHeard
  <1>17. \A i \in DOMAIN mirror'.steer, j \in DOMAIN mirror'.follow : mirror'.steer[i] # mirror'.follow[j]
    <2> TAKE i \in DOMAIN mirror'.steer, j \in DOMAIN mirror'.follow
    <2>1. PICK x \in DOMAIN mirror.steer : mirror'.steer[i] = mirror.steer[x]
      BY <1>8, <1>11, UnlistedFrom
    <2>2. PICK y \in DOMAIN mirror.follow : mirror'.follow[j] = mirror.follow[y]
      BY <1>8, <1>11, UnlistedFrom
    <2> QED BY <2>1, <2>2 DEF DisplayInv
  <1>18. Displayed(mirror.steer, steer, Drawn("steer"), thrown, sent)'
         /\ Displayed(mirror.follow, follow, Drawn("follow"), thrown, sent)'
    BY <1>1, <1>8, <1>15, <1>16
  <1> QED BY <1>17, <1>18 DEF DisplayInv

\* Nothing was delivered: the display stays.
LEMMA HeardNothing ==
  ASSUME TypeInv, Extended, Heard, \A i \in Added : ctx'[i].kind # "message"
  PROVE  mirror' = mirror
  <1>1. PICK texts :
           /\ texts = {ctx'[i].m : i \in {j \in Added : ctx'[j].kind = "message"}} \cap Users
           /\ mirror' = IF Hits(mirror.steer, texts) # {}
                          THEN [mirror EXCEPT !.steer = Unlisted(@, texts)]
                          ELSE [mirror EXCEPT !.follow = Unlisted(@, texts)]
    BY HeardTexts
  <1>2. texts = {}
    BY <1>1
  <1>3. \A shown : Hits(shown, texts) = {}
    BY <1>2 DEF Hits
  <1>4. Unlisted(mirror.follow, texts) = mirror.follow
    BY <1>3 DEF Unlisted
  <1>5. mirror \in [steer : Seq(Users), follow : Seq(Users)]
    BY SessionFacts
  <1>6. mirror' = [mirror EXCEPT !.follow = mirror.follow]
    BY <1>1, <1>3, <1>4
  <1> QED BY <1>5, <1>6

LEMMA KeptLoop ==
  ASSUME TypeInv, PendInv, LoopActs, ~AddsMessage
  PROVE  Kept
  <1>0. Extended
    BY LoopExtended
  <1>1. CASE RunStep
    <2>1. sent' = sent /\ Heard
      BY <1>1 DEF RunStep
    <2>2. AddsAnswer \/ AddsResults
      BY <1>1, RunStepAdds
    <2>3. \A i \in Added : ctx'[i].kind # "message"
      BY <2>2 DEF AddsAnswer, AddsResults
    <2>4. mirror' = mirror
      BY <1>0, <2>1, <2>3, HeardNothing
    <2>5. ~Deliver
      <3> SUFFICES ASSUME Deliver PROVE AddsMessage
        OBVIOUS
      <3>1. pend # <<>> /\ ctx' = Append(ctx, Delivered(Head(pend)))
        BY DEF Deliver
      <3>2. Head(pend) \in QueuedMsg({"prompt", "steer", "follow"})
        BY <3>1, HeadTailProperties DEF TypeInv, LoopInv, LoopTypes
      <3>3. Added = {Len(ctx) + 1} /\ ctx'[Len(ctx) + 1] = Delivered(Head(pend))
        BY <3>1, <3>2, Entries, AppendExtended
      <3> QED BY <3>1, <3>2, <3>3 DEF AddsMessage
    <2>6. /\ thrown' = thrown /\ follow' = follow
          /\ \/ pend' = pend /\ steer' = steer
             \/ pend = <<>> /\ pend' = Drained(steer) /\ steer' = Left(steer)
      <3>1. CASE FirstPoll
        BY <3>1, Zenon DEF FirstPoll
      <3>2. CASE Prepared
        BY <3>2, Zenon DEF Prepared
      <3>3. CASE ~FirstPoll /\ ~Prepared
        BY <1>1, <2>5, <3>3, Zenon DEF RunStep, OutOfBudget, Answer, Refuse, PrepareCall, CutBatch,
           FinishCall, CollectResults, FinishTurn
      <3> QED BY <3>1, <3>2, <3>3
    <2> QED BY <2>1, <2>4, <2>6 DEF Kept
  <1>2. CASE EndTurn
    <2>1. sent' = sent /\ Heard
      BY <1>2 DEF EndTurn
    <2>2. \A i \in Added : ctx'[i].kind # "message"
      BY <1>2, EndTurnKinds DEF Notes, Rejections
    <2>3. mirror' = mirror
      BY <1>0, <2>1, <2>2, HeardNothing
    <2>4. ASSUME NEW stop, NEW repeated, TurnEnd(stop, repeated, Flushed) PROVE Kept
      <3>1. pc = "polling" /\ thrown' = thrown
        BY <2>4 DEF TurnEnd
      <3>2. pend = <<>>
        BY <3>1 DEF PendInv
      <3>3. \/ UNCHANGED <<steer, follow, pend>>
            \/ steer' = Left(steer) /\ follow' = follow /\ pend' = Drained(steer)
            \/ /\ steer' = Left(steer) /\ Drained(steer) = <<>>
               /\ follow' = Left(follow) /\ pend' = Drained(follow)
        BY <2>4, Zenon DEF TurnEnd
      <3>4. Drained(steer) = <<>> => Left(steer) = steer
        BY SessionFacts, NoElement DEF Drained, Left
      <3> QED BY <2>1, <2>3, <3>1, <3>2, <3>3, <3>4 DEF Kept
    <2>5. ASSUME FailedTurnEnd(Flushed) PROVE Kept
      <3>1. UNCHANGED <<steer, follow, pend, thrown>>
        BY <2>5 DEF FailedTurnEnd
      <3> QED BY <2>1, <2>3, <3>1 DEF Kept
    <2>6. ASSUME NEW s, RunFails(s, Flushed) PROVE Kept
      <3>1. UNCHANGED <<steer, follow>> /\ thrown'
        BY <2>6 DEF RunFails
      <3> QED BY <2>1, <2>3, <3>1 DEF Kept
    <2> QED BY <1>2, <2>4, <2>5, <2>6, Zenon DEF EndTurn
  <1>3. CASE BreakRun
    BY <1>3 DEF BreakRun, RunBreaks, queueVars, Kept
  <1> QED BY <1>1, <1>2, <1>3 DEF LoopActs

LEMMA ContinueKeeps ==
  ASSUME PendInv, mirror' = mirror, sent' = sent,
         GoOn \/ GoOnIfQueued \/ Rest \/ (\E c : Wait(c)) \/ (\E role : Continue(role))
  PROVE  Kept
  <1>1. ASSUME NEW role, Continue(role) PROVE Kept
    <2>1. /\ pc = "off" /\ thrown' = thrown
          /\ \/ UNCHANGED <<steer, follow>>
             \/ pend' = Drained(steer) /\ steer' = Left(steer) /\ follow' = follow
             \/ pend' = Drained(follow) /\ follow' = Left(follow) /\ steer' = steer
      BY <1>1, Zenon DEF Continue, Start
    <2>2. pend = <<>>
      BY <2>1 DEF PendInv
    <2> QED BY <2>1, <2>2 DEF Kept
  <1>2. ASSUME UNCHANGED loopVars PROVE Kept
    BY <1>2 DEF loopVars, Kept
  <1>3. GoOn => Kept
    BY <1>1, <1>2 DEF GoOn
  <1>4. Rest \/ (\E c : Wait(c)) => Kept
    BY <1>2 DEF Rest, Wait
  <1> QED BY <1>1, <1>3, <1>4 DEF GoOnIfQueued

LEMMA StartKeeps ==
  ASSUME PendInv, NEW prompts, StartPrompt(prompts), mirror' = mirror, sent \subseteq sent'
  PROVE  Kept
  <1>1. pc = "off" /\ UNCHANGED <<steer, follow, thrown>>
    BY DEF StartPrompt, Start
  <1>2. pend = <<>>
    BY <1>1 DEF PendInv
  <1> QED BY <1>1, <1>2 DEF Kept

LEMMA KeptProgram ==
  ASSUME TypeInv, PendInv, Program \/ Abort \/ UNCHANGED vars, ~LoopActs
  PROVE  Kept
  <1>1. CASE UNCHANGED vars
    BY <1>1 DEF vars, loopVars, queueVars, Kept
  <1>2. CASE Abort
    BY <1>2 DEF Abort, AbortRun, queueVars, Kept
  <1>3. CASE RunEnds
    BY <1>3 DEF RunEnds, EndRun, queueVars, Kept
  <1>4. CASE PostMidRun \/ PostRetry
    <2>1. mirror' = mirror /\ sent' = sent /\ \E c : Wait(c)
      BY <1>4 DEF PostMidRun, PostRetry, queueVars
    <2> QED BY <2>1, ContinueKeeps
  <1>5. CASE PostCompact
    <2>1. mirror' = mirror /\ sent' = sent
      BY <1>5 DEF PostCompact, queueVars
    <2>2. (\E c : Wait(c)) \/ GoOnIfQueued
      BY <1>5, Zenon DEF PostCompact
    <2> QED BY <2>1, <2>2, ContinueKeeps
  <1>6. ASSUME NEW slept, BackoffEnds(slept) PROVE Kept
    <2>1. mirror' = mirror /\ sent' = sent
      BY <1>6 DEF BackoffEnds, queueVars
    <2>2. GoOn \/ (\E c : Wait(c)) \/ GoOnIfQueued
      BY <1>6, Zenon DEF BackoffEnds
    <2> QED BY <2>1, <2>2, ContinueKeeps
  <1>7. ASSUME NEW ok, CompactionEnds(ok) PROVE Kept
    <2>1. mirror' = mirror /\ sent' = sent
      BY <1>7 DEF CompactionEnds, queueVars
    <2>2. GoOn \/ (\E c : Wait(c)) \/ GoOnIfQueued \/ Rest
      BY <1>7, Zenon DEF CompactionEnds
    <2> QED BY <2>1, <2>2, ContinueKeeps
  <1>8. ASSUME NEW handlers, NEW asked, BeforeSettle(handlers, asked) PROVE Kept
    <2>1. mirror' = mirror /\ sent' = sent
      BY <1>8 DEF BeforeSettle
    <2>2. (\E role : Continue(role)) \/ (\E flush : Record(flush))
      BY <1>8, Zenon DEF BeforeSettle
    <2>3. ASSUME NEW flush, Record(flush) PROVE Kept
      BY <2>1, <2>3 DEF Record, Kept
    <2> QED BY <2>1, <2>2, <2>3, ContinueKeeps
  <1>9. CASE Settle
    BY <1>9 DEF Settle, Record, Kept
  <1>10. CASE SettledEnds \/ PromptReturns \/ PreflightRefused
    BY <1>10 DEF SettledEnds, PromptReturns, PreflightRefused, loopVars, queueVars, Kept
  <1>11. CASE StartRun
    <2>1. mirror' = mirror /\ sent' = sent /\ \E prompts : StartPrompt(prompts)
      BY <1>11 DEF StartRun, BeginRun
    <2> QED BY <2>1, StartKeeps
  <1>12. CASE DeferredStarts
    <2>1. mirror' = mirror /\ sent' = sent
      BY <1>12 DEF DeferredStarts, queueVars
    <2>2. (\E prompts : StartPrompt(prompts)) \/ UNCHANGED loopVars
      BY <1>12, Zenon DEF DeferredStarts, BeginRun
    <2>3. UNCHANGED loopVars => Kept
      BY <2>1 DEF loopVars, Kept
    <2> QED BY <2>1, <2>2, <2>3, StartKeeps
  <1> QED BY <1>1, <1>2, <1>3, <1>4, <1>5, <1>6, <1>7, <1>8, <1>9, <1>10, <1>11, <1>12 DEF Program, LoopActs

\* Texts that are listed, queued messages that are not, and the queues cleared.
LEMMA ListedDisplays ==
  ASSUME TypeInv, DisplayInv, NEW u \in Users, QueueSteer(u) \/ QueueFollowUp(u)
  PROVE  DisplayInv'
  <1>1. /\ mirror \in [steer : Seq(Users), follow : Seq(Users)]
        /\ mirror.steer \in Seq(Users) /\ mirror.follow \in Seq(Users)
        /\ steer \in Seq(QueuedMsg({"steer"})) /\ follow \in Seq(QueuedMsg({"follow"}))
    BY SessionFacts
  <1>2. u \notin sent /\ sent' = sent \cup {u}
    BY DEF QueueSteer, QueueFollowUp, New
  <1>3. u \in Messages
    BY DEF Messages
  <1>4. /\ Displayed(mirror.steer, steer, Drawn("steer"), thrown, sent)
        /\ Displayed(mirror.follow, follow, Drawn("follow"), thrown, sent)
        /\ \A i \in DOMAIN mirror.steer, j \in DOMAIN mirror.follow : mirror.steer[i] # mirror.follow[j]
    BY DEF DisplayInv
  <1>5. /\ \A i \in DOMAIN mirror.steer : mirror.steer[i] \in sent
        /\ \A i \in DOMAIN mirror.follow : mirror.follow[i] \in sent
    BY <1>4, Zenon DEF Displayed
  <1>6. CASE QueueSteer(u)
    <2>1. /\ UNCHANGED <<follow, pend, thrown>> /\ steer' = Append(steer, Queued(u, "steer"))
          /\ mirror' = [mirror EXCEPT !.steer = Append(mirror.steer, u)]
      BY <1>6 DEF QueueSteer, Steer
    <2>2. mirror'.steer = Append(mirror.steer, u) /\ mirror'.follow = mirror.follow
      BY <1>1, <2>1
    <2>3. Drawn("steer")' = Drawn("steer") /\ Drawn("follow")' = Drawn("follow")
      BY <2>1 DEF Drawn
    <2>4. Queued(u, "steer") \in QueuedMsg({"steer"}) /\ Queued(u, "steer").m = u
      BY <1>3, QueueKinds DEF Queued
    <2>5. Displayed(Append(mirror.steer, u), Append(steer, Queued(u, "steer")), Drawn("steer"), thrown,
                    sent \cup {u})
      BY <1>1, <1>2, <1>4, <2>4, DisplayedListed
    <2>6. Displayed(mirror.follow, follow, Drawn("follow"), thrown, sent \cup {u})
      <3>1. sent \subseteq sent \cup {u} /\ Drawn("follow") \subseteq Drawn("follow")
        OBVIOUS
      <3> QED BY <1>4, <3>1, DisplayedStays
    <2>7. Displayed(mirror.steer, steer, Drawn("steer"), thrown, sent)'
          /\ Displayed(mirror.follow, follow, Drawn("follow"), thrown, sent)'
      BY <1>2, <2>1, <2>2, <2>3, <2>5, <2>6
    <2>8. \A i \in DOMAIN mirror'.steer : mirror'.steer[i] = u \/ \E j \in DOMAIN mirror.steer : mirror'.steer[i] = mirror.steer[j]
      BY <1>1, <2>2, Appended
    <2>9. \A i \in DOMAIN mirror'.steer, j \in DOMAIN mirror'.follow : mirror'.steer[i] # mirror'.follow[j]
      BY <1>2, <1>4, <1>5, <2>2, <2>8
    <2> QED BY <2>7, <2>9 DEF DisplayInv
  <1>7. CASE QueueFollowUp(u)
    <2>1. /\ UNCHANGED <<steer, pend, thrown>> /\ follow' = Append(follow, Queued(u, "follow"))
          /\ mirror' = [mirror EXCEPT !.follow = Append(mirror.follow, u)]
      BY <1>7 DEF QueueFollowUp, FollowUp
    <2>2. mirror'.follow = Append(mirror.follow, u) /\ mirror'.steer = mirror.steer
      BY <1>1, <2>1
    <2>3. Drawn("steer")' = Drawn("steer") /\ Drawn("follow")' = Drawn("follow")
      BY <2>1 DEF Drawn
    <2>4. Queued(u, "follow") \in QueuedMsg({"follow"}) /\ Queued(u, "follow").m = u
      BY <1>3, QueueKinds DEF Queued
    <2>5. Displayed(Append(mirror.follow, u), Append(follow, Queued(u, "follow")), Drawn("follow"), thrown,
                    sent \cup {u})
      BY <1>1, <1>2, <1>4, <2>4, DisplayedListed
    <2>6. Displayed(mirror.steer, steer, Drawn("steer"), thrown, sent \cup {u})
      <3>1. sent \subseteq sent \cup {u} /\ Drawn("steer") \subseteq Drawn("steer")
        OBVIOUS
      <3> QED BY <1>4, <3>1, DisplayedStays
    <2>7. Displayed(mirror.steer, steer, Drawn("steer"), thrown, sent)'
          /\ Displayed(mirror.follow, follow, Drawn("follow"), thrown, sent)'
      BY <1>2, <2>1, <2>2, <2>3, <2>5, <2>6
    <2>8. \A i \in DOMAIN mirror'.follow : mirror'.follow[i] = u \/ \E j \in DOMAIN mirror.follow : mirror'.follow[i] = mirror.follow[j]
      BY <1>1, <2>2, Appended
    <2>9. \A i \in DOMAIN mirror'.steer, j \in DOMAIN mirror'.follow : mirror'.steer[i] # mirror'.follow[j]
      BY <1>2, <1>4, <1>5, <2>2, <2>8
    <2> QED BY <2>7, <2>9 DEF DisplayInv
  <1> QED BY <1>6, <1>7

LEMMA UnlistedDisplays ==
  ASSUME TypeInv, DisplayInv, NEW c \in Customs, CustomQueued(c)
  PROVE  DisplayInv'
  <1>1. /\ mirror.steer \in Seq(Users) /\ mirror.follow \in Seq(Users)
        /\ steer \in Seq(QueuedMsg({"steer"})) /\ follow \in Seq(QueuedMsg({"follow"}))
    BY SessionFacts
  <1>2. mirror' = mirror /\ sent' = sent \cup {c} /\ (Steer(Queued(c, "steer")) \/ FollowUp(Queued(c, "follow")))
    BY DEF CustomQueued, New
  <1>3. c \in Messages /\ c \notin Users /\ sent \subseteq sent'
    BY <1>2, SessionAssumption DEF Messages
  <1>4. /\ Displayed(mirror.steer, steer, Drawn("steer"), thrown, sent)
        /\ Displayed(mirror.follow, follow, Drawn("follow"), thrown, sent)
        /\ \A i \in DOMAIN mirror.steer, j \in DOMAIN mirror.follow : mirror.steer[i] # mirror.follow[j]
    BY DEF DisplayInv
  <1>5. /\ Queued(c, "steer") \in QueuedMsg({"steer"}) /\ Queued(c, "steer").m \notin Users
        /\ Queued(c, "follow") \in QueuedMsg({"follow"}) /\ Queued(c, "follow").m \notin Users
    BY <1>3, QueueKinds DEF Queued
  <1>6. UNCHANGED <<pend, thrown>>
    BY <1>2 DEF Steer, FollowUp
  <1>7. Drawn("steer")' = Drawn("steer") /\ Drawn("follow")' = Drawn("follow")
    BY <1>6 DEF Drawn
  <1>8. /\ Displayed(mirror.steer, steer, Drawn("steer"), thrown, sent')
        /\ Displayed(mirror.follow, follow, Drawn("follow"), thrown, sent')
    <2>1. \A s : s \subseteq s
      OBVIOUS
    <2> QED BY <1>3, <1>4, <2>1, DisplayedStays
  <1>9. CASE Steer(Queued(c, "steer"))
    <2>1. steer' = Append(steer, Queued(c, "steer")) /\ follow' = follow
      BY <1>9 DEF Steer
    <2>2. Displayed(mirror.steer, Append(steer, Queued(c, "steer")), Drawn("steer"), thrown, sent')
      BY <1>1, <1>3, <1>4, <1>5, DisplayedUnlisted
    <2>3. Displayed(mirror.steer, steer, Drawn("steer"), thrown, sent)'
          /\ Displayed(mirror.follow, follow, Drawn("follow"), thrown, sent)'
      BY <1>2, <1>6, <1>7, <1>8, <2>1, <2>2
    <2> QED BY <1>2, <1>4, <2>3 DEF DisplayInv
  <1>10. CASE FollowUp(Queued(c, "follow"))
    <2>1. follow' = Append(follow, Queued(c, "follow")) /\ steer' = steer
      BY <1>10 DEF FollowUp
    <2>2. Displayed(mirror.follow, Append(follow, Queued(c, "follow")), Drawn("follow"), thrown, sent')
      BY <1>1, <1>3, <1>4, <1>5, DisplayedUnlisted
    <2>3. Displayed(mirror.steer, steer, Drawn("steer"), thrown, sent)'
          /\ Displayed(mirror.follow, follow, Drawn("follow"), thrown, sent)'
      BY <1>2, <1>6, <1>7, <1>8, <2>1, <2>2
    <2> QED BY <1>2, <1>4, <2>3 DEF DisplayInv
  <1> QED BY <1>2, <1>9, <1>10

LEMMA DisplayedNothing == \A drawn, lost, known : Displayed(<<>>, <<>>, drawn, lost, known)
  BY DEF Displayed

LEMMA ClearDisplays == ASSUME ClearQueue PROVE DisplayInv'
  <1>1. steer' = <<>> /\ follow' = <<>> /\ mirror' = [steer |-> <<>>, follow |-> <<>>]
    BY DEF ClearQueue, ClearQueues
  <1>2. mirror'.steer = <<>> /\ mirror'.follow = <<>>
    BY <1>1
  <1>3. Displayed(mirror.steer, steer, Drawn("steer"), thrown, sent)'
        /\ Displayed(mirror.follow, follow, Drawn("follow"), thrown, sent)'
    BY <1>1, <1>2, DisplayedNothing
  <1>4. \A i \in DOMAIN mirror'.steer, j \in DOMAIN mirror'.follow : mirror'.steer[i] # mirror'.follow[j]
    BY <1>2
  <1> QED BY <1>3, <1>4 DEF DisplayInv

LEMMA DisplayInit == Init => DisplayInv
  <1> SUFFICES ASSUME Init PROVE DisplayInv
    OBVIOUS
  <1>1. steer = <<>> /\ follow = <<>> /\ mirror = [steer |-> <<>>, follow |-> <<>>]
    BY DEF Init, LoopInit
  <1>2. mirror.steer = <<>> /\ mirror.follow = <<>>
    BY <1>1
  <1> QED BY <1>1, <1>2, DisplayedNothing DEF DisplayInv

LEMMA SentKeeps ==
  ASSUME PendInv,
         (\E u \in Users : Prompt(u) \/ PromptWhileSettling(u))
           \/ \E c \in Customs : CustomNextTurn(c) \/ CustomContext(c) \/ CustomTriggers(c) \/ CustomTriggersLater(c)
  PROVE  Kept
  <1>1. ASSUME NEW u, Prompt(u) \/ PromptWhileSettling(u) PROVE Kept
    BY <1>1 DEF Prompt, PromptWhileSettling, New, loopVars, Kept
  <1>2. ASSUME NEW c, CustomNextTurn(c) \/ CustomTriggersLater(c) PROVE Kept
    BY <1>2 DEF CustomNextTurn, CustomTriggersLater, New, loopVars, Kept
  <1>3. ASSUME NEW c, CustomContext(c) PROVE Kept
    <2>1. mirror' = mirror /\ sent \subseteq sent' /\ UNCHANGED <<steer, follow, pend, thrown>>
      BY <1>3 DEF CustomContext, New, Record, loopVars
    <2> QED BY <2>1 DEF Kept
  <1>4. ASSUME NEW c, CustomTriggers(c) PROVE Kept
    <2>1. mirror' = mirror /\ sent \subseteq sent' /\ StartPrompt(<<Queued(c, "prompt")>>)
      BY <1>4 DEF CustomTriggers, New, BeginRun
    <2> QED BY <2>1, StartKeeps
  <1> QED BY <1>1, <1>2, <1>3, <1>4

LEMMA DisplayNext ==
  TypeInv /\ PendInv /\ PlacesInv /\ DisplayInv /\ [Next]_vars => DisplayInv'
  <1> SUFFICES ASSUME TypeInv, PendInv, PlacesInv, DisplayInv, [Next]_vars PROVE DisplayInv'
    OBVIOUS
  <1>1. CASE LoopActs
    <2>1. CASE AddsMessage
      <3>1. Extended
        BY <1>1, LoopExtended
      <3>2. RunStep
        <4>1. ~EndTurn
          <5>1. EndTurn => \A i \in Added : ctx'[i].kind # "message"
            BY EndTurnKinds DEF Notes, Rejections
          <5> QED BY <2>1, <5>1 DEF AddsMessage, Delivered
        <4>2. ~BreakRun
          <5>1. BreakRun => \A i \in Added : ctx'[i].kind # "message"
            BY BreakRunAdds DEF Rejections
          <5> QED BY <2>1, <5>1 DEF AddsMessage, Delivered
        <4> QED BY <1>1, <4>1, <4>2 DEF LoopActs
      <3>3. Heard /\ sent' = sent
        BY <3>2 DEF RunStep
      <3> QED BY <2>1, <3>1, <3>3, HeardDisplays
    <2>2. CASE ~AddsMessage
      BY <1>1, <2>2, KeptLoop, KeptDisplays
    <2> QED BY <2>1, <2>2
  <1>2. CASE (Program \/ Abort \/ UNCHANGED vars) /\ ~LoopActs
    BY <1>2, KeptProgram, KeptDisplays
  <1>3. CASE Outside /\ ~Abort
    BY <1>3, SentKeeps, KeptDisplays, ListedDisplays, UnlistedDisplays, ClearDisplays DEF Outside
  <1> QED BY <1>1, <1>2, <1>3 DEF Next

LEMMA WaitNext == TypeInv /\ WaitInv /\ [Next]_vars => WaitInv'
  <1> SUFFICES ASSUME TypeInv, WaitInv, [Next]_vars PROVE WaitInv'
    OBVIOUS
  <1>1. ASSUME deferred' = deferred \/ deferred' = <<>> \/ \E m : deferred' = <<m>>,
               front'.at = "preflight" => sc' = "idle"
        PROVE  WaitInv'
    <2>1. \A i \in DOMAIN deferred' : i = 1
      BY <1>1 DEF WaitInv
    <2> QED BY <1>1, <2>1 DEF WaitInv
  <1>2. ASSUME deferred' = deferred, front' = front, sc' = sc \/ sc # "idle" PROVE WaitInv'
    BY <1>1, <1>2 DEF WaitInv
  <1>3. CASE UNCHANGED vars
    BY <1>2, <1>3 DEF vars, callVars
  <1>4. CASE LoopActs
    BY <1>2, <1>4 DEF LoopActs, RunStep, EndTurn, BreakRun, callVars
  <1>5. CASE Outside
    <2>1. ASSUME NEW u, Prompt(u) PROVE WaitInv'
      BY <1>1, <2>1 DEF Prompt
    <2>2. ASSUME NEW u, PromptWhileSettling(u) \/ CustomTriggersLater(u) PROVE WaitInv'
      <3>1. deferred' = <<u>> /\ front' = front /\ sc' = sc
        BY <2>2 DEF PromptWhileSettling, CustomTriggersLater
      <3> QED BY <1>1, <3>1 DEF WaitInv
    <2>3. ASSUME NEW u, QueueSteer(u) \/ QueueFollowUp(u) \/ CustomNextTurn(u) \/ CustomQueued(u) \/ CustomContext(u)
          PROVE  WaitInv'
      BY <1>2, <2>3 DEF QueueSteer, QueueFollowUp, CustomNextTurn, CustomQueued, CustomContext, callVars
    <2>4. ASSUME NEW c, CustomTriggers(c) PROVE WaitInv'
      <3>1. deferred' = deferred /\ front' = front /\ front.at # "preflight"
        BY <2>4 DEF CustomTriggers, callVars
      <3> QED BY <1>1, <3>1
    <2>5. CASE ClearQueue \/ Abort
      BY <1>2, <2>5 DEF ClearQueue, Abort, callVars
    <2> QED BY <1>5, <2>1, <2>2, <2>3, <2>4, <2>5 DEF Outside
  <1>6. CASE StartRun \/ PreflightRefused
    <2>1. deferred' = deferred /\ front'.at # "preflight"
      BY <1>6 DEF StartRun, PreflightRefused, NoFront
    <2> QED BY <1>1, <2>1
  <1>7. CASE RunEnds \/ PostMidRun \/ PostRetry \/ PostCompact \/ Settle
    BY <1>2, <1>7 DEF RunEnds, PostMidRun, PostRetry, PostCompact, Settle, callVars
  <1>8. ASSUME NEW b, BackoffEnds(b) \/ CompactionEnds(b) PROVE WaitInv'
    BY <1>2, <1>8 DEF BackoffEnds, CompactionEnds, callVars
  <1>9. ASSUME NEW handlers, NEW asked, BeforeSettle(handlers, asked) PROVE WaitInv'
    <2>1. deferred' = deferred /\ front' = front /\ sc = "before"
      BY <1>9 DEF BeforeSettle, callVars
    <2> QED BY <1>2, <2>1
  <1>10. CASE SettledEnds
    BY <1>1, <1>10 DEF SettledEnds
  <1>11. CASE DeferredStarts
    <2>1. sc = "settling" /\ deferred' = <<>> /\ (front' = front \/ sc' = "idle")
      BY <1>11, Zenon DEF DeferredStarts
    <2> QED BY <1>1, <2>1 DEF WaitInv
  <1>12. CASE PromptReturns
    <2>1. deferred' = deferred /\ front'.at = "none"
      BY <1>12 DEF PromptReturns, NoFront
    <2> QED BY <1>1, <2>1
  <1> QED BY <1>3, <1>4, <1>5, <1>6, <1>7, <1>8, <1>9, <1>10, <1>11, <1>12 DEF Next, Program, LoopActs

LEMMA PlacesNext ==
  TypeInv /\ TypeInv' /\ PendInv /\ ShownInv /\ WaitInv /\ PlacesInv /\ [Next]_vars => PlacesInv'
  <1> SUFFICES ASSUME TypeInv, TypeInv', PendInv, ShownInv, WaitInv, PlacesInv, [Next]_vars PROVE PlacesInv'
    OBVIOUS
  <1>1. CASE LoopActs
    BY <1>1, LoopAccounts, PlacesCarried
  <1>2. CASE ~LoopActs /\ (Program \/ ClearQueue \/ Abort \/ UNCHANGED vars)
    BY <1>2, OtherAccounts, PlacesCarried
  <1>3. CASE Outside /\ ~ClearQueue /\ ~Abort
    BY <1>3, OutsideSends, PlacesSent
  <1> QED BY <1>1, <1>2, <1>3 DEF Next

\* What the display and the places of messages rest on.
QueueInv == TypeInv /\ PendInv /\ WaitInv /\ PlacesInv /\ DisplayInv

LEMMA QueueInvariant == Spec => []QueueInv
  <1>1. Init => QueueInv
    BY TypeInit, PendInit, PlacesInit, DisplayInit DEF QueueInv
  <1>2. QueueInv /\ [Next]_vars => QueueInv'
    <2> SUFFICES ASSUME QueueInv, [Next]_vars PROVE QueueInv'
      OBVIOUS
    <2>1. TypeInv /\ PendInv /\ WaitInv /\ PlacesInv /\ DisplayInv /\ ShownInv
      BY DisplayIs DEF QueueInv
    <2>2. TypeInv'
      BY <2>1, TypeNext
    <2>3. PendInv'
      BY <2>1, PendNext
    <2>4. WaitInv' /\ DisplayInv'
      BY <2>1, WaitNext, DisplayNext
    <2>5. PlacesInv'
      BY <2>1, <2>2, PlacesNext
    <2> QED BY <2>2, <2>3, <2>4, <2>5 DEF QueueInv
  <1> QED BY <1>1, <1>2, PTL DEF Spec

\* steer(), followUp(), sendCustomMessage and the loop's polls, deliveries and
\* flushes neither lose nor duplicate a message: one that is sent is in one
\* queue at one position, or in the transcript once, until clearQueue takes it
\* back, its prompt is refused or an exception ends the run that drained it.
THEOREM MessagesInOnePlace == Spec => []InOnePlace
  <1>1. QueueInv => InOnePlace
    BY PlacesIs DEF QueueInv
  <1> QED BY <1>1, QueueInvariant, PTL

\* The lists the editor shows (_steeringMessages, _followUpMessages) follow the
\* agent's queues, although they are other lists, changed at other moments.
THEOREM DisplayStaysTrue == Spec => []DisplayIsTrue
  <1>1. QueueInv => DisplayIsTrue
    BY DisplayIs DEF QueueInv
  <1> QED BY <1>1, QueueInvariant, PTL

-----------------------------------------------------------------------------
(* What a request rests on.                                                 *)

Lost == \E m \in sent : ~Somewhere(m)
Turn == {"tools", "executing", "turnEnd", "polling"}

\* The answer of the turn, later than what a retry or a recovery omitted.
TurnInput ==
  \E a \in DOMAIN ctx :
    /\ ctx[a].kind = "asst" /\ (\A i \in omitted : i < a)
    /\ \A j \in DOMAIN ctx : j > a => ctx[j].kind # "asst"

\* A run that will ask for an answer has something to deliver first, or a
\* context that does not end with an answer; a handler's continuation has
\* either, or messages that are flushed or polled before it.
InputInv ==
  /\ pc \in Turn => TurnInput
  /\ pc \in {"prompting", "injecting", "between"} => pend # <<>> \/ LastRole # "asst" \/ Lost
  /\ pc = "polling" /\ loop.cont => LastRole # "asst" \/ customs # <<>> \/ HasQueued \/ Lost

LEMMA LastRoleIs ==
  /\ ctx \in Seq(Entry) /\ Len(ctx) > 0 /\ Len(ctx) \notin omitted => LastRole = ctx[Len(ctx)].kind
  /\ ctx' \in Seq(Entry) /\ Len(ctx') > 0 /\ Len(ctx') \notin omitted' => LastRole' = ctx'[Len(ctx')].kind
  <1>1. ASSUME NEW c \in Seq(Entry), NEW o, Len(c) > 0, Len(c) \notin o
        PROVE  (IF DOMAIN c \ o = {} THEN "none"
                ELSE c[CHOOSE i \in DOMAIN c \ o : \A j \in DOMAIN c \ o : j <= i].kind) = c[Len(c)].kind
    <2>1. DOMAIN c = 1 .. Len(c) /\ Len(c) \in Nat
      BY LenProperties
    <2>2. Len(c) \in DOMAIN c \ o /\ \A j \in DOMAIN c \ o : j <= Len(c)
      BY <1>1, <2>1
    <2>3. \A i \in DOMAIN c \ o : (\A j \in DOMAIN c \ o : j <= i) => i = Len(c)
      BY <2>1, <2>2
    <2>4. (CHOOSE i \in DOMAIN c \ o : \A j \in DOMAIN c \ o : j <= i) = Len(c)
      BY <2>2, <2>3
    <2> QED BY <2>2, <2>4
  <1>2. ctx \in Seq(Entry) /\ Len(ctx) > 0 /\ Len(ctx) \notin omitted => LastRole = ctx[Len(ctx)].kind
    BY <1>1 DEF LastRole
  <1>3. ctx' \in Seq(Entry) /\ Len(ctx') > 0 /\ Len(ctx') \notin omitted' => LastRole' = ctx'[Len(ctx')].kind
    BY <1>1 DEF LastRole
  <1> QED BY <1>2, <1>3

\* What is recorded last is what continue() looks at.
LEMMA RoleOfNew ==
  ASSUME TypeInv, Extended, omitted' = omitted, Len(ctx') > Len(ctx)
  PROVE  LastRole' = ctx'[Len(ctx')].kind
  <1>1. omitted \subseteq DOMAIN ctx
    BY DEF TypeInv, SessionTypes
  <1>2. ctx' \in Seq(Entry) /\ Len(ctx') > 0 /\ Len(ctx') \notin omitted'
    BY <1>1 DEF Extended
  <1> QED BY <1>2, LastRoleIs

LEMMA RoleSame == ASSUME ctx' = ctx, omitted' = omitted PROVE LastRole' = LastRole
  BY DEF LastRole

LEMMA DrainedSome == \A q : q # <<>> => Drained(q) # <<>>
  BY DEF Drained

\* A message without a place stays without one.
LEMMA LostStays ==
  ASSUME TypeInv, TypeInv', PendInv, ShownInv, WaitInv, PlacesInv, [Next]_vars, Lost
  PROVE  Lost'
  <1>1. CASE Accounts
    <2>1. PICK m \in sent : ~Somewhere(m)
      BY DEF Lost
    <2>2. m \in Messages
      BY SessionFacts
    <2>3. sent' = sent /\ (Somewhere(m)' => Somewhere(m))
      BY <1>1, <2>2 DEF Accounts, Conserves
    <2> QED BY <2>1, <2>3 DEF Lost
  <1>2. CASE Sends
    <2>1. PICK m \in sent : ~Somewhere(m)
      BY DEF Lost
    <2>2. m \in Messages
      BY SessionFacts
    <2>3. PICK m0 \in Messages : m0 \notin sent /\ sent' = sent \cup {m0} /\ Placed(m0)
      BY <1>2 DEF Sends
    <2>4. PICK n0 \in Names, i0 \in Int : \A m1 \in Messages : \A n, i :
             Holds(n, i, m1)' <=> Holds(n, i, m1) \/ (n = n0 /\ i = i0 /\ m1 = m0)
      BY <2>3 DEF Placed
    <2>5. \A n, i : Holds(n, i, m)' => Holds(n, i, m)
      BY <2>1, <2>2, <2>3, <2>4
    <2>6. ~Somewhere(m)'
      BY <2>1, <2>5 DEF Somewhere
    <2> QED BY <2>1, <2>3, <2>6 DEF Lost
  <1>3. Accounts \/ Sends
    BY LoopAccounts, OtherAccounts, OutsideSends DEF Next
  <1> QED BY <1>1, <1>2, <1>3

LEMMA ClearLoses ==
  ASSUME TypeInv, PlacesInv, ClearQueue, HasQueued
  PROVE  Lost'
  <1>1. /\ steer' = <<>> /\ follow' = <<>> /\ sent' = sent
        /\ UNCHANGED <<pend, ctx, customs, nextTurn, front, deferred>>
    BY DEF ClearQueue, ClearQueues, callVars
  <1>2. \A n \in Names \ {"steer", "follow"} : SameQueue(n)
    BY <1>1, SameQueues DEF Names
  <1>3. \A i, m : ~Holds("steer", i, m)' /\ ~Holds("follow", i, m)'
    BY <1>1 DEF Holds, InSteer, InFollow
  <1>4. PICK n0 \in {"steer", "follow"}, m \in Messages : Holds(n0, 1, m)
    <2>1. steer \in Seq(QueuedMsg({"steer"})) /\ follow \in Seq(QueuedMsg({"follow"}))
      BY SessionFacts
    <2>2. ASSUME steer # <<>> PROVE \E m \in Messages : Holds("steer", 1, m)
      <3>1. 1 \in DOMAIN steer /\ steer[1] \in QueuedMsg({"steer"})
        BY <2>1, <2>2, EmptySeq, LenProperties
      <3>2. steer[1].m \in Messages
        BY <3>1 DEF QueuedMsg
      <3> QED BY <3>1, <3>2 DEF Holds, InSteer
    <2>3. ASSUME follow # <<>> PROVE \E m \in Messages : Holds("follow", 1, m)
      <3>1. 1 \in DOMAIN follow /\ follow[1] \in QueuedMsg({"follow"})
        BY <2>1, <2>3, EmptySeq, LenProperties
      <3>2. follow[1].m \in Messages
        BY <3>1 DEF QueuedMsg
      <3> QED BY <3>1, <3>2 DEF Holds, InFollow
    <2> QED BY <2>2, <2>3 DEF HasQueued
  <1>5. Single(m) /\ m \in sent
    BY <1>4 DEF PlacesInv, Somewhere
  <1>6. ~Somewhere(m)'
    <2> SUFFICES ASSUME NEW n, NEW i, Holds(n, i, m)' PROVE FALSE
      BY DEF Somewhere
    <2>1. n \in Names \ {"steer", "follow"}
      BY <1>3, NoSuchQueue
    <2>2. Holds(n, i, m)
      BY <1>2, <2>1 DEF SameQueue
    <2>3. n = n0
      BY <1>4, <1>5, <2>2 DEF Single
    <2> QED BY <2>1, <2>3
  <1> QED BY <1>1, <1>5, <1>6 DEF Lost

LEMMA TurnGrows ==
  ASSUME Extended, AddsResults, omitted' = omitted, TurnInput
  PROVE  TurnInput'
  <1>1. PICK a \in DOMAIN ctx :
          /\ ctx[a].kind = "asst" /\ (\A i \in omitted : i < a)
          /\ \A j \in DOMAIN ctx : j > a => ctx[j].kind # "asst"
    BY DEF TurnInput
  <1>2. a \in DOMAIN ctx' /\ ctx'[a].kind = "asst" /\ \A i \in omitted' : i < a
    BY <1>1 DEF Extended
  <1>3. ASSUME NEW j \in DOMAIN ctx', j > a PROVE ctx'[j].kind # "asst"
    <2>1. CASE j \in DOMAIN ctx
      BY <1>1, <1>3, <2>1 DEF Extended
    <2>2. CASE j \in Added
      BY <2>2 DEF AddsResults
    <2> QED BY <2>1, <2>2 DEF Extended, Added
  <1> QED BY <1>2, <1>3 DEF TurnInput

LEMMA AnswerInput ==
  ASSUME TypeInv, Extended, AddsAnswer, omitted' = omitted
  PROVE  TurnInput'
  <1> DEFINE a == Len(ctx) + 1
  <1>1. a \in DOMAIN ctx' /\ ctx'[a].kind = "asst"
    BY DEF AddsAnswer, Extended, Added
  <1>2. \A i \in omitted' : i < a
    <2>1. omitted \subseteq DOMAIN ctx
      BY DEF TypeInv, SessionTypes
    <2> QED BY <2>1 DEF Extended
  <1>3. \A j \in DOMAIN ctx' : j > a => ctx'[j].kind # "asst"
    BY DEF AddsAnswer, Extended, Added
  <1>4. Len(ctx)' = Len(ctx')
    OBVIOUS
  <1>5. PICK b : b = a
    OBVIOUS
  <1> HIDE DEF a
  <1> QED BY <1>1, <1>2, <1>3, <1>5 DEF TurnInput

\* The steps of the loop within a turn, and up to its request.
LEMMA InputRun ==
  ASSUME TypeInv, InputInv, RunStep, Lost => Lost'
  PROVE  InputInv'
  <1>0. Extended /\ omitted' = omitted /\ customs' = customs
    BY RunStepAdds DEF RunStep
  <1>1. CASE Deliver
    <2>1. pc' = pc /\ pc \in {"prompting", "injecting"} /\ pend # <<>>
          /\ ctx' = Append(ctx, Delivered(Head(pend)))
      BY <1>1 DEF Deliver
    <2>2. Head(pend) \in QueuedMsg({"prompt", "steer", "follow"})
      BY <2>1, HeadTailProperties DEF TypeInv, LoopInv, LoopTypes
    <2>3. Len(ctx') = Len(ctx) + 1 /\ ctx'[Len(ctx) + 1] = Delivered(Head(pend))
      BY <2>1, <2>2, Entries, AppendExtended
    <2>4. LastRole' = ctx'[Len(ctx')].kind
      BY <1>0, <2>3, RoleOfNew DEF Extended
    <2>5. LastRole' = "message"
      BY <2>3, <2>4 DEF Delivered
    <2> QED BY <2>1, <2>5 DEF InputInv, Turn
  <1>2. CASE FirstPoll
    <2>1. pc = "prompting" /\ pend = <<>> /\ pc' = "injecting" /\ ctx' = ctx
      BY <1>2, Zenon DEF FirstPoll
    <2>2. LastRole # "asst" \/ Lost
      BY <2>1 DEF InputInv
    <2>3. LastRole' = LastRole
      BY <1>0, <2>1, RoleSame
    <2> QED BY <2>1, <2>2, <2>3 DEF InputInv, Turn
  <1>3. CASE Prepared
    <2>1. pc = "between" /\ pc' = "injecting" /\ ctx' = ctx /\ (pend = <<>> \/ pend' = pend)
      BY <1>3, Zenon DEF Prepared
    <2>2. pend # <<>> \/ LastRole # "asst" \/ Lost
      BY <2>1 DEF InputInv
    <2>3. LastRole' = LastRole
      BY <1>0, <2>1, RoleSame
    <2> QED BY <2>1, <2>2, <2>3 DEF InputInv, Turn
  <1>4. CASE OutOfBudget \/ \E s \in Failed \cup {"aborted"} : Refuse(s)
    <2>1. pc' \in {"ended", "failedTurn"}
      BY <1>4, Zenon DEF OutOfBudget, Refuse
    <2> QED BY <2>1 DEF InputInv, Turn
  <1>5. ASSUME NEW n \in 0 .. MaxCalls, NEW s \in {"stop", "length"}, NEW par \in BOOLEAN,
               Answer(n, s, par)
        PROVE  InputInv'
    <2>1. /\ pc' \in {"turnEnd", "tools"} /\ ctx'[Len(ctx) + 1] = Asst(n, s)
          /\ Len(ctx') = Len(ctx) + 1 + (IF s = "length" THEN n ELSE 0) /\ n \in Nat
      BY <1>5, AnswerIs
    <2>2. Len(ctx) + 1 \in Added /\ ctx'[Len(ctx) + 1].kind = "asst"
      BY <1>0, <2>1 DEF Extended, Added, Asst
    <2>3. AddsAnswer
      <3>1. ~AddsMessage /\ ~AddsResults
        BY <2>2 DEF AddsMessage, AddsResults, Delivered
      <3> QED BY <3>1, RunStepAdds
    <2>4. TurnInput'
      BY <1>0, <2>3, AnswerInput
    <2> QED BY <2>1, <2>4 DEF InputInv
  <1>6. ASSUME pc \in Turn PROVE TurnInput'
    <2>1. AddsResults
      <3>1. ~AddsMessage /\ ~AddsAnswer
        BY <1>6 DEF AddsMessage, Deliver, AddsAnswer, Requesting, Turn
      <3> QED BY <3>1, RunStepAdds
    <2> QED BY <1>0, <1>6, <2>1, TurnGrows DEF InputInv
  <1>7. CASE \/ \E how \in {"ready", "fail", "stop"} : PrepareCall(how)
             \/ CutBatch
             \/ \E i \in Calls, how \in Hows : FinishCall(i, how)
             \/ CollectResults
    <2>1. pc \in Turn /\ pc' \in {"tools", "executing", "turnEnd"}
      <3>1. ASSUME NEW how \in Prep, PrepareCall(how) PROVE pc \in Turn /\ pc' \in {"tools", "executing", "turnEnd"}
        BY <3>1, Zenon DEF PrepareCall, Turn
      <3>2. ASSUME NEW i, NEW how, FinishCall(i, how) PROVE pc \in Turn /\ pc' \in {"tools", "executing", "turnEnd"}
        BY <3>2, Zenon DEF FinishCall, Turn
      <3>3. CASE CutBatch \/ CollectResults
        BY <3>3, Zenon DEF CutBatch, CollectResults, Turn
      <3> QED BY <1>7, <3>1, <3>2, <3>3
    <2> QED BY <1>6, <2>1 DEF InputInv
  <1>8. ASSUME NEW c \in BOOLEAN, FinishTurn(c), c => LastRole # "asst" \/ customs # <<>> \/ HasQueued
        PROVE  InputInv'
    <2>1. /\ pc = "turnEnd" /\ pc' = "polling" /\ ctx' = ctx /\ steer' = steer /\ follow' = follow
          /\ loop' = [loop EXCEPT !.cont = c, !.fails = Failing]
      BY <1>8 DEF FinishTurn
    <2>2. loop'.cont = c
      BY <2>1 DEF TypeInv, LoopInv, LoopTypes
    <2>3. LastRole' = LastRole /\ HasQueued' = HasQueued
      BY <1>0, <2>1, RoleSame DEF HasQueued
    <2>4. TurnInput'
      BY <1>6, <2>1 DEF Turn
    <2>5. c => (LastRole # "asst" \/ customs # <<>> \/ HasQueued)'
      BY <1>0, <1>8, <2>3
    <2> QED BY <2>1, <2>2, <2>4, <2>5 DEF InputInv
  <1>9. \/ Deliver \/ FirstPoll \/ Prepared
        \/ OutOfBudget \/ \E s \in Failed \cup {"aborted"} : Refuse(s)
        \/ \E n \in 0 .. MaxCalls, s \in {"stop", "length"}, par \in BOOLEAN : Answer(n, s, par)
        \/ \E how \in {"ready", "fail", "stop"} : PrepareCall(how)
        \/ CutBatch
        \/ \E i \in Calls, how \in Hows : FinishCall(i, how)
        \/ CollectResults
        \/ FinishTurn(FALSE)
        \/ (LastRole # "asst" \/ customs # <<>> \/ HasQueued) /\ FinishTurn(TRUE)
    BY Zenon DEF RunStep
  <1> QED BY <1>1, <1>2, <1>3, <1>4, <1>5, <1>7, <1>8, <1>9

\* A turn with results does not leave its answer last.
LEMMA MoreToolsInput ==
  ASSUME TypeInv, TurnInput, MoreTools
  PROVE  LastRole # "asst"
  <1>1. PICK a \in DOMAIN ctx :
          /\ ctx[a].kind = "asst" /\ (\A i \in omitted : i < a)
          /\ \A j \in DOMAIN ctx : j > a => ctx[j].kind # "asst"
    BY DEF TurnInput
  <1>2. ctx \in Seq(Entry) /\ DOMAIN ctx = 1 .. Len(ctx) /\ Len(ctx) \in Nat
    BY BatchFacts
  <1>3. HasAnswer(ctx)
    BY <1>1 DEF HasAnswer
  <1>4. LastAsst = a
    <2>1. /\ LastAsst \in DOMAIN ctx /\ ctx[LastAsst].kind = "asst"
          /\ \A j \in DOMAIN ctx : j > LastAsst => ctx[j].kind # "asst"
      BY <1>2, <1>3, LastAsstIs
    <2> QED BY <1>1, <1>2, <2>1
  <1>5. PICK j \in a + 1 .. Len(ctx) : TRUE
    BY <1>4 DEF MoreTools, LastResults, TurnResults
  <1>6. Len(ctx) > a /\ Len(ctx) > 0 /\ Len(ctx) \in DOMAIN ctx /\ Len(ctx) \notin omitted
    BY <1>1, <1>2, <1>5
  <1>7. LastRole = ctx[Len(ctx)].kind
    BY <1>2, <1>6, LastRoleIs
  <1> QED BY <1>1, <1>6, <1>7

\* Custom messages recorded last are what continue() looks at.
LEMMA NotedRole ==
  ASSUME TypeInv, NEW s \in Seq(Notes), ctx' = ctx \o s, omitted' = omitted
  PROVE  LastRole' = IF s # <<>> THEN "custom" ELSE LastRole
  <1>1. Noted
    BY DEF Noted
  <1>2. Extended /\ \A i \in Added : ctx'[i] \in Notes
    BY <1>1, NotedExtended
  <1>3. s \in Seq(Entry) /\ Len(s) \in Nat
    BY FlushedNotes, LenProperties
  <1>4. Len(ctx') = Len(ctx) + Len(s)
    BY <1>2, <1>3, Concat DEF Extended
  <1>5. CASE s # <<>>
    <2>1. Len(s) > 0
      BY <1>3, <1>5, EmptySeq
    <2>2. Len(ctx') > Len(ctx) /\ Len(ctx') \in Added
      BY <1>2, <1>3, <1>4, <2>1 DEF Extended, Added
    <2>3. LastRole' = ctx'[Len(ctx')].kind
      BY <1>2, <2>2, RoleOfNew
    <2>4. ctx'[Len(ctx')] \in Notes
      BY <1>2, <2>2
    <2>5. LastRole' = "custom"
      BY <2>3, <2>4 DEF Notes
    <2> QED BY <1>5, <2>5
  <1>6. CASE s = <<>>
    <2>1. ctx' = ctx
      BY <1>2, <1>6, ConcatEmptySeq DEF Extended
    <2> QED BY <1>6, <2>1, RoleSame
  <1> QED BY <1>5, <1>6

\* The end of a turn: what the run goes on for is its input.
LEMMA InputEnd ==
  ASSUME TypeInv, InputInv, EndTurn, Lost => Lost'
  PROVE  InputInv'
  <1>0. omitted' = omitted
    BY DEF EndTurn
  <1>1. ASSUME pc' = "ended" PROVE InputInv'
    BY <1>1 DEF InputInv, Turn
  <1>2. ASSUME NEW stop \in BOOLEAN, NEW repeated \in BOOLEAN, TurnEnd(stop, repeated, Flushed)
        PROVE  InputInv'
    <2> DEFINE polled == Drained(steer)
               onward == MoreTools \/ polled # <<>>
    <2>1. pc = "polling" /\ pc' \in {"ended", "between"}
      BY <1>2, Zenon DEF TurnEnd
    <2>2. ASSUME pc' # "ended"
          PROVE  /\ ctx' = (ctx \o Flushed) \o <<>>
                 /\ pend' = IF onward THEN polled ELSE Drained(follow)
                 /\ onward \/ follow # <<>> \/ loop.cont
      BY <1>2, <2>2, Zenon DEF TurnEnd
    <2>3. ASSUME pc' # "ended" PROVE ctx' = ctx \o Flushed
      <3>1. ctx \o Flushed \in Seq(Entry)
        BY BatchFacts, FlushedNotes, ConcatProperties
      <3> QED BY <2>2, <2>3, <3>1, ConcatEmptySeq
    <2>4. ASSUME pc' # "ended" PROVE LastRole' = IF Flushed # <<>> THEN "custom" ELSE LastRole
      BY <1>0, <2>3, <2>4, FlushedNotes, NotedRole
    <2>5. customs # <<>> => Flushed # <<>>
      <3>1. customs \in Seq(Customs) /\ DOMAIN Flushed = DOMAIN customs
        BY SessionFacts DEF Flushed
      <3>2. customs # <<>> => 1 \in DOMAIN customs
        BY <3>1, EmptySeq, LenProperties
      <3> QED BY <3>1, <3>2
    <2>6. TurnInput /\ (loop.cont => LastRole # "asst" \/ customs # <<>> \/ HasQueued \/ Lost)
      BY <2>1 DEF InputInv, Turn
    <2>7. MoreTools => LastRole # "asst"
      BY <2>6, MoreToolsInput
    <2>8. /\ steer # <<>> => polled # <<>>
          /\ follow # <<>> => Drained(follow) # <<>>
      BY DrainedSome
    <2> HIDE DEF polled
    <2>9. ASSUME pc' # "ended" PROVE pend' # <<>> \/ LastRole' # "asst" \/ Lost'
      <3>1. CASE Flushed # <<>>
        BY <2>4, <2>9, <3>1
      <3>2. CASE Flushed = <<>> /\ onward
        BY <2>2, <2>4, <2>7, <2>9, <3>2, Zenon
      <3>3. CASE Flushed = <<>> /\ ~onward /\ follow # <<>>
        BY <2>2, <2>8, <2>9, <3>3, Zenon
      <3>4. CASE Flushed = <<>> /\ ~onward /\ follow = <<>>
        <4>1. loop.cont /\ steer = <<>>
          BY <2>2, <2>8, <2>9, <3>4
        <4>2. LastRole # "asst" \/ Lost
          BY <2>5, <2>6, <3>4, <4>1 DEF HasQueued
        <4> QED BY <2>4, <2>9, <3>4, <4>2
      <3> QED BY <3>1, <3>2, <3>3, <3>4
    <2> QED BY <1>1, <2>1, <2>9 DEF InputInv, Turn
  <1>3. ASSUME FailedTurnEnd(Flushed) \/ \E s \in {"aborted", "error", "flaky"} : RunFails(s, Flushed)
        PROVE  pc' = "ended"
    BY <1>3 DEF FailedTurnEnd, RunFails
  <1> QED BY <1>1, <1>2, <1>3 DEF EndTurn

LEMMA InputOff == ASSUME pc' = "off" PROVE InputInv'
  BY DEF InputInv, Turn

LEMMA InputBegins == ASSUME Begins PROVE InputInv'
  <1>1. pc' = "prompting" /\ pend' # <<>>
    BY DEF Begins, StartPrompt, Start
  <1> QED BY <1>1 DEF InputInv, Turn

\* agent.continue() on what the context ends with, or on a queue.
LEMMA InputContinues ==
  ASSUME NEW role, CanContinue(role), Continue(role), LastRole' = role
  PROVE  InputInv'
  <1>1. pc' = "prompting"
    BY Zenon DEF Continue, Start
  <1>2. CASE role # "asst"
    BY <1>1, <1>2 DEF InputInv, Turn
  <1>3. CASE role = "asst"
    <2>1. steer # <<>> \/ follow # <<>>
      BY <1>3 DEF CanContinue
    <2>2. pend' = IF steer # <<>> THEN Drained(steer) ELSE Drained(follow)
      BY <1>3, Zenon DEF Continue, Start
    <2>3. pend' # <<>>
      BY <2>1, <2>2, DrainedSome, Zenon
    <2> QED BY <1>1, <2>3 DEF InputInv, Turn
  <1> QED BY <1>2, <1>3

LEMMA InputGoOn ==
  ASSUME TypeInv, pc = "off",
         Rest \/ (\E c : Wait(c)) \/ (omitted' = omitted /\ (GoOn \/ GoOnIfQueued))
  PROVE  InputInv'
  <1>1. ASSUME UNCHANGED loopVars PROVE InputInv'
    BY <1>1, InputOff DEF loopVars
  <1>2. CASE Rest \/ \E c : Wait(c)
    <2>1. UNCHANGED loopVars
      BY <1>2 DEF Rest, Wait
    <2> QED BY <1>1, <2>1
  <1>3. ASSUME omitted' = omitted, GoOn PROVE InputInv'
    <2>1. CASE CanContinue(LastRole)
      <3>1. Continue(LastRole) /\ ctx' = ctx
        BY <1>3, <2>1, Zenon DEF GoOn
      <3>2. LastRole' = LastRole
        BY <1>3, <3>1, RoleSame
      <3> QED BY <2>1, <3>1, <3>2, InputContinues
    <2>2. CASE ~CanContinue(LastRole)
      <3>1. UNCHANGED loopVars
        BY <1>3, <2>2, Zenon DEF GoOn
      <3> QED BY <1>1, <3>1
    <2> QED BY <2>1, <2>2
  <1> QED BY <1>2, <1>3 DEF GoOnIfQueued

\* Calls from outside leave a turn its input, or take it with the queue.
LEMMA InputOutside ==
  ASSUME TypeInv, PlacesInv, InputInv, Outside \/ UNCHANGED vars, Lost => Lost'
  PROVE  InputInv'
  <1>1. CASE Begins
    BY <1>1, InputBegins
  <1>2. CASE Stays /\ pc = "off"
    BY <1>2, InputOff DEF Stays
  <1>3. CASE Stays /\ pc # "off"
    <2>1. /\ pc' = pc /\ pend' = pend /\ loop' = loop /\ ctx' = ctx
      BY <1>3 DEF Stays
    <2>2. omitted' = omitted
      BY DEF vars, runVars, Outside, Prompt, PromptWhileSettling, QueueSteer, QueueFollowUp,
         CustomNextTurn, CustomQueued, CustomContext, CustomTriggers, CustomTriggersLater,
         ClearQueue, Abort
    <2>3. LastRole' = LastRole /\ (TurnInput => TurnInput')
      BY <2>1, <2>2, RoleSame DEF TurnInput
    <2>4. customs' = customs \/ \E c \in Customs : customs' = Append(customs, c)
      BY Zenon DEF vars, queueVars, Outside, Prompt, PromptWhileSettling, QueueSteer, QueueFollowUp,
         CustomNextTurn, CustomQueued, CustomContext, CustomTriggers, CustomTriggersLater,
         ClearQueue, Abort
    <2>5. customs # <<>> => customs' # <<>>
      <3>1. customs \in Seq(Customs)
        BY SessionFacts
      <3>2. \A c \in Customs : Append(customs, c) # <<>>
        BY <3>1, AppendProperties
      <3> QED BY <2>4, <3>2
    <2>6. HasQueued => HasQueued' \/ Lost'
      <3>1. ClearQueue \/ UNCHANGED <<steer, follow>> \/ \E x : Steer(x) \/ FollowUp(x)
        BY <1>3, Zenon DEF vars, loopVars, Outside, Prompt, PromptWhileSettling, QueueSteer, QueueFollowUp,
           CustomNextTurn, CustomQueued, CustomContext, CustomTriggers, CustomTriggersLater,
           Record, BeginRun, StartPrompt, Abort, AbortRun
      <3>2. CASE ClearQueue
        BY <3>2, ClearLoses
      <3>3. CASE UNCHANGED <<steer, follow>>
        BY <3>3 DEF HasQueued
      <3>4. CASE \E x : Steer(x) \/ FollowUp(x)
        <4>1. PICK x : Steer(x) \/ FollowUp(x)
          BY <3>4
        <4>2. /\ steer' = steer \/ steer' = Append(steer, x)
              /\ follow' = follow \/ follow' = Append(follow, x)
          BY <4>1 DEF Steer, FollowUp
        <4>3. Append(steer, x) # <<>> /\ Append(follow, x) # <<>>
          <5>1. ASSUME NEW S, NEW q \in Seq(S) PROVE Append(q, x) # <<>>
            <6>1. q \in Seq(S \cup {x}) /\ x \in S \cup {x}
              BY SeqMonotonic
            <6> QED BY <6>1, AppendProperties
          <5> QED BY <5>1, SessionFacts
        <4> QED BY <4>2, <4>3 DEF HasQueued
      <3> QED BY <3>1, <3>2, <3>3, <3>4
    <2> QED BY <2>1, <2>3, <2>5, <2>6 DEF InputInv
  <1> QED BY <1>1, <1>2, <1>3, OutsideSteps

LEMMA InputOther ==
  ASSUME TypeInv, PlacesInv, InputInv, [Next]_vars, ~LoopActs, Lost => Lost'
  PROVE  InputInv'
  <1>1. CASE Outside \/ UNCHANGED vars
    BY <1>1, InputOutside
  <1>2. CASE StartRun
    <2>1. front.at = "preflight" /\ BeginRun(<<Queued(front.m, "prompt")>> \o nextTurn)
      BY <1>2 DEF StartRun
    <2>2. front.m \in Messages /\ nextTurn \in Seq(QueuedMsg({"prompt"}))
      BY <2>1, SessionFacts DEF FrontInv, Messages
    <2>3. Begins
      BY <2>1, <2>2, BeginBegins
    <2> QED BY <2>3, InputBegins
  <1>3. ASSUME pc = "off", UNCHANGED loopVars PROVE InputInv'
    BY <1>3, InputOff DEF loopVars
  <1>4. CASE PreflightRefused \/ SettledEnds
    <2>1. pc = "off" /\ UNCHANGED loopVars
      BY <1>4, SessionFacts DEF PreflightRefused, SettledEnds
    <2> QED BY <1>3, <2>1
  <1>5. CASE PromptReturns
    <2>1. UNCHANGED <<loopVars, queueVars, runVars>>
      BY <1>5 DEF PromptReturns
    <2>2. UNCHANGED <<pc, pend, ctx, loop, steer, follow, customs, omitted>>
      BY <2>1 DEF loopVars, queueVars, runVars
    <2>3. LastRole' = LastRole /\ HasQueued' = HasQueued /\ TurnInput' = TurnInput
      BY <2>2 DEF LastRole, HasQueued, TurnInput
    <2> QED BY <2>2, <2>3 DEF InputInv
  <1>6. CASE RunEnds
    BY <1>6, InputOff DEF RunEnds, EndRun
  <1>7. CASE PostMidRun \/ PostRetry
    <2>1. pc = "off" /\ \E c : Wait(c)
      BY <1>7, SessionFacts DEF PostMidRun, PostRetry
    <2> QED BY <2>1, InputGoOn
  <1>8. CASE PostCompact
    <2>1. pc = "off"
      BY <1>8, SessionFacts DEF PostCompact
    <2>2. Wait("compactRetry") \/ Wait("compact") \/ (omitted' = omitted /\ GoOnIfQueued)
      BY <1>8, Zenon DEF PostCompact
    <2> QED BY <2>1, <2>2, InputGoOn
  <1>9. ASSUME NEW slept, BackoffEnds(slept) PROVE InputInv'
    <2>1. pc = "off" /\ omitted' = omitted
      BY <1>9, SessionFacts DEF BackoffEnds
    <2>2. GoOn \/ Wait("finish") \/ GoOnIfQueued
      BY <1>9, Zenon DEF BackoffEnds
    <2> QED BY <2>1, <2>2, InputGoOn
  <1>10. ASSUME NEW ok, CompactionEnds(ok) PROVE InputInv'
    <2>1. pc = "off" /\ omitted' = omitted
      BY <1>10, SessionFacts DEF CompactionEnds, runVars
    <2>2. GoOn \/ Wait("finish") \/ GoOnIfQueued \/ Rest
      BY <1>10, Zenon DEF CompactionEnds
    <2> QED BY <2>1, <2>2, InputGoOn
  <1>11. ASSUME NEW handlers, NEW asked, BeforeSettle(handlers, asked) PROVE InputInv'
    <2> DEFINE flush == IF handlers THEN Flushed ELSE <<>>
               role  == IF flush # <<>> THEN "custom" ELSE LastRole
    <2>1. pc = "off" /\ omitted' = omitted
      BY <1>11, SessionFacts DEF BeforeSettle, runVars
    <2>2. \/ CanContinue(role) /\ Continue(role) /\ ctx' = ctx \o flush
          \/ Record(flush)
      BY <1>11, Zenon DEF BeforeSettle
    <2>3. flush \in Seq(Notes)
      BY FlushedNotes
    <2> HIDE DEF flush
    <2>4. CASE Record(flush)
      BY <2>1, <2>4, InputOff DEF Record
    <2>5. CASE CanContinue(role) /\ Continue(role) /\ ctx' = ctx \o flush
      <3>1. LastRole' = role
        BY <2>1, <2>3, <2>5, NotedRole
      <3> HIDE DEF role
      <3> QED BY <2>5, <3>1, InputContinues
    <2> QED BY <2>2, <2>4, <2>5
  <1>12. CASE Settle
    BY <1>12, InputOff, SessionFacts DEF Settle, Record
  <1>13. CASE DeferredStarts
    <2>1. deferred # <<>> /\ pc = "off"
      BY <1>13, SessionFacts DEF DeferredStarts
    <2>2. Head(deferred) \in Messages
      BY <2>1, SessionFacts, HeadTailProperties
    <2>3. BeginRun(<<Queued(Head(deferred), "prompt")>>) \/ UNCHANGED loopVars
      BY <1>13, Zenon DEF DeferredStarts
    <2> QED BY <1>3, <2>1, <2>2, <2>3, BeginOne, InputBegins
  <1> QED
    BY <1>1, <1>2, <1>4, <1>5, <1>6, <1>7, <1>8, <1>9, <1>10, <1>11, <1>12, <1>13
    DEF Next, Program, LoopActs

LEMMA InputNext == QueueInv /\ QueueInv' /\ InputInv /\ [Next]_vars => InputInv'
  <1> SUFFICES ASSUME QueueInv, QueueInv', InputInv, [Next]_vars PROVE InputInv'
    OBVIOUS
  <1>1. TypeInv /\ PendInv /\ WaitInv /\ PlacesInv /\ ShownInv /\ TypeInv'
    BY DisplayIs DEF QueueInv
  <1>2. Lost => Lost'
    BY <1>1, LostStays
  <1>3. CASE RunStep
    BY <1>1, <1>2, <1>3, InputRun
  <1>4. CASE EndTurn
    BY <1>1, <1>2, <1>4, InputEnd
  <1>5. CASE BreakRun
    BY <1>5 DEF BreakRun, RunBreaks, InputInv, Turn
  <1>6. CASE ~LoopActs
    BY <1>1, <1>2, <1>6, InputOther
  <1> QED BY <1>3, <1>4, <1>5, <1>6 DEF LoopActs

LEMMA InputIs == QueueInv /\ InputInv => RequestHasInput
  <1> SUFFICES ASSUME QueueInv, InputInv, Requesting, \A m \in sent : Places(m) # {}
      PROVE  LastRole # "asst"
    BY DEF RequestHasInput
  <1>1. ~Lost
    BY PlacesAre DEF Lost
  <1> QED BY <1>1 DEF InputInv, Requesting

\* Whatever made the agent ask again (a prompt, a queue, tool results, a retry,
\* a compaction, a handler's continuation), the context it sends does not end
\* with the model's own answer, unless a message that was its input is gone.
THEOREM RequestsHaveInput == Spec => []RequestHasInput
  <1>1. Init => InputInv
    BY DEF Init, LoopInit, InputInv, Turn
  <1>2. QueueInv /\ QueueInv' /\ InputInv /\ [Next]_vars => InputInv'
    BY InputNext
  <1> QED BY <1>1, <1>2, InputIs, QueueInvariant, PTL DEF Spec
=============================================================================
