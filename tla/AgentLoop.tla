----------------------------- MODULE AgentLoop -----------------------------
(***************************************************************************)
(* One agent: its two message queues and the loop that answers a prompt,   *)
(* runs tool calls and delivers queued messages (agent.ts, agent-loop.ts). *)
(* An action runs from one await to the next that something else can use;  *)
(* the events a step emits are the session's business (AgentSession).      *)
(***************************************************************************)
EXTENDS Naturals, Sequences, FiniteSets

CONSTANTS
  OneAtATime,   \* TRUE: queues drain "one-at-a-time" (the default), FALSE: "all"
  RepeatLimit,  \* failed results after which a run may stop (MAX_IDENTICAL_FAILURES)
  MaxCalls,     \* bound: tool calls of one assistant message
  MaxEvents     \* bound: calls from outside, tool calls, failures and
                \* continuations, all together

ASSUME LoopAssumption ==
  /\ OneAtATime \in BOOLEAN
  /\ RepeatLimit \in Nat \ {0} /\ MaxCalls \in Nat /\ MaxEvents \in Nat

VARIABLES
  pc,        \* where the active run is; "off": there is none
  steer,     \* steeringQueue
  follow,    \* followUpQueue
  pend,      \* pendingMessages of the loop, or the prompts it starts with
  ctx,       \* every message the session has recorded, in order
  aborted,   \* the active run's abort signal
  batch,     \* the tool calls of the last assistant message
  loop,      \* loop locals: skip the first poll, a continuation asked for,
             \* failed results in a row
  spent,     \* the run budget is exhausted (its limits: RunBudget)
  thrown,    \* an exception ended a run (history)
  events     \* events so far (bound)

loopVars == <<pc, steer, follow, pend, ctx, aborted, batch, loop, spent, thrown>>

Queued(m, via) == [m |-> m, via |-> via]
Delivered(x)   == [kind |-> "message", m |-> x.m, via |-> x.via]
Asst(n, s)     == [kind |-> "asst", calls |-> n, stop |-> s]
Result(i, how) == [kind |-> "result", call |-> i, how |-> how]
Hows == {"ok", "fail", "end", "stop"}

Happens(n) == events + n <= MaxEvents /\ events' = events + n

\* PendingMessageQueue.drain: what a poll takes, and what it leaves.
Drained(queue) == IF OneAtATime /\ queue # <<>> THEN <<Head(queue)>> ELSE queue
LeftUndrained(queue) == queue   \* mutant: a poll leaves what it takes
Left(queue)    == IF OneAtATime /\ queue # <<>> THEN Tail(queue) ELSE <<>>

NoBatch   == [par |-> TRUE, next |-> 1, st |-> <<>>]
NoLocals  == [skip |-> FALSE, cont |-> FALSE, fails |-> 0]

LoopInit ==
  /\ pc = "off" /\ steer = <<>> /\ follow = <<>> /\ pend = <<>> /\ ctx = <<>>
  /\ aborted = FALSE /\ batch = NoBatch /\ loop = NoLocals
  /\ spent = FALSE /\ thrown = FALSE /\ events = 0

-----------------------------------------------------------------------------
(* Queues, abort, and the start and the end of a run: the caller says what  *)
(* becomes of events.                                                       *)

Steer(x)    == steer' = Append(steer, x) /\ UNCHANGED <<pc, follow, pend, ctx, aborted, batch, loop, spent, thrown>>
FollowUp(x) == follow' = Append(follow, x) /\ UNCHANGED <<pc, steer, pend, ctx, aborted, batch, loop, spent, thrown>>

ClearQueues ==
  /\ steer' = <<>> /\ follow' = <<>>
  /\ UNCHANGED <<pc, pend, ctx, aborted, batch, loop, spent, thrown>>

\* Messages recorded from outside the loop while no run is active.
Record(entries) ==
  /\ ctx' = ctx \o entries
  /\ UNCHANGED <<pc, steer, follow, pend, aborted, batch, loop, spent, thrown>>

AbortRun ==
  /\ aborted' = (pc # "off")
  /\ UNCHANGED <<pc, steer, follow, pend, ctx, batch, loop, spent, thrown>>

\* runWithLifecycle: a fresh abort controller and the prompts, if any.
Start(prompts, skip) ==
  /\ pc = "off"
  /\ pc' = "prompting" /\ pend' = prompts
  /\ loop' = [NoLocals EXCEPT !.skip = skip]
  /\ aborted' = FALSE
  /\ UNCHANGED <<batch, thrown>>

\* prompt(): a new budget.  (continue() keeps the one in use.)
StartPrompt(prompts) ==
  Start(prompts, FALSE) /\ spent' = FALSE /\ UNCHANGED <<steer, follow, ctx>>

CanContinueAnyway(role) == role # "none"   \* mutant: the last message is not looked at

\* continue(): with an assistant message last, only the queues can continue it.
CanContinue(role) ==
  role \notin {"asst", "none"} \/ (role = "asst" /\ (steer # <<>> \/ follow # <<>>))

Continue(role) ==
  /\ IF role # "asst" THEN Start(<<>>, FALSE) /\ UNCHANGED <<steer, follow>>
     ELSE IF steer # <<>>
       THEN Start(Drained(steer), TRUE) /\ steer' = Left(steer) /\ UNCHANGED follow
       ELSE Start(Drained(follow), FALSE) /\ follow' = Left(follow) /\ UNCHANGED steer
  /\ UNCHANGED spent

\* finishRun, after the listeners of agent_end.
EndRun ==
  /\ pc \in {"ended", "broken"}
  /\ pc' = "off" /\ aborted' = FALSE /\ loop' = NoLocals
  /\ UNCHANGED <<steer, follow, pend, ctx, batch, spent, thrown>>

-----------------------------------------------------------------------------
(* A turn: pending messages, then one assistant message.                    *)

Deliver ==
  /\ pc \in {"prompting", "injecting"} /\ pend # <<>>
  /\ ctx' = Append(ctx, Delivered(Head(pend)))
  /\ pend' = Tail(pend)
  /\ UNCHANGED <<pc, steer, follow, aborted, batch, loop, spent, thrown, events>>

\* "Check for steering messages at start (user may have typed while waiting)"
FirstPoll ==
  /\ pc = "prompting" /\ pend = <<>>
  /\ pc' = "injecting"
  /\ IF loop.skip THEN UNCHANGED <<pend, steer>>
                  ELSE pend' = Drained(steer) /\ steer' = Left(steer)
  /\ loop' = [loop EXCEPT !.skip = FALSE]
  /\ UNCHANGED <<follow, ctx, aborted, batch, spent, thrown, events>>

\* Mutant: poll again whatever the last poll found.
PreparedPollsTwice ==
  /\ pc = "between"
  /\ pc' = "injecting"
  /\ pend' = pend \o Drained(steer) /\ steer' = Left(steer)
  /\ loop' = IF pend' = <<>> THEN loop ELSE [loop EXCEPT !.fails = 0]
  /\ UNCHANGED <<follow, ctx, aborted, batch, spent, thrown, events>>

\* prepareNextTurn returned: poll again if the last poll found nothing.
Prepared ==
  /\ pc = "between"
  /\ pc' = "injecting"
  /\ IF pend = <<>> THEN pend' = Drained(steer) /\ steer' = Left(steer)
                    ELSE UNCHANGED <<pend, steer>>
  /\ loop' = IF pend' = <<>> THEN loop ELSE [loop EXCEPT !.fails = 0]
  /\ UNCHANGED <<follow, ctx, aborted, batch, spent, thrown, events>>

\* tryBeginProviderRequest refused: the run ends without an answer.
OutOfBudget ==
  /\ pc = "injecting" /\ pend = <<>>
  /\ pc' = "ended"
  /\ spent' = TRUE /\ (IF spent THEN UNCHANGED events ELSE Happens(1))
  /\ UNCHANGED <<steer, follow, pend, ctx, aborted, batch, loop, thrown>>

Requesting == pc = "injecting" /\ pend = <<>> /\ ~spent

\* streamAssistantResponse ended well: n tool calls, or none.  The calls of a
\* message cut off by the token limit all fail unexecuted.
Answer(n, s, par) ==
  /\ Requesting /\ ~aborted
  /\ Happens(IF n = 0 /\ s = "length" THEN 1 ELSE n)
  /\ ctx' = Append(ctx, Asst(n, s))
              \o (IF s = "length" THEN [i \in 1 .. n |-> Result(i, "fail")] ELSE <<>>)
  /\ pc' = IF n = 0 \/ s = "length" THEN "turnEnd" ELSE "tools"
  /\ batch' = IF pc' = "tools" THEN [par |-> par, next |-> 1, st |-> [i \in 1 .. n |-> "wait"]]
                               ELSE NoBatch
  /\ UNCHANGED <<steer, follow, pend, aborted, loop, spent, thrown>>

\* It ended with an error, or because the run was aborted.  Calls in such a
\* message never run, so none are counted.
Refuse(s) ==
  /\ Requesting
  /\ IF aborted THEN s \in {"aborted", "error"} /\ UNCHANGED events
                ELSE s # "aborted" /\ Happens(1)
  /\ ctx' = Append(ctx, Asst(0, s))
  /\ pc' = "failedTurn"
  /\ UNCHANGED <<steer, follow, pend, aborted, batch, loop, spent, thrown>>

FailedTurnEnd(flush) ==
  /\ pc = "failedTurn"
  /\ pc' = "ended" /\ ctx' = ctx \o flush
  /\ UNCHANGED <<steer, follow, pend, aborted, batch, loop, spent, thrown, events>>

-----------------------------------------------------------------------------
(* The tool calls of one message.  A call waits, is ready (prepared, in a   *)
(* parallel batch), runs, and then is ok or failed: "end" and "stop" are ok  *)
(* and failed with "terminate", which asks the run to stop.                 *)

Calls     == DOMAIN batch.st
LastCall  == batch.next = Len(batch.st)
Executing == \E i \in Calls : batch.st[i] = "run"

\* The closures of a parallel batch start together; an aborted run starts none.
Launched(st) ==
  [i \in DOMAIN st |-> IF st[i] # "ready" THEN st[i] ELSE IF aborted THEN "fail" ELSE "run"]

\* prepareToolCall: the call is ready, or failed at once (unknown tool, bad
\* arguments, blocked, out of budget, aborted); who blocks it may terminate.
PrepareCall(how) ==
  /\ pc = "tools"
  /\ how # "fail" => ~aborted
  /\ LET ready == how = "ready"
         st == [batch.st EXCEPT ![batch.next] = IF ready /\ ~batch.par THEN "run" ELSE how]
     IN IF batch.par
        THEN /\ pc' = IF aborted \/ LastCall THEN "executing" ELSE "tools"
             /\ batch' = [batch EXCEPT !.next = @ + 1,
                            !.st = IF pc' = "executing" THEN Launched(st) ELSE st]
             /\ UNCHANGED ctx
        ELSE /\ pc' = IF ready THEN "executing" ELSE IF aborted \/ LastCall THEN "turnEnd" ELSE "tools"
             /\ batch' = [batch EXCEPT !.next = IF ready THEN @ ELSE @ + 1, !.st = st]
             /\ ctx' = IF ready THEN ctx ELSE Append(ctx, Result(batch.next, how))
  /\ UNCHANGED <<steer, follow, pend, aborted, loop, spent, thrown, events>>

\* The abort arrived while the events of the call before were handled.
CutBatch ==
  /\ pc = "tools" /\ aborted /\ batch.next > 1
  /\ batch.par => batch.st[batch.next - 1] \in {"fail", "stop"}
  /\ IF batch.par THEN pc' = "executing" /\ batch' = [batch EXCEPT !.st = Launched(@)]
                  ELSE pc' = "turnEnd" /\ UNCHANGED batch
  /\ UNCHANGED <<steer, follow, pend, ctx, aborted, loop, spent, thrown, events>>

\* executePreparedToolCall and finalizeExecutedToolCall.
FinishCall(i, how) ==
  /\ pc = "executing" /\ i \in Calls /\ batch.st[i] = "run"
  /\ IF batch.par
     THEN /\ batch' = [batch EXCEPT !.st[i] = how]
          /\ UNCHANGED <<pc, ctx>>
     ELSE /\ batch' = [batch EXCEPT !.st[i] = how, !.next = @ + 1]
          /\ pc' = IF aborted \/ LastCall THEN "turnEnd" ELSE "tools"
          /\ ctx' = Append(ctx, Result(i, how))
  /\ UNCHANGED <<steer, follow, pend, aborted, loop, spent, thrown, events>>

Settled(st) == {i \in DOMAIN st : st[i] \in Hows}

\* Promise.all of a parallel batch: its results in source order.
CollectResults ==
  /\ pc = "executing" /\ batch.par /\ ~Executing
  /\ pc' = "turnEnd"
  /\ ctx' = ctx \o [i \in 1 .. Cardinality(Settled(batch.st)) |-> Result(i, batch.st[i])]
  /\ UNCHANGED <<steer, follow, pend, aborted, batch, loop, spent, thrown, events>>

-----------------------------------------------------------------------------
(* The end of a turn.                                                       *)

LastAsst    == CHOOSE i \in DOMAIN ctx : /\ ctx[i].kind = "asst"
                                         /\ \A j \in DOMAIN ctx : j > i => ctx[j].kind # "asst"
TurnResults == {j \in LastAsst + 1 .. Len(ctx) : ctx[j].kind = "result"}
LastResults == {ctx[j].how : j \in TurnResults}
FailedNow   == Cardinality(TurnResults)

\* hasMoreToolCalls: there were calls, and not every result terminates the run.
MoreTools == ~ (LastResults \subseteq {"end", "stop"})

\* RepeatedToolErrors.record, which of the failures were identical left open.
Failing == IF LastResults \subseteq {"fail", "stop"}
             THEN LET n == loop.fails + FailedNow
                  IN IF n > RepeatLimit THEN RepeatLimit ELSE n
             ELSE 0

\* finishTurn: its handlers may ask for a continuation.
FinishTurn(continue) ==
  /\ pc = "turnEnd"
  /\ Happens(IF continue THEN 1 ELSE 0)
  /\ pc' = "polling"
  /\ loop' = [loop EXCEPT !.cont = continue, !.fails = Failing]
  /\ UNCHANGED <<steer, follow, pend, ctx, aborted, batch, spent, thrown>>

\* turn_end (which flushes custom messages), then: stop (for compaction), stop
\* on repeated failures, more work, follow-ups, the continuation, or the end.
TurnEnd(stop, repeated, flush) ==
  LET polled == Drained(steer)
      halted == /\ repeated /\ LastResults # {} /\ loop.fails = RepeatLimit
                /\ polled = <<>> /\ ~aborted
      onward == MoreTools \/ polled # <<>>
  IN /\ pc = "polling"
     /\ stop => MoreTools
     /\ ctx' = ctx \o flush \o (IF halted /\ ~stop THEN <<Asst(0, "error")>> ELSE <<>>)
     /\ batch' = NoBatch
     /\ loop' = [loop EXCEPT !.cont = FALSE]
     /\ IF stop \/ halted
        THEN /\ pc' = "ended"
             /\ UNCHANGED <<steer, follow, pend>>
        ELSE /\ steer' = Left(steer)
             /\ follow' = IF onward THEN follow ELSE Left(follow)
             /\ pend' = IF onward THEN polled ELSE Drained(follow)
             /\ pc' = IF onward \/ follow # <<>> \/ loop.cont THEN "between" ELSE "ended"
     /\ UNCHANGED <<aborted, spent, thrown, events>>

\* Something in the loop throws between tool executions: handleRunFailure
\* records a failed turn, and what the loop had drained is gone.
RunFails(s, flush) ==
  /\ pc \notin {"off", "ended", "broken"} /\ ~Executing
  /\ Happens(1) /\ thrown' = TRUE /\ UNCHANGED spent
  /\ s \in IF aborted THEN {"aborted"} ELSE {"error", "flaky"}
  /\ pc' = "ended"
  /\ ctx' = Append(ctx, Asst(0, s)) \o flush
  /\ pend' = <<>> /\ batch' = NoBatch
  /\ UNCHANGED <<steer, follow, aborted, loop>>

\* Recording that failure throws too (the session cannot append): prompt()
\* or continue() of the agent rejects.
RunBreaks ==
  /\ pc \notin {"off", "ended", "broken"} /\ ~Executing
  /\ Happens(1) /\ thrown' = TRUE /\ UNCHANGED spent
  /\ pc' = "broken"
  /\ ctx' = Append(ctx, Asst(0, IF aborted THEN "aborted" ELSE "error"))
  /\ pend' = <<>> /\ batch' = NoBatch
  /\ UNCHANGED <<steer, follow, aborted, loop>>
=============================================================================
