---------------------------- MODULE AgentSession ----------------------------
(***************************************************************************)
(* AgentSession (core/agent-session.ts) around one Agent: prompts, queued  *)
(* user input and its display, custom messages, retries, compaction,       *)
(* aborts, and the settlement of a run.                                    *)
(*                                                                         *)
(* Post-run handling and the finally block run between awaits that nothing *)
(* else can use (microtasks); "post" and "finish" are those stretches, and *)
(* no outside call happens in them.                                        *)
(***************************************************************************)
EXTENDS AgentLoop

CONSTANTS
  Users,       \* texts the user sends, each once
  Customs,     \* custom messages extensions send, each once
  None,        \* no message
  MaxRetries   \* settings.retry.maxRetries; 0 when retries are disabled

ASSUME SessionAssumption ==
  /\ MaxRetries \in Nat
  /\ Users \cap Customs = {} /\ None \notin Users \cup Customs

VARIABLES
  sc,        \* what the session does: see Control
  front,     \* the prompt() call in progress, and its text
  stopReq,   \* _agentRunAbortRequested
  mirror,    \* _steeringMessages and _followUpMessages, the texts shown
  customs,   \* _pendingCustomMessages
  nextTurn,  \* _pendingNextTurnMessages
  retry,     \* _retryAttempt
  tried,     \* _overflowRecoveryAttempted
  midRun,    \* _midRunCompactionNeeded
  last,      \* stop reason of _lastAssistantMessage, or "none"
  omitted,   \* positions of ctx a context edit omits from the model's view
  waiting,   \* a caller of abort() waits for the session to be idle
  deferred,  \* _deferredSettledActions
  sent,      \* messages sent so far
  returned,  \* texts clearQueue gave back to the editor
  dropped,   \* deferred prompts that were refused
  threw      \* agent.continue() threw

queueVars == <<mirror, customs, nextTurn, sent, returned>>
runVars   == <<retry, tried, midRun, last, omitted>>
callVars  == <<front, waiting, deferred, dropped>>
vars == <<loopVars, events, sc, stopReq, threw, queueVars, runVars, callVars>>

\* "run": the agent loop runs.  "post", "finish": see above.  "backoff",
\* "compact" (threshold), "compactRetry" (overflow), "compactMid": the awaits
\* of post-run handling.  "before", "settling": the agent_before_settle and
\* agent_settled handlers.
Control == {"idle", "run", "post", "backoff", "compact", "compactRetry", "compactMid",
            "before", "finish", "settling"}

Streaming == sc \notin {"idle", "settling"}     \* _isAgentRunActive
Quiet     == sc \notin {"post", "finish"}       \* someone else may run
HasSteering == steer # <<>>   \* mutant: follow-ups forgotten
HasQueued == steer # <<>> \/ follow # <<>>      \* agent.hasQueuedMessages()

Failed == {"error", "flaky", "overflow"}        \* stopReason "error"

NoFront == [at |-> "none", m |-> None]
Custom(m) == [kind |-> "custom", m |-> m]
Flushed == [i \in DOMAIN customs |-> Custom(customs[i])]

\* The role agent.continue() sees: that of the last message not omitted.
LastRole ==
  LET seen == DOMAIN ctx \ omitted
  IN IF seen = {} THEN "none" ELSE ctx[CHOOSE i \in seen : \A j \in seen : j <= i].kind

Init ==
  /\ LoopInit
  /\ sc = "idle" /\ front = NoFront /\ stopReq = FALSE
  /\ mirror = [steer |-> <<>>, follow |-> <<>>] /\ customs = <<>> /\ nextTurn = <<>>
  /\ retry = 0 /\ tried = FALSE /\ midRun = FALSE /\ last = "none" /\ omitted = {}
  /\ waiting = FALSE /\ deferred = <<>> /\ dropped = {} /\ threw = FALSE
  /\ sent = {} /\ returned = {}

-----------------------------------------------------------------------------
(* Calls from outside: the editor, RPC clients, extensions.                 *)

New(m) == Quiet /\ m \notin sent /\ sent' = sent \cup {m} /\ Happens(1)

\* prompt() on a session with no prompt in progress.
Prompt(u) ==
  /\ New(u) /\ sc = "idle" /\ front = NoFront
  /\ front' = [at |-> "preflight", m |-> u]
  /\ UNCHANGED <<loopVars, sc, stopReq, threw, mirror, customs, nextTurn, returned, runVars,
                 waiting, deferred, dropped>>

\* prompt() from an agent_settled handler (one at a time: the bound).
PromptWhileSettling(u) ==
  /\ New(u) /\ sc = "settling" /\ deferred = <<>>
  /\ deferred' = <<u>>
  /\ UNCHANGED <<loopVars, sc, stopReq, threw, mirror, customs, nextTurn, returned, runVars,
                 front, waiting, dropped>>

\* No model, no credentials, an input handler that takes it: no run starts.
PreflightRefused ==
  /\ front.at = "preflight" /\ sc = "idle"
  /\ front' = NoFront /\ waiting' = FALSE
  /\ returned' = returned \cup {front.m}
  /\ UNCHANGED <<events, loopVars, sc, stopReq, threw, mirror, customs, nextTurn, sent, runVars,
                 deferred, dropped>>

\* steer(), followUp(), and prompt() with a streamingBehavior while streaming.
QueueSteer(u) ==
  /\ New(u)
  /\ Steer(Queued(u, "steer"))
  /\ mirror' = [mirror EXCEPT !.steer = Append(@, u)]
  /\ UNCHANGED <<sc, stopReq, threw, customs, nextTurn, returned, runVars, callVars>>

QueueFollowUp(u) ==
  /\ New(u)
  /\ FollowUp(Queued(u, "follow"))
  /\ mirror' = [mirror EXCEPT !.follow = Append(@, u)]
  /\ UNCHANGED <<sc, stopReq, threw, customs, nextTurn, returned, runVars, callVars>>

\* sendCustomMessage, by its options and by what the session does.
CustomNextTurn(c) ==
  /\ New(c)
  /\ nextTurn' = Append(nextTurn, Queued(c, "prompt"))
  /\ UNCHANGED <<loopVars, sc, stopReq, threw, mirror, customs, returned, runVars, callVars>>

CustomQueued(c) ==
  /\ New(c) /\ Streaming
  /\ Steer(Queued(c, "steer")) \/ FollowUp(Queued(c, "follow"))
  /\ UNCHANGED <<sc, stopReq, threw, mirror, customs, nextTurn, returned, runVars, callVars>>

CustomContextAtOnce(c) ==   \* mutant: recorded amid a turn
  /\ New(c)
  /\ Record(<<Custom(c)>>)
  /\ UNCHANGED <<customs, sc, stopReq, threw, mirror, nextTurn, returned, runVars, callVars>>

CustomContext(c) ==
  /\ New(c)
  /\ IF Streaming THEN customs' = Append(customs, c) /\ UNCHANGED loopVars
                  ELSE Record(<<Custom(c)>>) /\ UNCHANGED customs
  /\ UNCHANGED <<sc, stopReq, threw, mirror, nextTurn, returned, runVars, callVars>>

\* _runAgentPrompt, up to the first event of the run.
BeginRun(prompts) ==
  /\ StartPrompt(prompts)
  /\ sc' = "run" /\ stopReq' = FALSE

\* triggerTurn on an idle session.  Not while a prompt is in its preflight:
\* there the code starts two runs at once (README, "Environment").
CustomTriggers(c) ==
  /\ New(c) /\ sc = "idle" /\ front.at # "preflight"
  /\ BeginRun(<<Queued(c, "prompt")>>)
  /\ UNCHANGED <<threw, mirror, customs, nextTurn, returned, runVars, callVars>>

CustomTriggersLater(c) ==
  /\ New(c) /\ sc = "settling" /\ deferred = <<>>
  /\ deferred' = <<c>>
  /\ UNCHANGED <<loopVars, sc, stopReq, threw, mirror, customs, nextTurn, returned, runVars,
                 front, waiting, dropped>>

\* clearQueue: the texts shown go back to the editor, both queues are emptied.
ClearQueue ==
  /\ Quiet /\ (HasQueued \/ mirror.steer # <<>> \/ mirror.follow # <<>>)
  /\ ClearQueues
  /\ returned' = returned \cup {mirror.steer[i] : i \in DOMAIN mirror.steer}
                          \cup {mirror.follow[i] : i \in DOMAIN mirror.follow}
  /\ mirror' = [steer |-> <<>>, follow |-> <<>>]
  /\ UNCHANGED <<events, sc, stopReq, threw, customs, nextTurn, sent, runVars, callVars>>

\* abort(): what it sets.  A backoff, a compaction and the before-settle
\* handlers look at stopReq when they end.
Abort ==
  /\ Quiet /\ Streaming /\ ~stopReq    \* a second call changes nothing
  /\ stopReq' = TRUE /\ waiting' = TRUE
  /\ AbortRun /\ Happens(1)
  /\ UNCHANGED <<sc, threw, queueVars, runVars, front, deferred, dropped>>

-----------------------------------------------------------------------------
(* The run, seen through _handleAgentEvent.                                 *)

Hits(shown, texts) == {i \in DOMAIN shown : shown[i] \in texts}

\* indexOf and splice: the first of the texts shown is taken off.
Unlisted(shown, texts) ==
  IF Hits(shown, texts) = {} THEN shown
  ELSE LET k == CHOOSE i \in Hits(shown, texts) : \A j \in Hits(shown, texts) : i <= j
       IN [j \in 1 .. Len(shown) - 1 |-> shown[IF j < k THEN j ELSE j + 1]]

\* Mutant: only the steering display is kept up to date.
HeardSteering ==
  LET new   == {i \in DOMAIN ctx' : i > Len(ctx)}
      users == {ctx'[i].m : i \in {j \in new : ctx'[j].kind = "message"}} \cap Users
      assts == {i \in new : ctx'[i].kind = "asst"}
      stop  == IF assts = {} THEN last ELSE ctx'[CHOOSE i \in assts : TRUE].stop
  IN /\ mirror' = [mirror EXCEPT !.steer = Unlisted(@, users)]
     /\ last' = stop
     /\ tried' = (tried /\ users = {} /\ (assts = {} \/ stop \in Failed \cup {"length"}))
     /\ retry' = IF assts # {} /\ stop \notin Failed THEN 0 ELSE retry

\* message_start of a user text takes it off the display, where the steering
\* texts come first; message_end of an assistant message notes it.
Heard ==
  LET new   == {i \in DOMAIN ctx' : i > Len(ctx)}
      users == {ctx'[i].m : i \in {j \in new : ctx'[j].kind = "message"}} \cap Users
      assts == {i \in new : ctx'[i].kind = "asst"}
      stop  == IF assts = {} THEN last ELSE ctx'[CHOOSE i \in assts : TRUE].stop
  IN /\ mirror' = IF Hits(mirror.steer, users) # {}
                     THEN [mirror EXCEPT !.steer = Unlisted(@, users)]
                     ELSE [mirror EXCEPT !.follow = Unlisted(@, users)]
     /\ last' = stop
     /\ tried' = (tried /\ users = {} /\ (assts = {} \/ stop \in Failed \cup {"length"}))
     /\ retry' = IF assts # {} /\ stop \notin Failed THEN 0 ELSE retry

\* preflight done: the text, then what waited for the next turn.
StartRun ==
  /\ front.at = "preflight" /\ sc = "idle"
  /\ BeginRun(<<Queued(front.m, "prompt")>> \o nextTurn)
  /\ front' = [at |-> "run", m |-> None] /\ nextTurn' = <<>>
  /\ UNCHANGED <<events, threw, mirror, customs, sent, returned, runVars, waiting, deferred, dropped>>

RunStep ==
  /\ sc = "run"
  /\ \/ Deliver
     \/ FirstPoll
     \/ Prepared
     \/ OutOfBudget
     \/ \E n \in 0 .. MaxCalls, s \in {"stop", "length"}, par \in BOOLEAN : Answer(n, s, par)
     \/ \E s \in Failed \cup {"aborted"} : Refuse(s)
     \/ \E how \in {"ready", "fail", "stop"} : PrepareCall(how)
     \/ CutBatch
     \/ \E i \in Calls, how \in Hows : FinishCall(i, how)
     \/ CollectResults
     \/ FinishTurn(FALSE)
     \/ (LastRole # "asst" \/ customs # <<>> \/ HasQueued) /\ FinishTurn(TRUE)
  /\ Heard
  /\ UNCHANGED <<sc, stopReq, threw, customs, nextTurn, sent, returned, midRun, omitted, callVars>>

\* turn_end: custom messages that waited for it are recorded; an over-threshold
\* context stops the run between two turns (_shouldStopForMidRunCompaction).
EndTurn ==
  /\ sc = "run"
  /\ \/ \E stop, repeated \in BOOLEAN :
          TurnEnd(stop, repeated, Flushed) /\ midRun' = (midRun \/ stop)
     \/ FailedTurnEnd(Flushed) /\ UNCHANGED midRun
     \/ \E s \in {"aborted", "error", "flaky"} : RunFails(s, Flushed) /\ UNCHANGED midRun
  /\ customs' = <<>>
  /\ Heard
  /\ UNCHANGED <<sc, stopReq, threw, nextTurn, sent, returned, omitted, callVars>>

BreakRun ==
  /\ sc = "run" /\ RunBreaks
  /\ UNCHANGED <<sc, stopReq, threw, queueVars, runVars, callVars>>

\* agent.prompt() or agent.continue() is over.
RunEnds ==
  /\ sc = "run" /\ EndRun
  /\ sc' = IF pc = "broken" \/ stopReq THEN "finish" ELSE "post"
  /\ UNCHANGED <<events, stopReq, threw, queueVars, runVars, callVars>>

-----------------------------------------------------------------------------
(* After the run: _handlePostAgentRun and the waits it may enter.           *)

\* agent.continue(), which throws on a context it cannot continue from.
GoOn ==
  IF CanContinue(LastRole)
    THEN Continue(LastRole) /\ sc' = "run" /\ UNCHANGED <<threw, ctx>>
    ELSE sc' = "finish" /\ threw' = TRUE /\ UNCHANGED loopVars

Rest == sc' = "before" /\ UNCHANGED <<loopVars, threw>>
Wait(c) == sc' = c /\ UNCHANGED <<loopVars, threw>>
GoOnIfQueued == IF HasQueued THEN GoOn ELSE Rest

\* A run stopped for compaction, that message not consumed.
PostMidRun ==
  /\ sc = "post" /\ midRun
  /\ midRun' = FALSE
  /\ Wait("compactMid")
  /\ UNCHANGED <<events, stopReq, queueVars, retry, tried, last, omitted, callVars>>

\* Mutant: one retry too many.
PostRetryOnceMore ==
  /\ sc = "post" /\ ~midRun /\ last = "flaky" /\ retry <= MaxRetries
  /\ last' = "none" /\ retry' = retry + 1
  /\ omitted' = omitted \cup {LastAsst}
  /\ Wait("backoff")
  /\ UNCHANGED <<events, stopReq, queueVars, tried, midRun, callVars>>

\* _prepareRetry: the failed attempt is omitted, then the backoff.
PostRetry ==
  /\ sc = "post" /\ ~midRun /\ last = "flaky" /\ retry < MaxRetries
  /\ last' = "none" /\ retry' = retry + 1
  /\ omitted' = omitted \cup {LastAsst}
  /\ Wait("backoff")
  /\ UNCHANGED <<events, stopReq, queueVars, tried, midRun, callVars>>

\* A failure that is not retried ends the retries; then _checkCompaction:
\* compact and retry once (overflow, a recoverable length stop), compact (over
\* the threshold), or nothing (below it, disabled, another model, no answer).
RecoverableAgain == last \in {"overflow", "length"}   \* mutant: the attempt is not remembered
Recoverable == last \in {"overflow", "length"} /\ ~tried

PostCompact ==
  /\ sc = "post" /\ ~midRun /\ ~(last = "flaky" /\ retry < MaxRetries)
  /\ last' = "none"
  /\ retry' = IF last \in Failed THEN 0 ELSE retry
  /\ \/ /\ Recoverable
        /\ tried' = TRUE
        /\ omitted' = omitted \cup {i \in LastAsst .. Len(ctx) : ctx[i].kind \in {"asst", "result"}}
        /\ Wait("compactRetry")
     \/ last \notin {"overflow", "none"} /\ Wait("compact") /\ UNCHANGED <<tried, omitted>>
     \/ GoOnIfQueued /\ UNCHANGED <<tried, omitted>>
  /\ UNCHANGED <<events, stopReq, queueVars, midRun, callVars>>

\* The backoff slept through, or cancelled by abort() or abortRetry().
BackoffEnds(slept) ==
  /\ sc = "backoff" /\ (slept => ~stopReq)
  /\ IF slept THEN GoOn /\ UNCHANGED retry
     ELSE retry' = 0 /\ IF stopReq THEN Wait("finish") ELSE GoOnIfQueued
  /\ UNCHANGED <<events, stopReq, queueVars, tried, midRun, last, omitted, callVars>>

\* Mutant: a compaction that ends under a stop request goes on.
CompactionEndsUnheeding(ok) ==
  /\ sc \in {"compact", "compactRetry", "compactMid"}
  /\ IF ok /\ sc # "compact" THEN GoOn
     ELSE IF sc = "compactMid" THEN Rest ELSE GoOnIfQueued
  /\ UNCHANGED <<events, stopReq, queueVars, runVars, callVars>>

\* _runAutoCompaction succeeded, or found nothing, failed or was cancelled.
CompactionEnds(ok) ==
  /\ sc \in {"compact", "compactRetry", "compactMid"}
  /\ IF stopReq THEN Wait("finish")
     ELSE IF ok /\ sc # "compact" THEN GoOn
     ELSE IF sc = "compactMid" THEN Rest ELSE GoOnIfQueued
  /\ UNCHANGED <<events, stopReq, queueVars, runVars, callVars>>

\* _runBeforeSettleBoundary: with handlers, custom messages are recorded first
\* and a handler may ask for a continuation the context allows.
BeforeSettle(handlers, asked) ==
  LET flush == IF handlers THEN Flushed ELSE <<>>
      role  == IF flush # <<>> THEN "custom" ELSE LastRole
      goOn  == ~stopReq /\ (HasQueued \/ (asked /\ role \notin {"asst", "none"}))
  IN /\ sc = "before" /\ (asked => handlers) /\ Happens(IF asked THEN 1 ELSE 0)
     /\ customs' = IF handlers THEN <<>> ELSE customs
     /\ IF goOn /\ CanContinue(role)
          THEN Continue(role) /\ ctx' = ctx \o flush /\ sc' = "run" /\ UNCHANGED threw
          ELSE Record(flush) /\ sc' = "finish" /\ threw' = (threw \/ (goOn /\ ~handlers))
     /\ UNCHANGED <<stopReq, mirror, nextTurn, sent, returned, runVars, callVars>>

\* The finally of _runAgentPrompt, up to the agent_settled handlers.
Settle ==
  /\ sc = "finish"
  /\ retry' = IF stopReq THEN 0 ELSE retry
  /\ Record(Flushed) /\ customs' = <<>>
  /\ sc' = "settling"
  /\ UNCHANGED <<events, stopReq, threw, mirror, nextTurn, sent, returned, tried, midRun, last, omitted,
                 callVars>>

\* Mutant: the waiters of abort() are not woken.
SettledSilently ==
  /\ sc = "settling" /\ deferred = <<>>
  /\ sc' = "idle"
  /\ front' = IF front.at = "run" THEN [front EXCEPT !.at = "after"] ELSE front
  /\ UNCHANGED <<events, loopVars, stopReq, threw, queueVars, runVars, waiting, deferred, dropped>>

\* The handlers are done and deferred nothing.
SettledEnds ==
  /\ sc = "settling" /\ deferred = <<>>
  /\ sc' = "idle" /\ waiting' = FALSE
  /\ front' = IF front.at = "run" THEN [front EXCEPT !.at = "after"] ELSE front
  /\ UNCHANGED <<events, loopVars, stopReq, threw, queueVars, runVars, deferred, dropped>>

\* They deferred work, which starts inside the call that settles: a custom
\* message at once, a prompt only if no prompt() is in progress.  The settling
\* prompt() still is, so its own deferred prompts are refused.
DeferredStarts ==
  LET m == Head(deferred)
  IN /\ sc = "settling" /\ deferred # <<>>
     /\ deferred' = <<>>
     /\ IF m \in Customs
          THEN BeginRun(<<Queued(m, "prompt")>>) /\ UNCHANGED <<front, dropped, waiting>>
          ELSE /\ sc' = "idle"
               /\ IF front = NoFront
                    THEN front' = [at |-> "preflight", m |-> m] /\ UNCHANGED <<dropped, waiting>>
                    ELSE front' = NoFront /\ dropped' = dropped \cup {m} /\ waiting' = FALSE
               /\ UNCHANGED <<loopVars, stopReq>>
     /\ UNCHANGED <<events, threw, queueVars, runVars>>

\* The verification boundary of prompt(), and its return.
PromptReturns ==
  /\ front.at = "after"
  /\ front' = NoFront
  /\ UNCHANGED <<events, loopVars, sc, stopReq, threw, queueVars, runVars, waiting, deferred, dropped>>

-----------------------------------------------------------------------------
Outside ==
  \/ \E u \in Users : Prompt(u) \/ PromptWhileSettling(u) \/ QueueSteer(u) \/ QueueFollowUp(u)
  \/ \E c \in Customs : \/ CustomNextTurn(c) \/ CustomQueued(c) \/ CustomContext(c)
                        \/ CustomTriggers(c) \/ CustomTriggersLater(c)
  \/ ClearQueue
  \/ Abort

Program ==
  \/ StartRun \/ PreflightRefused
  \/ RunStep \/ EndTurn \/ BreakRun \/ RunEnds
  \/ PostMidRun \/ PostRetry \/ PostCompact
  \/ \E slept \in BOOLEAN : BackoffEnds(slept)
  \/ \E ok \in BOOLEAN : CompactionEnds(ok)
  \/ \E handlers, asked \in BOOLEAN : BeforeSettle(handlers, asked)
  \/ Settle \/ SettledEnds \/ DeferredStarts \/ PromptReturns

Next == Outside \/ Program
Spec == Init /\ [][Next]_vars

\* Providers answer, tools and handlers return, timers fire.
FairSpec == Spec /\ WF_vars(Program)

-----------------------------------------------------------------------------
(* Properties.                                                              *)

Messages == Users \cup Customs
QueuedMsg(vias) == [m : Messages, via : vias]
Stops == {"stop", "length", "aborted"} \cup Failed
Entry == [kind : {"message"}, m : Messages, via : {"prompt", "steer", "follow"}]
         \cup [kind : {"custom"}, m : Customs]
         \cup [kind : {"asst"}, calls : 0 .. MaxCalls, stop : Stops]
         \cup [kind : {"result"}, call : 1 .. MaxCalls, how : Hows]

\* Every variable keeps its shape; the loop runs exactly while the session says so.
TypeOK ==
  /\ pc \in {"off", "prompting", "injecting", "tools", "executing", "turnEnd", "polling",
             "between", "failedTurn", "ended", "broken"}
  /\ steer \in Seq(QueuedMsg({"steer"})) /\ follow \in Seq(QueuedMsg({"follow"}))
  /\ pend \in Seq(QueuedMsg({"prompt", "steer", "follow"}))
  /\ ctx \in Seq(Entry) /\ omitted \subseteq DOMAIN ctx
  /\ batch \in [par : BOOLEAN, next : 1 .. MaxCalls + 1,
                st : Seq({"wait", "ready", "run"} \cup Hows)]
  /\ loop \in [skip : BOOLEAN, cont : BOOLEAN, fails : 0 .. RepeatLimit]
  /\ events \in 0 .. MaxEvents /\ retry \in 0 .. MaxRetries
  /\ sc \in Control /\ (pc # "off") = (sc = "run") /\ (aborted => sc = "run")
  /\ front \in [at : {"none", "preflight", "run", "after"}, m : Users \cup {None}]
  /\ mirror \in [steer : Seq(Users), follow : Seq(Users)]
  /\ customs \in Seq(Customs) /\ nextTurn \in Seq(QueuedMsg({"prompt"}))
  /\ last \in Stops \cup {"none"} /\ deferred \in Seq(Messages)
  /\ sent \subseteq Messages /\ returned \subseteq Users /\ dropped \subseteq Users
  /\ {stopReq, tried, midRun, waiting, threw, thrown, spent} \subseteq BOOLEAN

IsCall(i)    == ctx[i].kind = "asst" /\ ctx[i].calls > 0
Answers(i)   == {j \in DOMAIN ctx : /\ j > i
                                     /\ \A k \in i + 1 .. j : ctx[k].kind = "result"}
PromptAfter(i) == \E j \in DOMAIN ctx : j > i /\ ctx[j].kind = "message" /\ ctx[j].via = "prompt"

Answered(i)  == \A n \in 1 .. ctx[i].calls : i + n \in Answers(i)

\* What providers require of a transcript: the results of a message's calls
\* come right after it, one each, in order, whatever extensions record
\* meanwhile; and a run asks for another answer only when all of its calls
\* have one, unless an exception cut a turn.  (sendCustomMessage defers, executeToolCalls*, turn_end.)
TranscriptIsValid ==
  /\ \A i \in DOMAIN ctx : ctx[i].kind = "result" =>
       LET a == i - ctx[i].call
       IN a \in DOMAIN ctx /\ IsCall(a) /\ i \in Answers(a) /\ ctx[i].call <= ctx[a].calls
  /\ Requesting /\ ~aborted /\ ~thrown =>
       \A i \in DOMAIN ctx : IsCall(i) /\ ~PromptAfter(i) => Answered(i)

\* Where message m is: the queue and the position in it.
Places(m) ==
  LET At(name, queue) == {name} \X {i \in DOMAIN queue : queue[i].m = m}
  IN At("steer", steer) \cup At("follow", follow) \cup At("pend", pend) \cup At("next", nextTurn)
     \cup {"customs"} \X {i \in DOMAIN customs : customs[i] = m}
     \cup {"deferred"} \X {i \in DOMAIN deferred : deferred[i] = m}
     \cup {"ctx"} \X {i \in DOMAIN ctx : ctx[i].kind \in {"message", "custom"} /\ ctx[i].m = m}
     \cup {"front"} \X {i \in {0} : front.m = m}

\* Every message sent is in one place: waiting in one queue, drained, or in the
\* transcript once.  It is in none only if clearQueue took it, its prompt was
\* refused, or an exception ended the run that had drained it.
InOnePlace ==
  \A m \in sent :
    /\ \A p, q \in Places(m) : p = q
    /\ Places(m) = {} => m \in returned \cup dropped \cup Customs \/ thrown

Drawn(via) == {pend[i].m : i \in {j \in DOMAIN pend : pend[j].via = via}}

\* The texts of a queue are shown in its order, after those a poll has drained
\* and not yet delivered.
ShowsQueue(shown, queue, via) ==
  /\ \A k \in DOMAIN queue : queue[k].m \in Users => \E i \in DOMAIN shown : shown[i] = queue[k].m
  /\ \A i, j \in DOMAIN shown : \A k \in DOMAIN queue :
       i < j /\ shown[i] = queue[k].m => \E l \in DOMAIN queue : l > k /\ shown[j] = queue[l].m
  /\ ~thrown =>
       \A i \in DOMAIN shown :
         shown[i] \in Drawn(via) \/ \E k \in DOMAIN queue : shown[i] = queue[k].m

\* Nothing queued is hidden, nothing delivered is still shown, whatever the
\* order in which the session and the agent change their lists
\* (_steeringMessages and _followUpMessages against the agent's queues).
DisplayIsTrue ==
  ShowsQueue(mirror.steer, steer, "steer") /\ ShowsQueue(mirror.follow, follow, "follow")

\* One at a time, a request shows the model at most one more queued message of
\* a kind than the request before it in its run, whichever of the polls (first,
\* after the turn, after the preparation, the drain of continue()) took it;
\* agent-loop.ts: "would deliver two messages in this turn".
OneQueuedPerTurn ==
  OneAtATime /\ Requesting /\ ~thrown =>
    \A i, j \in DOMAIN ctx :
      (/\ i < j /\ ctx[i].kind = "message" /\ ctx[j].kind = "message"
       /\ ctx[i].via = ctx[j].via /\ ctx[i].via # "prompt" /\ ~PromptAfter(i))
        => \E k \in i .. j : ctx[k].kind = "asst"

Truncated(i) == i \in omitted /\ ctx[i].kind = "asst" /\ ctx[i].stop \in {"overflow", "length"}

\* The user spoke, or an answer succeeded.
Resets(k) ==
  \/ ctx[k].kind = "message" /\ ctx[k].m \in Users
  \/ ctx[k].kind = "asst" /\ ctx[k].stop \notin Failed \cup {"length"}

\* An overflow or a cut-off answer is compacted away and retried once: a second
\* one is given up unless the user spoke or an answer succeeded since.
OverflowRetriedOnce ==
  \A i, j \in DOMAIN ctx : i < j /\ Truncated(i) /\ Truncated(j) =>
    \E k \in DOMAIN ctx : k > i /\ Resets(k)

\* No request is sent on a context that ends with the model's own answer,
\* whether a prompt, a queue, a retry, a compaction or a handler started it.
\* (Clearing the queue that justified a handler's continuation breaks this.)
RequestHasInput ==
  Requesting /\ ~aborted /\ (\A m \in sent : Places(m) # {}) => LastRole # "asst"

\* abort() holds until the next prompt or trigger: no continuation, retry or
\* post-compaction run under a stop request escapes it with a fresh signal.
AbortHolds == sc = "run" /\ stopReq => aborted

\* What the user queues while the session streams is delivered, unless it is
\* taken back, the run is aborted or out of budget, or an exception ends it.
QueuedIsDelivered ==
  \A m \in Users :
    (m \in {x.m : x \in {steer[i] : i \in DOMAIN steer} \cup {follow[i] : i \in DOMAIN follow}}
     /\ Streaming)
      ~> (stopReq \/ spent \/ thrown \/ m \in returned
          \/ \E i \in DOMAIN ctx : ctx[i].kind = "message" /\ ctx[i].m = m)

\* Retries, recoveries, compactions, queues and handlers keep a session busy
\* only so long: it goes idle and abort() returns, from wherever it was called;
\* a stop request does it even when the budget is exhausted.
RunSettles ==
  Streaming \/ waiting ~> (sc = "idle" /\ ~waiting) \/ (spent /\ ~stopReq)

\* An exhausted budget ends the run, whatever is still queued: "the low-level
\* loop drains both queues before agent_end" (_handlePostAgentRun).
BudgetEndsRun == sc = "run" /\ spent ~> sc = "idle"

\* agent.continue() has input whenever the session calls it, unless an
\* exception or clearQueue took the message that was its input.
ContinueIsPossible == threw => thrown \/ \E m \in sent : Places(m) = {}
=============================================================================
