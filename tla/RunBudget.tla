----------------------------- MODULE RunBudget -----------------------------
(***************************************************************************)
(* Run budgets (packages/agent/src/run-budget.ts) as a tree of agents uses *)
(* them: each Agent has its own controller, per prompt or per session      *)
(* (agent.ts), composed with the one aggregate controller of the root tree *)
(* (createCompositeBudgetController); the loop (agent-loop.ts) asks it     *)
(* before each provider request and each tool call.                        *)
(*                                                                         *)
(* A limit is a number or NoLimit (absent from the policy).  A gate reads  *)
(* the clock once to decide and again to record; drift is the time that    *)
(* passes between the two readings.                                        *)
(***************************************************************************)
EXTENDS Naturals

CONSTANTS
  Agents,         \* the root session and its delegated children
  SessionScoped,  \* agents built with budgetScope "session" (the children)
  NoLimit,        \* a limit the policy leaves out
  Own,            \* the per-run policy every agent inherits
  Shared,         \* the aggregate policy of the tree
  MaxDrift,       \* bound: clock ticks inside one gate
  MaxClock,       \* bound: the clock
  MaxUse          \* bound: attempts of each kind a model follows

Limits == [requests : Nat \cup {NoLimit}, tools : Nat \cup {NoLimit},
           wall : Nat \cup {NoLimit}]

ASSUME BudgetAssumption ==
  /\ SessionScoped \subseteq Agents
  /\ NoLimit \notin Nat
  /\ Own \in Limits /\ Shared \in Limits
  /\ MaxDrift \in Nat /\ MaxClock \in Nat /\ MaxUse \in Nat

VARIABLES
  now,     \* the clock
  own,     \* each agent's own controller; on once it was created
  shared,  \* the aggregate controller
  phase,   \* where each agent's loop is
  sent,    \* provider requests the gates of the tree let through
  ran,     \* tool calls they accepted
  scope    \* the same for each agent since its logical run began

vars == <<now, own, shared, phase, sent, ran, scope>>

Controller == [on : BOOLEAN, requests : Nat, tools : Nat, maintenance : Nat,
               start : Nat]

TypeOK ==
  /\ now \in Nat
  /\ own \in [Agents -> Controller]
  /\ shared \in Controller
  /\ phase \in [Agents -> {"idle", "asking", "streaming", "batch"}]
  /\ sent \in Nat /\ ran \in Nat
  /\ scope \in [Agents -> [requests : Nat, tools : Nat]]

Fresh == [on |-> TRUE, requests |-> 0, tools |-> 0, maintenance |-> 0,
          start |-> now]
NoUse == [requests |-> 0, tools |-> 0]

Init ==
  /\ now = 0
  /\ own = [a \in Agents |-> [Fresh EXCEPT !.on = FALSE]]
  /\ shared = Fresh
  /\ phase = [a \in Agents |-> "idle"]
  /\ sent = 0 /\ ran = 0
  /\ scope = [a \in Agents |-> NoUse]

-----------------------------------------------------------------------------
(* One controller c under policy p, its clock read at time t. *)

Reached(n, max) == max # NoLimit /\ n >= max

Timed(c, p, t) == Reached(t - c.start, p.wall)

ExhaustedLimit(c, p, t) ==
  IF Reached(c.requests, p.requests) THEN "provider-requests"
  ELSE IF Reached(c.tools, p.tools) THEN "tool-calls"
  ELSE IF Timed(c, p, t) THEN "wall-time"
  ELSE "none"

\* tryBeginProviderRequest's own test.
MayRequest(c, p, t) == ExhaustedLimit(c, p, t) = "none"

\* toolCallAcceptable.
MayCall(c, p, t) == ~Reached(c.tools, p.tools) /\ ~Timed(c, p, t)

\* The composite's decision before recording: it sees only the first limit
\* exhaustedLimit names.
BlocksRequest(c, p, t) == ExhaustedLimit(c, p, t) # "none"
BlocksCall(c, p, t) == ExhaustedLimit(c, p, t) \in {"tool-calls", "wall-time"}

-----------------------------------------------------------------------------
(* Gates.  t is when the composite decides, t + drift when it records. *)

\* The composite allowed, the agent's own controller recorded, and the
\* aggregate recorded too.
GrantRequest(a, drift) ==
  LET t == now + drift IN
  /\ ~BlocksRequest(own[a], Own, now) /\ ~BlocksRequest(shared, Shared, now)
  /\ MayRequest(own[a], Own, t) /\ MayRequest(shared, Shared, t)
  /\ now' = t
  /\ own' = [own EXCEPT ![a].requests = @ + 1]
  /\ shared' = [shared EXCEPT !.requests = @ + 1]

\* Changed forms: the aggregate records before it is asked; a refusal takes
\* back an attempt that was never recorded.
RefuseRequestCounted(a, drift) ==
  /\ BlocksRequest(own[a], Own, now) \/ BlocksRequest(shared, Shared, now)
  /\ now' = now + drift
  /\ shared' = [shared EXCEPT !.requests = @ + 1]
  /\ UNCHANGED own
RefuseRequestTakenBack(a, drift) ==
  /\ BlocksRequest(own[a], Own, now) \/ BlocksRequest(shared, Shared, now)
  /\ now' = now + drift
  /\ own' = [own EXCEPT ![a].requests = @ - 1]
  /\ UNCHANGED shared

\* A gate refuses: one of them blocks, or the clock passed the wall limit
\* between deciding and recording; then the aggregate may refuse what the
\* agent's own controller already recorded.
RefuseRequest(a, drift) ==
  LET t == now + drift
      blocked == BlocksRequest(own[a], Own, now) \/ BlocksRequest(shared, Shared, now)
  IN /\ blocked \/ ~MayRequest(own[a], Own, t) \/ ~MayRequest(shared, Shared, t)
     /\ now' = t
     /\ own' = IF ~blocked /\ MayRequest(own[a], Own, t)
               THEN [own EXCEPT ![a].requests = @ + 1] ELSE own
     /\ UNCHANGED shared

\* A changed form: the aggregate is not asked.
GrantCallAlone(a, drift) ==
  LET t == now + drift IN
  /\ ~BlocksCall(own[a], Own, now)
  /\ MayCall(own[a], Own, t)
  /\ now' = t
  /\ own' = [own EXCEPT ![a].tools = @ + 1]
  /\ shared' = [shared EXCEPT !.tools = @ + 1]

GrantCall(a, drift) ==
  LET t == now + drift IN
  /\ ~BlocksCall(own[a], Own, now) /\ ~BlocksCall(shared, Shared, now)
  /\ MayCall(own[a], Own, t) /\ MayCall(shared, Shared, t)
  /\ now' = t
  /\ own' = [own EXCEPT ![a].tools = @ + 1]
  /\ shared' = [shared EXCEPT !.tools = @ + 1]

RefuseCall(a, drift) ==
  LET t == now + drift
      blocked == BlocksCall(own[a], Own, now) \/ BlocksCall(shared, Shared, now)
  IN /\ blocked \/ ~MayCall(own[a], Own, t) \/ ~MayCall(shared, Shared, t)
     /\ now' = t
     /\ own' = IF ~blocked /\ MayCall(own[a], Own, t)
               THEN [own EXCEPT ![a].tools = @ + 1] ELSE own
     /\ UNCHANGED shared

-----------------------------------------------------------------------------
(* The agent and its loop. *)

PromptAlwaysFresh(a) ==   \* a changed form: the session scope is ignored
  /\ phase[a] = "idle"
  /\ own' = [own EXCEPT ![a] = Fresh]
  /\ scope' = IF a \in SessionScoped THEN scope ELSE [scope EXCEPT ![a] = NoUse]
  /\ phase' = [phase EXCEPT ![a] = "asking"]
  /\ UNCHANGED <<now, shared, sent, ran>>

\* Agent.prompt: a session-scoped agent keeps its controller, any other one
\* starts a new logical run with a new controller.
Prompt(a) ==
  /\ phase[a] = "idle"
  /\ IF a \in SessionScoped
     THEN /\ own' = IF own[a].on THEN own ELSE [own EXCEPT ![a] = Fresh]
          /\ UNCHANGED scope
     ELSE /\ own' = [own EXCEPT ![a] = Fresh]
          /\ scope' = [scope EXCEPT ![a] = NoUse]
  /\ phase' = [phase EXCEPT ![a] = "asking"]
  /\ UNCHANGED <<now, shared, sent, ran>>

\* Agent.continue: the controller of the run in progress, if there is one.
Continue(a) ==
  /\ phase[a] = "idle"
  /\ own' = IF own[a].on THEN own ELSE [own EXCEPT ![a] = Fresh]
  /\ phase' = [phase EXCEPT ![a] = "asking"]
  /\ UNCHANGED <<now, shared, sent, ran, scope>>

\* The loop's gate before a provider request.
RequestSent(a, drift) ==
  /\ phase[a] = "asking"
  /\ sent < MaxUse /\ now + drift <= MaxClock
  /\ GrantRequest(a, drift)
  /\ sent' = sent + 1
  /\ scope' = [scope EXCEPT ![a].requests = @ + 1]
  /\ phase' = [phase EXCEPT ![a] = "streaming"]
  /\ UNCHANGED ran

\* Known exhaustion ends the run.
RequestRefused(a, drift) ==
  /\ phase[a] = "asking"
  /\ now + drift <= MaxClock
  /\ RefuseRequest(a, drift)
  /\ phase' = [phase EXCEPT ![a] = "idle"]
  /\ UNCHANGED <<sent, ran, scope>>

\* The response arrives, with tool calls or without.
Answered(a) ==
  /\ phase[a] = "streaming"
  /\ \E next \in {"batch", "asking", "idle"} : phase' = [phase EXCEPT ![a] = next]
  /\ UNCHANGED <<now, own, shared, sent, ran, scope>>

\* A prepared tool call of the batch is accepted and starts.
CallStarted(a, drift) ==
  /\ phase[a] = "batch"
  /\ ran < MaxUse /\ now + drift <= MaxClock
  /\ GrantCall(a, drift)
  /\ ran' = ran + 1
  /\ scope' = [scope EXCEPT ![a].tools = @ + 1]
  /\ UNCHANGED <<phase, sent>>

\* A call past the bound fails with a budget error; the batch goes on.
CallRefused(a, drift) ==
  /\ phase[a] = "batch"
  /\ own[a].tools < MaxUse /\ now + drift <= MaxClock
  /\ RefuseCall(a, drift)
  /\ UNCHANGED <<phase, sent, ran, scope>>

\* The batch is done, and the run with it or not.
BatchDone(a) ==
  /\ phase[a] = "batch"
  /\ \E next \in {"asking", "idle"} : phase' = [phase EXCEPT ![a] = next]
  /\ UNCHANGED <<now, own, shared, sent, ran, scope>>

\* recordMaintenanceRequest (a local compaction): observed, never gated.
Maintain(a) ==
  /\ own[a].on /\ shared.maintenance < MaxUse
  /\ own' = [own EXCEPT ![a].maintenance = @ + 1]
  /\ shared' = [shared EXCEPT !.maintenance = @ + 1]
  /\ UNCHANGED <<now, phase, sent, ran, scope>>

Tick ==
  /\ now < MaxClock
  /\ now' = now + 1
  /\ UNCHANGED <<own, shared, phase, sent, ran, scope>>

Next ==
  \/ \E a \in Agents :
        Prompt(a) \/ Continue(a) \/ Answered(a) \/ BatchDone(a) \/ Maintain(a)
  \/ \E a \in Agents, drift \in 0 .. MaxDrift :
        \/ RequestSent(a, drift) \/ RequestRefused(a, drift)
        \/ CallStarted(a, drift) \/ CallRefused(a, drift)
  \/ Tick

Spec == Init /\ [][Next]_vars

-----------------------------------------------------------------------------
(* Properties. *)

Within(n, max) == max # NoLimit => n <= max

\* "No descendant can reset the aggregate": whatever agents prompt, resume and
\* interleave, the tree sends and runs no more than the aggregate policy.
AggregateCeiling == Within(sent, Shared.requests) /\ Within(ran, Shared.tools)

\* One logical run, which for a session-scoped child spans every prompt and
\* resume, stays within its own policy.
RunCeiling ==
  \A a \in Agents : /\ Within(scope[a].requests, Own.requests)
                    /\ Within(scope[a].tools, Own.tools)

\* aggregateBudgetUsage() reports exactly what the tree did: the aggregate
\* never records an attempt that was refused.
AggregateIsExact == shared.requests = sent /\ shared.tools = ran
=============================================================================
