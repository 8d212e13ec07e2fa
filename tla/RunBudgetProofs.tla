-------------------------- MODULE RunBudgetProofs --------------------------
(***************************************************************************)
(* Theorems about RunBudget, for every tree of agents and every policy.    *)
(* The bounds MaxClock, MaxDrift and MaxUse only occur in guards and no    *)
(* step below uses them.                                                   *)
(***************************************************************************)
EXTENDS RunBudget, TLAPS

\* The aggregate stays within its own policy.
SharedWithin ==
  /\ Within(shared.requests, Shared.requests)
  /\ Within(shared.tools, Shared.tools)

\* An agent's own controller knows at least what its logical run used, never
\* went past its policy, and exists before the run uses anything.
OwnCovers ==
  \A a \in Agents :
    /\ scope[a].requests <= own[a].requests /\ scope[a].tools <= own[a].tools
    /\ Within(own[a].requests, Own.requests)
    /\ Within(own[a].tools, Own.tools)
    /\ own[a].on \/ (scope[a] = NoUse /\ phase[a] = "idle")

BudgetInv == TypeOK /\ AggregateIsExact /\ SharedWithin /\ OwnCovers

-----------------------------------------------------------------------------
(* What a gate's test says of the counter it guards. *)

\* A counter whose limit is not reached has room for one more.
LEMMA RoomForOne ==
  ASSUME NEW n \in Nat, NEW max \in Nat \cup {NoLimit}, ~Reached(n, max)
  PROVE  Within(n + 1, max)
  BY BudgetAssumption DEF Reached, Within

\* tryBeginProviderRequest records only below maxProviderRequests.
LEMMA RequestHasRoom ==
  ASSUME NEW c \in Controller, NEW p \in Limits, NEW t \in Nat,
         MayRequest(c, p, t)
  PROVE  Within(c.requests + 1, p.requests)
<1>1. ~Reached(c.requests, p.requests)
  BY DEF MayRequest, ExhaustedLimit
<1> QED
  BY <1>1, RoomForOne DEF Controller, Limits

\* tryAcceptToolCall records only below maxToolCalls.
LEMMA CallHasRoom ==
  ASSUME NEW c \in Controller, NEW p \in Limits, NEW t \in Nat,
         MayCall(c, p, t)
  PROVE  Within(c.tools + 1, p.tools)
<1>1. ~Reached(c.tools, p.tools)
  BY DEF MayCall
<1> QED
  BY <1>1, RoomForOne DEF Controller, Limits

\* A policy always has room for nothing.
LEMMA NothingFits == ASSUME NEW max \in Nat \cup {NoLimit} PROVE Within(0, max)
  BY BudgetAssumption DEF Within

\* A controller just created, and a logical run that used nothing.
LEMMA FreshType ==
  TypeOK => Fresh \in Controller /\ NoUse \in [requests : Nat, tools : Nat]
  BY DEF TypeOK, Fresh, NoUse, Controller

\* A logical run that starts over is covered by its new controller.
LEMMA FreshCovers ==
  /\ Fresh.requests = 0 /\ Fresh.tools = 0 /\ Fresh.on
  /\ NoUse.requests = 0 /\ NoUse.tools = 0
  /\ Within(0, Own.requests) /\ Within(0, Own.tools)
  /\ Within(0, Shared.requests) /\ Within(0, Shared.tools)
  BY BudgetAssumption, NothingFits DEF Fresh, NoUse, Limits

-----------------------------------------------------------------------------
(* The invariant. *)

LEMMA BudgetInit == Init => BudgetInv
<1> SUFFICES ASSUME Init PROVE BudgetInv
  OBVIOUS
<1>1. TypeOK
  BY DEF Init, TypeOK, Fresh, NoUse, Controller
<1>2. AggregateIsExact
  BY DEF Init, AggregateIsExact, Fresh
<1>3. SharedWithin
  BY FreshCovers DEF Init, SharedWithin
<1>4. OwnCovers
  <2> SUFFICES ASSUME NEW a \in Agents
               PROVE  /\ scope[a].requests <= own[a].requests
                      /\ scope[a].tools <= own[a].tools
                      /\ Within(own[a].requests, Own.requests)
                      /\ Within(own[a].tools, Own.tools)
                      /\ scope[a] = NoUse /\ phase[a] = "idle"
    BY DEF OwnCovers
  <2>1. own[a].requests = 0 /\ own[a].tools = 0
    BY DEF Init, Fresh
  <2>2. scope[a] = NoUse /\ phase[a] = "idle"
    BY DEF Init
  <2> QED BY <2>1, <2>2, FreshCovers
<1> QED
  BY <1>1, <1>2, <1>3, <1>4 DEF BudgetInv

LEMMA BudgetStep == BudgetInv /\ [Next]_vars => BudgetInv'
<1> SUFFICES ASSUME BudgetInv, [Next]_vars PROVE BudgetInv'
  OBVIOUS
<1> USE DEF BudgetInv
<1>1. ASSUME NEW a \in Agents, Prompt(a) PROVE BudgetInv'
  <2>1. TypeOK'
    BY <1>1, FreshType DEF Prompt, TypeOK
  <2>2. AggregateIsExact' /\ SharedWithin'
    BY <1>1 DEF Prompt, AggregateIsExact, SharedWithin
  <2>3. OwnCovers'
    <3> SUFFICES ASSUME NEW d \in Agents PROVE OwnCovers!(d)'
      BY DEF OwnCovers
    <3>1. CASE d = a /\ (a \notin SessionScoped \/ ~own[a].on)
      BY <1>1, <3>1, FreshCovers DEF Prompt, OwnCovers, TypeOK
    <3>2. CASE d # a \/ (a \in SessionScoped /\ own[a].on)
      BY <1>1, <3>2 DEF Prompt, OwnCovers, TypeOK
    <3> QED BY <3>1, <3>2
  <2> QED BY <2>1, <2>2, <2>3
<1>2. ASSUME NEW a \in Agents, Continue(a) PROVE BudgetInv'
  <2>1. TypeOK'
    BY <1>2, FreshType DEF Continue, TypeOK
  <2>2. AggregateIsExact' /\ SharedWithin'
    BY <1>2 DEF Continue, AggregateIsExact, SharedWithin
  <2>3. OwnCovers'
    <3> SUFFICES ASSUME NEW d \in Agents PROVE OwnCovers!(d)'
      BY DEF OwnCovers
    <3>1. CASE d = a /\ ~own[a].on
      BY <1>2, <3>1, FreshCovers DEF Continue, OwnCovers, TypeOK
    <3>2. CASE d # a \/ own[a].on
      BY <1>2, <3>2 DEF Continue, OwnCovers, TypeOK
    <3> QED BY <3>1, <3>2
  <2> QED BY <2>1, <2>2, <2>3
<1>3. ASSUME NEW a \in Agents, Answered(a) \/ BatchDone(a) PROVE BudgetInv'
  <2>1. TypeOK'
    BY <1>3 DEF Answered, BatchDone, TypeOK
  <2>2. AggregateIsExact' /\ SharedWithin'
    BY <1>3 DEF Answered, BatchDone, AggregateIsExact, SharedWithin
  <2>3. OwnCovers'
    BY <1>3 DEF Answered, BatchDone, TypeOK, OwnCovers
  <2> QED BY <2>1, <2>2, <2>3
<1>4. ASSUME NEW a \in Agents, NEW drift \in 0 .. MaxDrift, RequestSent(a, drift)
      PROVE  BudgetInv'
  <2>1. /\ own[a] \in Controller /\ shared \in Controller
        /\ Own \in Limits /\ Shared \in Limits /\ now + drift \in Nat
    BY BudgetAssumption DEF TypeOK
  <2>2. /\ Within(own[a].requests + 1, Own.requests)
        /\ Within(shared.requests + 1, Shared.requests)
    BY <1>4, <2>1, RequestHasRoom DEF RequestSent, GrantRequest
  <2>3. TypeOK'
    <3>1. own' \in [Agents -> Controller] /\ shared' \in Controller
      BY <1>4, <2>1, SMTT(30) DEF RequestSent, GrantRequest, TypeOK, Controller
    <3>2. scope' \in [Agents -> [requests : Nat, tools : Nat]]
      BY <1>4 DEF RequestSent, TypeOK
    <3>3. /\ now' = now + drift /\ sent' = sent + 1 /\ ran' = ran
          /\ phase' = [phase EXCEPT ![a] = "streaming"]
      BY <1>4 DEF RequestSent, GrantRequest
    <3> QED
      BY <2>1, <3>1, <3>2, <3>3 DEF TypeOK
  <2>4. AggregateIsExact' /\ SharedWithin'
    <3>1. /\ shared'.requests = shared.requests + 1 /\ shared'.tools = shared.tools
          /\ sent' = sent + 1 /\ ran' = ran
      BY <1>4, <2>1 DEF RequestSent, GrantRequest, Controller
    <3>2. AggregateIsExact'
      BY <3>1 DEF AggregateIsExact
    <3>3. SharedWithin'
      BY <2>2, <3>1 DEF SharedWithin, Within
    <3> QED BY <3>2, <3>3
  <2>5. OwnCovers'
    BY <1>4, <2>1, <2>2
       DEF RequestSent, GrantRequest, OwnCovers, TypeOK, Controller
  <2> QED BY <2>3, <2>4, <2>5
<1>5. ASSUME NEW a \in Agents, NEW drift \in 0 .. MaxDrift,
             RequestRefused(a, drift)
      PROVE  BudgetInv'
  <2>1. own[a] \in Controller /\ Own \in Limits /\ now + drift \in Nat
    BY BudgetAssumption DEF TypeOK
  <2>2. \/ own' = own
        \/ /\ Within(own[a].requests + 1, Own.requests)
           /\ own' = [own EXCEPT ![a].requests = @ + 1]
    BY <1>5, <2>1, RequestHasRoom DEF RequestRefused, RefuseRequest
  <2>3. TypeOK'
    BY <1>5, <2>1, <2>2 DEF RequestRefused, RefuseRequest, TypeOK, Controller
  <2>4. AggregateIsExact' /\ SharedWithin'
    BY <1>5 DEF RequestRefused, RefuseRequest, AggregateIsExact, SharedWithin
  <2>5. scope' = scope /\ phase' = [phase EXCEPT ![a] = "idle"]
    BY <1>5 DEF RequestRefused
  <2>6. OwnCovers'
    BY <2>1, <2>2, <2>5 DEF OwnCovers, TypeOK, Controller
  <2> QED BY <2>3, <2>4, <2>6
<1>6. ASSUME NEW a \in Agents, NEW drift \in 0 .. MaxDrift, CallStarted(a, drift)
      PROVE  BudgetInv'
  <2>1. /\ own[a] \in Controller /\ shared \in Controller
        /\ Own \in Limits /\ Shared \in Limits /\ now + drift \in Nat
    BY BudgetAssumption DEF TypeOK
  <2>2. /\ Within(own[a].tools + 1, Own.tools)
        /\ Within(shared.tools + 1, Shared.tools)
    BY <1>6, <2>1, CallHasRoom DEF CallStarted, GrantCall
  <2>3. TypeOK'
    <3>1. own' \in [Agents -> Controller] /\ shared' \in Controller
      BY <1>6, <2>1, SMTT(30) DEF CallStarted, GrantCall, TypeOK, Controller
    <3>2. scope' \in [Agents -> [requests : Nat, tools : Nat]]
      BY <1>6 DEF CallStarted, TypeOK
    <3>3. /\ now' = now + drift /\ ran' = ran + 1 /\ sent' = sent
          /\ phase' = phase
      BY <1>6 DEF CallStarted, GrantCall
    <3> QED
      BY <2>1, <3>1, <3>2, <3>3 DEF TypeOK
  <2>4. AggregateIsExact' /\ SharedWithin'
    <3>1. /\ shared'.tools = shared.tools + 1 /\ shared'.requests = shared.requests
          /\ ran' = ran + 1 /\ sent' = sent
      BY <1>6, <2>1 DEF CallStarted, GrantCall, Controller
    <3>2. AggregateIsExact'
      BY <3>1 DEF AggregateIsExact
    <3>3. SharedWithin'
      BY <2>2, <3>1 DEF SharedWithin, Within
    <3> QED BY <3>2, <3>3
  <2>5. OwnCovers'
    BY <1>6, <2>1, <2>2 DEF CallStarted, GrantCall, OwnCovers, TypeOK, Controller
  <2> QED BY <2>3, <2>4, <2>5
<1>7. ASSUME NEW a \in Agents, NEW drift \in 0 .. MaxDrift, CallRefused(a, drift)
      PROVE  BudgetInv'
  <2>1. own[a] \in Controller /\ Own \in Limits /\ now + drift \in Nat
    BY BudgetAssumption DEF TypeOK
  <2>2. \/ own' = own
        \/ /\ Within(own[a].tools + 1, Own.tools)
           /\ own' = [own EXCEPT ![a].tools = @ + 1]
    BY <1>7, <2>1, CallHasRoom DEF CallRefused, RefuseCall
  <2>3. TypeOK'
    BY <1>7, <2>1, <2>2 DEF CallRefused, RefuseCall, TypeOK, Controller
  <2>4. AggregateIsExact' /\ SharedWithin'
    BY <1>7 DEF CallRefused, RefuseCall, AggregateIsExact, SharedWithin
  <2>5. scope' = scope /\ phase' = phase
    BY <1>7 DEF CallRefused
  <2>6. OwnCovers'
    BY <2>1, <2>2, <2>5 DEF OwnCovers, TypeOK, Controller
  <2> QED BY <2>3, <2>4, <2>6
<1>8. ASSUME NEW a \in Agents, Maintain(a) PROVE BudgetInv'
  <2>1. TypeOK'
    BY <1>8 DEF Maintain, TypeOK, Controller
  <2>2. AggregateIsExact' /\ SharedWithin'
    BY <1>8 DEF Maintain, AggregateIsExact, SharedWithin, TypeOK, Controller
  <2>3. OwnCovers'
    BY <1>8 DEF Maintain, OwnCovers, TypeOK, Controller
  <2> QED BY <2>1, <2>2, <2>3
<1>9. CASE Tick
  BY <1>9 DEF Tick, TypeOK, AggregateIsExact, SharedWithin, OwnCovers
<1>10. CASE UNCHANGED vars
  BY <1>10 DEF vars, TypeOK, AggregateIsExact, SharedWithin, OwnCovers
<1> QED
  BY <1>1, <1>2, <1>3, <1>4, <1>5, <1>6, <1>7, <1>8, <1>9, <1>10 DEF Next

LEMMA BudgetInvariant == Spec => []BudgetInv
  BY BudgetInit, BudgetStep, PTL DEF Spec

-----------------------------------------------------------------------------

\* Every counter keeps its type: no refusal, prompt or resume ever takes an
\* attempt back below zero.
THEOREM BudgetTypes == Spec => []TypeOK
<1>1. BudgetInv => TypeOK
  BY DEF BudgetInv
<1> QED
  BY <1>1, BudgetInvariant, PTL

\* aggregateBudgetUsage() reports exactly what the gates of the whole tree let
\* through, whatever the composite refuses.
THEOREM AggregateReportsTheTree == Spec => []AggregateIsExact
<1>1. BudgetInv => AggregateIsExact
  BY DEF BudgetInv
<1> QED
  BY <1>1, BudgetInvariant, PTL

\* No interleaving of root and descendants takes the tree past the aggregate
\* policy: no descendant can reset it.
THEOREM TreeStaysWithinAggregate == Spec => []AggregateCeiling
<1>1. BudgetInv => AggregateCeiling
  BY DEF BudgetInv, AggregateIsExact, SharedWithin, AggregateCeiling
<1> QED
  BY <1>1, BudgetInvariant, PTL

\* A logical run, every prompt and resume of a session-scoped child included,
\* stays within the policy it inherited.
THEOREM RunStaysWithinPolicy == Spec => []RunCeiling
<1>1. BudgetInv => RunCeiling
  <2> SUFFICES ASSUME BudgetInv, NEW a \in Agents
               PROVE  /\ Within(scope[a].requests, Own.requests)
                      /\ Within(scope[a].tools, Own.tools)
    BY DEF RunCeiling
  <2>1. /\ scope[a].requests \in Nat /\ scope[a].tools \in Nat
        /\ own[a].requests \in Nat /\ own[a].tools \in Nat
    BY DEF BudgetInv, TypeOK, Controller
  <2> QED
    BY <2>1, BudgetAssumption DEF BudgetInv, OwnCovers, Within, Limits
<1> QED
  BY <1>1, BudgetInvariant, PTL
=============================================================================
