----------------------------- MODULE ChildRuns -----------------------------
(***************************************************************************)
(* The delegation registry of a coding-agent session: ChildRunRegistry and *)
(* runDelegation (core/delegation/runtime.ts), the child session handle    *)
(* the SDK builds (core/sdk.ts), and the worktree owner's prepare and      *)
(* release (core/workspace/git-worktree-owner.ts).                         *)
(*                                                                         *)
(* One step is one stretch of JavaScript between two awaits.  A child run  *)
(* is a handle id h; each child session built for it in this process is an *)
(* instance <<h, g>>: only a historical resume that races another one ever *)
(* builds g > 1.  An instance carries the session handle (child) and the   *)
(* registry's entry for it (entry).                                        *)
(***************************************************************************)
EXTENDS Naturals, Sequences, FiniteSets

CONSTANTS
  Handles,          \* child run ids; one runDelegation request per id
  Paths,            \* write-ownership roots a request may name
  Overlaps,         \* claimPathsOverlap, as a set of pairs of paths
  Owned,            \* request.workspace.ownedPaths of each handle
  Isolated,         \* handles requested with isolation "worktree"
  Recovered,        \* those whose worktree recovery is asked for
  Foreground,       \* handles a tool call awaits (background: false)
  General,          \* handles of agent type "general" (one repair turn)
  Verifying,        \* handles whose session has verification policies
  Keys, NoKey,      \* spawn dedupe keys, and the absence of one
  KeyOf,            \* request.idempotencyKey of each handle
  Limit,            \* maxConcurrentChildren
  MaxBuilds,        \* bound: sessions built for one handle per process
  MaxAttempts,      \* bound: attempt epochs of one run
  MaxRestarts,      \* bound: process restarts
  EagerInput,       \* TRUE: callers send input before the run settled
  ConcurrentResume  \* TRUE: callers resume a handle twice at once

ASSUME SetsAssumption ==
  /\ Recovered \subseteq Isolated /\ Isolated \subseteq Handles
  /\ Foreground \subseteq Handles
  /\ General \subseteq Handles /\ Verifying \subseteq Handles
  /\ Owned \in [Handles -> SUBSET Paths]
  /\ KeyOf \in [Handles -> Keys \cup {NoKey}] /\ NoKey \notin Keys

ASSUME OverlapsAssumption ==
  /\ Overlaps \subseteq Paths \X Paths
  /\ \A p, q \in Paths : <<p, q>> \in Overlaps => <<q, p>> \in Overlaps

ASSUME BoundsAssumption ==
  /\ IsFiniteSet(Handles)
  /\ Limit \in Nat /\ MaxAttempts \in Nat /\ MaxRestarts \in Nat
  /\ MaxBuilds \in Nat \ {0}
  /\ EagerInput \in BOOLEAN /\ ConcurrentResume \in BOOLEAN

VARIABLES
  disposed,  \* the registry was disposed with its session
  slots,     \* heldRunSlots
  claims,    \* workspaceClaims, {} when the handle has no claim
  keys,      \* idempotencyKeys: the handle a key maps to, as {} or {h}
  foreground,\* foregroundHandles
  live,      \* entries: the instance the id maps to, 0 when none
  owner,     \* a workspace owner is attached
  tracked,   \* trackedWorkspaces
  freed,     \* releasedWorkspaces
  freeing,   \* the worktree release of each handle: running, answered by git
             \* (released, retained), recorded (gone, kept)
  tree,      \* the worktree directory on disk
  spawn,     \* where each handle's runDelegation call is
  rebuild,   \* instances a resumeHistorical call is building
  recov,     \* the recoverWorkspace call of each handle
  aborted,   \* handles whose foreground call's signal fired during launch
  child,     \* the session handle of each instance
  entry,     \* the registry's entry of each instance
  rec,       \* records: the in-memory ChildRunRecord
  log,       \* the last child_run entry the session file holds
  restarts   \* bound: restarts so far

registryVars == <<disposed, slots, claims, keys, foreground, live>>
treeVars     == <<owner, tracked, freed, freeing, tree>>
callVars     == <<spawn, rebuild, aborted>>
recordVars   == <<rec, log, recov>>
vars == <<disposed, slots, claims, keys, foreground, live, owner, tracked,
          freed, freeing, tree, spawn, rebuild, recov, aborted, child, entry,
          rec, log, restarts>>

Gens == 1 .. MaxBuilds
Inst == Handles \X Gens

Outcomes == {"completed", "failed", "interrupted"}
Attempt == [outcome : Outcomes \cup {"cancelled", "open"}, ended : BOOLEAN]
Record == [status : Outcomes \cup {"absent", "created", "running", "closed"},
           attempts : Seq(Attempt), cancelled : BOOLEAN,
           latest : Outcomes \cup {"none"},
           ws : {"unset", "active", "released", "retained", "missing"}]
Child == [st : {"none", "idle", "running", "interrupted", "closed"},
          last : Outcomes \cup {"none"}, verified : BOOLEAN,
          run : {"none", "turn", "verify", "fix", "recheck", "done"},
          input : {"none", "turn", "verify"}, reattach : BOOLEAN]
Entry == [latest : Outcomes \cup {"none"}, attempts : Seq(Attempt),
          cancelled : BOOLEAN, closed : BOOLEAN]

NoRecord == [status |-> "absent", attempts |-> <<>>, cancelled |-> FALSE,
             latest |-> "none", ws |-> "unset"]
NoChild == [st |-> "none", last |-> "none", verified |-> FALSE,
            run |-> "none", input |-> "none", reattach |-> FALSE]
NoEntry == [latest |-> "none", attempts |-> <<>>, cancelled |-> FALSE,
            closed |-> FALSE]
NoRecovery == [phase |-> "none", copy |-> NoRecord]

TypeOK ==
  /\ disposed \in BOOLEAN /\ owner \in BOOLEAN
  /\ slots \subseteq Handles /\ foreground \subseteq Handles
  /\ tracked \subseteq Handles /\ freed \subseteq Handles
  /\ aborted \subseteq Handles
  /\ claims \in [Handles -> SUBSET Paths]
  /\ keys \in [Keys -> SUBSET Handles]
  /\ live \in [Handles -> 0 .. MaxBuilds]
  /\ freeing \in [Handles -> {"none", "running", "released", "retained",
                           "gone", "kept"}]
  /\ tree \in [Handles -> {"absent", "clean", "dirty"}]
  /\ spawn \in [Handles -> {"new", "preparing", "building", "cleanup", "done"}]
  /\ rebuild \in [Handles -> SUBSET Gens]
  /\ recov \in [Handles -> [phase : {"none", "shared", "stale"}, copy : Record]]
  /\ child \in [Inst -> Child]
  /\ entry \in [Inst -> Entry]
  /\ rec \in [Handles -> Record] /\ log \in [Handles -> Record]
  /\ restarts \in 0 .. MaxRestarts

Init ==
  /\ disposed = FALSE /\ owner = FALSE
  /\ slots = {} /\ foreground = {} /\ tracked = {} /\ freed = {} /\ aborted = {}
  /\ claims = [h \in Handles |-> {}]
  /\ keys = [k \in Keys |-> {}]
  /\ live = [h \in Handles |-> 0]
  /\ freeing = [h \in Handles |-> "none"]
  /\ tree = [h \in Handles |-> "absent"]
  /\ spawn = [h \in Handles |-> "new"]
  /\ rebuild = [h \in Handles |-> {}]
  /\ recov = [h \in Handles |-> NoRecovery]
  /\ child = [i \in Inst |-> NoChild]
  /\ entry = [i \in Inst |-> NoEntry]
  /\ rec = [h \in Handles |-> NoRecord]
  /\ log = [h \in Handles |-> NoRecord]
  /\ restarts = 0

-----------------------------------------------------------------------------
(* Readings of the state the handlers share. *)

Cur(h) == <<h, live[h]>>

\* The handle is in entries and its child session was not closed.
Open(h) == live[h] # 0 /\ ~entry[Cur(h)].closed

\* runPromise is set: the child session's agent is running a turn.
InFlight(i) == child[i].run \in {"turn", "fix"} \/ child[i].input = "turn"

\* A promise chain of run() or sendInput() has not settled yet.
Busy(i) == child[i].run \notin {"none", "done"} \/ child[i].input # "none"

Overlapping(P, Q) == \E p \in P, q \in Q : <<p, q>> \in Overlaps

ClaimFreeUnchecked(h) == TRUE   \* a changed form: the overlap loop forgotten
\* The overlap loop over activeWorkspaceClaims().
ClaimFree(h) == \A o \in Handles : ~Overlapping(Owned[h], claims[o])

SlotFreeOffByOne == Cardinality(slots) <= Limit   \* a changed form: > for >=
\* admitChildRun's test.
SlotFree == Cardinality(slots) < Limit

SetFirstOutcome(atts, o) == [atts EXCEPT ![1].outcome = o]   \* a changed form
\* The active attempt, always the last one, is stamped with o.
SetOutcome(atts, o) == [atts EXCEPT ![Len(atts)].outcome = o]

\* What recordCompletion records: the handle's report, else a plain success.
Reported(i) == IF child[i].last = "none" THEN "completed" ELSE child[i].last

-----------------------------------------------------------------------------
(* Records. *)

\* The record save() builds from an entry: it carries no workspaceState.
RecordOf(e, status) ==
  [status |-> status, attempts |-> e.attempts, cancelled |-> e.cancelled,
   latest |-> e.latest, ws |-> "unset"]

\* records.set replaces the object, so a recovery under way keeps the old one.
Detach(h) ==
  recov' = [recov EXCEPT ![h] =
    IF @.phase = "shared" THEN [phase |-> "stale", copy |-> rec[h]] ELSE @]

Save(h, e, status) ==
  /\ rec' = [rec EXCEPT ![h] = RecordOf(e, status)]
  /\ log' = [log EXCEPT ![h] = RecordOf(e, status)]
  /\ Detach(h)

\* Changed forms of persistSettlement: the closed guard dropped, the slot
\* kept, the write claim released with the slot.
SettleEvenClosed(i, out, giveBack) ==
  LET done == [entry[i] EXCEPT !.latest = out, !.attempts = SetOutcome(@, out)] IN
  /\ entry' = [entry EXCEPT ![i] = done]
  /\ Save(i[1], done, out)
  /\ slots' = slots \ {i[1]}
  /\ UNCHANGED claims
SettleKeepingSlot(i, out, giveBack) ==
  LET done == [entry[i] EXCEPT !.latest = out] IN
  /\ entry' = [entry EXCEPT ![i] = done]
  /\ IF done.closed THEN UNCHANGED recordVars ELSE Save(i[1], done, out)
  /\ UNCHANGED <<slots, claims>>
SettleReleasingClaim(i, out, giveBack) ==
  LET done == [entry[i] EXCEPT !.latest = out] IN
  /\ entry' = [entry EXCEPT ![i] = done]
  /\ IF done.closed THEN UNCHANGED recordVars ELSE Save(i[1], done, out)
  /\ slots' = slots \ {i[1]}
  /\ claims' = [claims EXCEPT ![i[1]] = {}]

\* recordCompletion and recordFailure down to persistSettlement: out is what
\* the handle reported.  giveBack: the chain belongs to a resumeHistorical
\* whose catch releases the slot and the claim.
Settle(i, out, giveBack) ==
  LET h == i[1]
      e == entry[i]
      stamp == IF out = "interrupted" /\ e.cancelled THEN "cancelled" ELSE out
      done == [e EXCEPT !.latest = out, !.attempts = SetOutcome(@, stamp)]
  IN /\ IF e.closed
        THEN entry' = [entry EXCEPT ![i].latest = out] /\ UNCHANGED recordVars
        ELSE entry' = [entry EXCEPT ![i] = done] /\ Save(h, done, out)
     /\ slots' = IF e.closed /\ ~giveBack THEN slots ELSE slots \ {h}
     /\ claims' = IF giveBack THEN [claims EXCEPT ![h] = {}] ELSE claims

-----------------------------------------------------------------------------
(* Worktrees: trackWorkspace, releaseWorkspaceOnce, the owner. *)

\* releaseWorkspaceOnce for every handle of H: once per handle, and nothing
\* without an owner.
ReleaseOnce(H) ==
  LET due == H \ freed IN
  /\ freed' = freed \cup H
  /\ tracked' = tracked \ due
  /\ freeing' = [h \in Handles |->
                   IF h \in due /\ owner THEN "running" ELSE freeing[h]]
  /\ UNCHANGED <<owner, tree>>

\* A changed form: the owner passes --force.
ReleaseTreeForced(h) ==
  /\ freeing[h] = "running"
  /\ freeing' = [freeing EXCEPT ![h] = "released"]
  /\ tree' = [tree EXCEPT ![h] = "absent"]
  /\ UNCHANGED <<registryVars, callVars, recordVars, owner, tracked, freed,
                 child, entry, restarts>>

\* A changed form: the exit code of git worktree remove is not looked at.
ReleaseTreeUnchecked(h) ==
  /\ freeing[h] = "running"
  /\ freeing' = [freeing EXCEPT ![h] = "released"]
  /\ tree' = [tree EXCEPT ![h] = IF @ = "dirty" THEN @ ELSE "absent"]
  /\ UNCHANGED <<registryVars, callVars, recordVars, owner, tracked, freed,
                 child, entry, restarts>>

\* GitWorktreeWorkspaceOwner.release: git worktree remove without --force
\* refuses a dirty tree, and may fail on a clean one.
ReleaseTree(h) ==
  /\ freeing[h] = "running"
  /\ \/ /\ tree[h] # "dirty"
        /\ tree' = [tree EXCEPT ![h] = "absent"]
        /\ freeing' = [freeing EXCEPT ![h] = "released"]
     \/ /\ tree[h] # "absent"
        /\ freeing' = [freeing EXCEPT ![h] = "retained"]
        /\ UNCHANGED tree
  /\ UNCHANGED <<registryVars, callVars, recordVars, owner, tracked, freed,
                 child, entry, restarts>>

\* recordWorkspaceState with the owner's answer, and the rest of a launch
\* failure that awaited it (releaseWorkspaceNow).
RecordRelease(h) ==
  LET ws == freeing[h]
      known == rec[h].status # "absent" /\ h \in Isolated
  IN /\ ws \in {"released", "retained"}
     /\ freeing' = [freeing EXCEPT ![h] = IF ws = "released" THEN "gone" ELSE "kept"]
     /\ IF known
        THEN /\ rec' = [rec EXCEPT ![h].ws = ws]
             /\ log' = [log EXCEPT ![h] = [rec[h] EXCEPT !.ws = ws]]
        ELSE UNCHANGED <<rec, log>>
     /\ IF spawn[h] = "cleanup"
        THEN /\ spawn' = [spawn EXCEPT ![h] = "done"]
             /\ claims' = [claims EXCEPT ![h] = {}]
        ELSE UNCHANGED <<spawn, claims>>
     /\ UNCHANGED <<disposed, slots, keys, foreground, live, owner, tracked,
                    freed, tree, rebuild, recov, aborted, child, entry,
                    restarts>>

\* A turn edits files: the worktree of an isolated run is no longer clean.
ChildWrites(i) ==
  /\ i[1] \in Isolated /\ InFlight(i) /\ tree[i[1]] = "clean"
  /\ tree' = [tree EXCEPT ![i[1]] = "dirty"]
  /\ UNCHANGED <<registryVars, callVars, recordVars, owner, tracked, freed,
                 freeing, child, entry, restarts>>

-----------------------------------------------------------------------------
(* Launch: runDelegation. *)

\* runDelegation up to its first await.  A known key, or an owned path that
\* overlaps an active claim, refuses before anything changes.
Spawn(h) ==
  /\ ~disposed /\ spawn[h] = "new"
  /\ KeyOf[h] # NoKey => keys[KeyOf[h]] = {}
  /\ ClaimFree(h)
  /\ SlotFree
  /\ claims' = [claims EXCEPT ![h] = Owned[h]]
  /\ slots' = slots \cup {h}
  /\ spawn' = [spawn EXCEPT ![h] =
                 IF h \in Isolated THEN "preparing" ELSE "building"]
  /\ owner' = (owner \/ h \in Isolated)
  /\ tracked' = IF h \in Isolated THEN tracked \cup {h} ELSE tracked
  /\ UNCHANGED <<disposed, keys, foreground, live, freed, freeing, tree,
                 rebuild, recordVars, aborted, child, entry, restarts>>

\* A changed form: the catch of runDelegation forgets the slot.
LaunchFailsKeepingSlot(h) ==
  /\ UNCHANGED slots
  /\ ReleaseOnce({h})
  /\ IF freeing'[h] = "running" /\ h \notin freed
     THEN spawn' = [spawn EXCEPT ![h] = "cleanup"] /\ UNCHANGED claims
     ELSE /\ spawn' = [spawn EXCEPT ![h] = "done"]
          /\ claims' = [claims EXCEPT ![h] = {}]

\* A changed form: the wait for a release nobody started.
LaunchFailsUnreleased(h) ==
  /\ slots' = slots \ {h}
  /\ spawn' = [spawn EXCEPT ![h] = "cleanup"]
  /\ UNCHANGED <<claims, treeVars>>

\* The catch of runDelegation: the slot, then releaseWorkspaceNow, whose claim
\* release waits for the owner.
LaunchFails(h) ==
  /\ slots' = slots \ {h}
  /\ ReleaseOnce({h})
  /\ IF freeing'[h] = "running" /\ h \notin freed
     THEN spawn' = [spawn EXCEPT ![h] = "cleanup"] /\ UNCHANGED claims
     ELSE /\ spawn' = [spawn EXCEPT ![h] = "done"]
          /\ claims' = [claims EXCEPT ![h] = {}]

\* admitChildRun refuses inside the try: the catch runs with the claim and
\* the tracked workspace already in place.
SpawnOverLimit(h) ==
  /\ ~disposed /\ spawn[h] = "new"
  /\ KeyOf[h] # NoKey => keys[KeyOf[h]] = {}
  /\ ClaimFree(h)
  /\ ~SlotFree
  /\ slots' = slots \ {h}
  /\ owner' = (owner \/ h \in Isolated)
  /\ freed' = freed \cup {h}
  /\ IF owner'
     THEN /\ freeing' = [freeing EXCEPT ![h] = "running"]
          /\ spawn' = [spawn EXCEPT ![h] = "cleanup"]
          /\ claims' = [claims EXCEPT ![h] = Owned[h]]
     ELSE /\ spawn' = [spawn EXCEPT ![h] = "done"]
          /\ UNCHANGED <<freeing, claims>>
  /\ UNCHANGED <<disposed, keys, foreground, live, tracked, tree, rebuild,
                 recordVars, aborted, child, entry, restarts>>

\* workspaceOwner.prepare resolves: git worktree add made the directory.
PrepareDone(h) ==
  /\ spawn[h] = "preparing"
  /\ tree' = [tree EXCEPT ![h] = "clean"]
  /\ spawn' = [spawn EXCEPT ![h] = "building"]
  /\ UNCHANGED <<registryVars, recordVars, owner, tracked, freed, freeing,
                 rebuild, aborted, child, entry, restarts>>

\* prepare or buildChildSession rejects.
LaunchRejected(h) ==
  /\ spawn[h] \in {"preparing", "building"}
  /\ LaunchFails(h)
  /\ aborted' = aborted \ {h}
  /\ UNCHANGED <<disposed, keys, foreground, live, rebuild, recordVars, child,
                 entry, restarts>>

\* buildChildSession resolves on a disposed registry: own() disposes the child
\* and throws.
LaunchOrphaned(h) ==
  /\ spawn[h] = "building" /\ disposed
  /\ LaunchFails(h)
  /\ aborted' = aborted \ {h}
  /\ UNCHANGED <<disposed, keys, foreground, live, rebuild, recordVars, child,
                 entry, restarts>>

\* buildChildSession resolves: own, run, register, and for a foreground call
\* markForeground and the check of an already aborted signal.
Launched(h) ==
  LET i == <<h, 1>>
      hit == h \in aborted
      first == [outcome |-> IF hit THEN "cancelled" ELSE "open", ended |-> FALSE]
      e == [NoEntry EXCEPT !.attempts = <<first>>, !.cancelled = hit]
  IN /\ spawn[h] = "building" /\ ~disposed
     /\ spawn' = [spawn EXCEPT ![h] = "done"]
     /\ live' = [live EXCEPT ![h] = 1]
     /\ child' = [child EXCEPT ![i] =
          [NoChild EXCEPT !.st = IF hit THEN "interrupted" ELSE "running",
                          !.run = "turn"]]
     /\ entry' = [entry EXCEPT ![i] = e]
     /\ keys' = [k \in Keys |-> IF k = KeyOf[h] THEN {h} ELSE keys[k]]
     /\ foreground' = IF h \in Foreground THEN foreground \cup {h} ELSE foreground
     /\ aborted' = aborted \ {h}
     /\ Save(h, e, IF hit THEN "interrupted" ELSE "created")
     /\ UNCHANGED <<disposed, slots, claims, treeVars, rebuild, restarts>>

-----------------------------------------------------------------------------
(* Turns of a child session: start, run, sendInput, requireVerifiedTurn. *)

\* How a turn of start() ends when the session's prompt ends with o.
Ended(st, o) ==
  IF st = "closed" THEN [st |-> "closed", last |-> "failed", ok |-> FALSE]
  ELSE IF st = "interrupted" \/ o = "aborted"
       THEN [st |-> "interrupted", last |-> "interrupted", ok |-> FALSE]
  ELSE IF o = "error"
       THEN [st |-> "interrupted", last |-> "failed", ok |-> FALSE]
  ELSE [st |-> "idle", last |-> "completed", ok |-> TRUE]

TurnOutcomes == {"completed", "aborted", "error"}

\* The turn run() awaits ends.  A rejected turn rejects run(); a completed one
\* of a verifying session goes on to requireVerifiedTurn, which gives an agent
\* of type "general" one repair turn.
RunTurnEnds(i, o) ==
  LET r == Ended(child[i].st, o)
      verifies == r.ok /\ i[1] \in Verifying
      phase == IF ~verifies THEN "done"
               ELSE IF i[1] \in General /\ child[i].run = "turn" THEN "verify"
               ELSE "recheck"
  IN /\ child[i].run \in {"turn", "fix"}
     /\ child' = [child EXCEPT ![i].st = r.st, ![i].last = r.last,
                               ![i].run = phase]
     /\ IF verifies
        THEN UNCHANGED <<slots, claims, foreground, entry, recordVars>>
        ELSE /\ Settle(i, r.last, FALSE)
             /\ foreground' = foreground \ {i[1]}
     /\ UNCHANGED <<disposed, keys, live, treeVars, callVars, restarts>>

RunExpiresAwaited(i) ==   \* a changed form: releaseForeground forgotten
  /\ child[i].run = "turn" /\ child[i].st = "running"
  /\ child' = [child EXCEPT ![i].st = "idle", ![i].last = "failed",
                            ![i].run = "done"]
  /\ Settle(i, "failed", FALSE)
  /\ UNCHANGED <<disposed, keys, foreground, live, treeVars, callVars, restarts>>

\* The launch timeout's wall-time gate refused the turn: run() fails it.
RunExpires(i) ==
  /\ child[i].run = "turn" /\ child[i].st = "running"
  /\ child' = [child EXCEPT ![i].st = "idle", ![i].last = "failed",
                            ![i].run = "done"]
  /\ Settle(i, "failed", FALSE)
  /\ foreground' = foreground \ {i[1]}
  /\ UNCHANGED <<disposed, keys, live, treeVars, callVars, restarts>>

\* The first verification of a "general" child answers.  A failure starts the
\* repair turn, unless the session was closed or runs a turn already.
RunVerified(i, pass) ==
  LET repairs == child[i].st # "closed" /\ ~InFlight(i) IN
  /\ child[i].run = "verify"
  /\ child' = [child EXCEPT
       ![i].verified = pass,
       ![i].last = IF pass THEN @ ELSE "failed",
       ![i].st = IF ~pass /\ repairs THEN "running" ELSE @,
       ![i].run = IF pass THEN "recheck" ELSE IF repairs THEN "fix" ELSE "done"]
  /\ IF pass \/ repairs
     THEN UNCHANGED <<slots, claims, foreground, entry, recordVars>>
     ELSE Settle(i, "failed", FALSE) /\ foreground' = foreground \ {i[1]}
  /\ UNCHANGED <<disposed, keys, live, treeVars, callVars, restarts>>

\* A changed form: the verdict of the last verification is not looked at.
RunRecheckedAnyway(i, pass) ==
  /\ child[i].run = "recheck"
  /\ child' = [child EXCEPT ![i].verified = pass, ![i].run = "done"]
  /\ Settle(i, Reported(i), FALSE)
  /\ foreground' = foreground \ {i[1]}
  /\ UNCHANGED <<disposed, keys, live, treeVars, callVars, restarts>>

\* The verification that decides run() answers; a pass settles with whatever
\* the handle reports as its latest turn result by then.
RunRechecked(i, pass) ==
  /\ child[i].run = "recheck"
  /\ child' = [child EXCEPT ![i].verified = pass,
                            ![i].last = IF pass THEN @ ELSE "failed",
                            ![i].run = "done"]
  /\ Settle(i, IF pass THEN Reported(i) ELSE "failed", FALSE)
  /\ foreground' = foreground \ {i[1]}
  /\ UNCHANGED <<disposed, keys, live, treeVars, callVars, restarts>>

\* The turn a sendInput started ends, and its chain settles unless the session
\* verifies.
InputTurnEnds(i, o) ==
  LET r == Ended(child[i].st, o)
      verifies == r.ok /\ i[1] \in Verifying
  IN /\ child[i].input = "turn"
     /\ child' = [child EXCEPT
          ![i].st = r.st, ![i].last = r.last,
          ![i].input = IF verifies THEN "verify" ELSE "none",
          ![i].reattach = verifies /\ @]
     /\ IF verifies THEN UNCHANGED <<slots, claims, entry, recordVars>>
                    ELSE Settle(i, r.last, child[i].reattach /\ ~r.ok)
     /\ UNCHANGED <<disposed, keys, foreground, live, treeVars, callVars,
                    restarts>>

InputVerified(i, pass) ==
  /\ child[i].input = "verify"
  /\ child' = [child EXCEPT ![i].verified = pass,
                            ![i].last = IF pass THEN @ ELSE "failed",
                            ![i].input = "none", ![i].reattach = FALSE]
  /\ Settle(i, IF pass THEN Reported(i) ELSE "failed",
            child[i].reattach /\ ~pass)
  /\ UNCHANGED <<disposed, keys, foreground, live, treeVars, callVars, restarts>>

-----------------------------------------------------------------------------
(* Callers of a live run. *)

StartInput(c) == [c EXCEPT !.st = "running", !.verified = FALSE,
                           !.input = "turn"]

\* sendInput on a session with no turn in flight starts one, without asking
\* for a slot.  Unless callers are eager, they only send once the run settled.
SendInput(h) ==
  LET i == Cur(h) IN
  /\ ~disposed /\ Open(h)
  /\ ~InFlight(i) /\ child[i].input = "none"
  /\ EagerInput \/ ~Busy(i)
  /\ child' = [child EXCEPT ![i] = StartInput(@)]
  /\ UNCHANGED <<registryVars, treeVars, callVars, recordVars, entry, restarts>>

\* sendInput on a running session: followUp resolves once the message is
\* queued, and the registry records that as a completed turn.
QueueInput(h) ==
  LET i == Cur(h) IN
  /\ ~disposed /\ Open(h) /\ EagerInput
  /\ InFlight(i) /\ child[i].st = "running"
  /\ Settle(i, Reported(i), FALSE)
  /\ UNCHANGED <<disposed, keys, foreground, live, treeVars, callVars, child,
                 restarts>>

\* wait: a live run always has a pending promise, so its record is saved as
\* running whatever the run's state.
Wait(h) ==
  /\ ~disposed /\ Open(h)
  /\ Save(h, entry[Cur(h)], "running")
  /\ UNCHANGED <<registryVars, treeVars, callVars, child, entry, restarts>>

InterruptReleasing(h) ==   \* a changed form: stopping counts as stopped
  /\ ~disposed /\ Open(h)
  /\ child[Cur(h)].st = "running"
  /\ child' = [child EXCEPT ![Cur(h)].st = "interrupted"]
  /\ slots' = slots \ {h}
  /\ UNCHANGED <<disposed, claims, keys, foreground, live, treeVars, callVars,
                 recordVars, entry, restarts>>

\* interrupt without a reason, and observeDeadlines on a run past its deadline.
Interrupt(h) ==
  /\ ~disposed /\ Open(h)
  /\ child[Cur(h)].st = "running"
  /\ child' = [child EXCEPT ![Cur(h)].st = "interrupted"]
  /\ UNCHANGED <<registryVars, treeVars, callVars, recordVars, entry, restarts>>

\* interrupt with a reason, for every run of H.
Cancel(H) ==
  LET hit(i) == i[1] \in H /\ i = Cur(i[1]) /\ Open(i[1])
      cancel(i) == [entry[i] EXCEPT !.cancelled = TRUE,
                                    !.attempts = SetOutcome(@, "cancelled")]
      saved(h) == IF h \in H /\ Open(h)
                  THEN RecordOf(cancel(Cur(h)), "interrupted") ELSE rec[h]
      logged(h) == IF h \in H /\ Open(h) THEN saved(h) ELSE log[h]
  IN /\ child' = [i \in Inst |->
           IF hit(i) /\ child[i].st = "running"
           THEN [child[i] EXCEPT !.st = "interrupted"] ELSE child[i]]
     /\ entry' = [i \in Inst |-> IF hit(i) THEN cancel(i) ELSE entry[i]]
     /\ rec' = [h \in Handles |-> saved(h)]
     /\ log' = [h \in Handles |-> logged(h)]
     /\ recov' = [h \in Handles |->
           IF h \in H /\ Open(h) /\ recov[h].phase = "shared"
           THEN [phase |-> "stale", copy |-> rec[h]] ELSE recov[h]]

InterruptWithReason(h) ==
  /\ ~disposed /\ Open(h)
  /\ Cancel({h})
  /\ UNCHANGED <<registryVars, treeVars, callVars, restarts>>

\* The parent's turn is aborted: interruptForeground, and the abort signal of
\* every foreground call, those still launching included.
ParentAbort ==
  /\ ~disposed
  /\ Cancel(foreground)
  /\ aborted' = aborted \cup {h \in Foreground : spawn[h] \in {"preparing", "building"}}
  /\ UNCHANGED <<registryVars, treeVars, spawn, rebuild, restarts>>

NewAttempt == [outcome |-> "open", ended |-> FALSE]

\* A changed form: the prior attempt is left open.
EpochsLeftOpen(atts, outcome) == Append(atts, NewAttempt)

\* A resume closes the last attempt, with outcome when it has none yet, and
\* opens the next one.
Epochs(atts, outcome) ==
  LET n == Len(atts)
      close(a) == [outcome |-> IF a.outcome = "open" /\ ~a.ended
                               THEN outcome ELSE a.outcome,
                   ended |-> TRUE]
  IN Append([atts EXCEPT ![n] = close(@)], NewAttempt)

\* resumeChildRun on a live run whose handle says interrupted: the new attempt
\* is begun before sendInput, which throws when the old turn is still stopping.
ResumeLive(h) ==
  LET i == Cur(h)
      outcome == IF entry[i].latest = "none" THEN "open" ELSE entry[i].latest
  IN /\ ~disposed /\ Open(h)
     /\ child[i].st = "interrupted" /\ child[i].input # "verify"
     /\ EagerInput \/ ~Busy(i)
     /\ Len(entry[i].attempts) < MaxAttempts
     /\ entry' = [entry EXCEPT ![i].attempts = Epochs(@, outcome)]
     /\ child' = [child EXCEPT ![i] = IF InFlight(i) THEN @ ELSE StartInput(@)]
     /\ UNCHANGED <<registryVars, treeVars, callVars, recordVars, restarts>>

\* close: the claim, the slot and the worktree go with the run.
Close(h) ==
  LET i == Cur(h)
      e == [entry[i] EXCEPT !.closed = TRUE]
  IN /\ ~disposed /\ Open(h)
     /\ entry' = [entry EXCEPT ![i] = e]
     /\ claims' = [claims EXCEPT ![h] = {}]
     /\ slots' = slots \ {h}
     /\ ReleaseOnce({h})
     /\ Save(h, e, "closed")
     /\ child' = [child EXCEPT ![i].st = "closed"]
     /\ UNCHANGED <<disposed, keys, foreground, live, callVars, restarts>>

\* dispose: every child session is closed, every tracked worktree released.
\* Turns in flight and calls being awaited go on.
Dispose ==
  /\ ~disposed
  /\ disposed' = TRUE
  /\ child' = [i \in Inst |->
       IF child[i].st = "none" THEN child[i] ELSE [child[i] EXCEPT !.st = "closed"]]
  /\ ReleaseOnce(tracked)
  /\ live' = [h \in Handles |-> 0]
  /\ claims' = [h \in Handles |-> {}]
  /\ slots' = {}
  /\ UNCHANGED <<keys, foreground, callVars, recordVars, entry, restarts>>

-----------------------------------------------------------------------------
(* Restart: restore, resumeHistorical, recoverWorkspace. *)

\* A changed form: stale running records are restored as they are.
RestoredAsIs(r) == r

\* restore() of one persisted record: a running one is interrupted.
Restored(r) ==
  IF r.status # "running" THEN r
  ELSE [r EXCEPT !.status = "interrupted",
                 !.attempts[Len(r.attempts)] =
                    [outcome |-> IF @.outcome = "open" THEN "interrupted"
                                                       ELSE @.outcome,
                     ended |-> TRUE]]

KeyedRunsOpen(k) ==   \* a changed form: only runs that have not ended
  {h \in Handles : KeyOf[h] = k /\ log[h].status \in {"created", "running"}}
KeyedRuns(k) == {h \in Handles : KeyOf[h] = k /\ log[h].status # "absent"}

\* The process stops anywhere and the session file is opened again.
Restart ==
  /\ restarts < MaxRestarts
  /\ restarts' = restarts + 1
  /\ disposed' = FALSE /\ owner' = FALSE
  /\ slots' = {} /\ foreground' = {} /\ tracked' = {} /\ freed' = {}
  /\ aborted' = {}
  /\ claims' = [h \in Handles |-> {}]
  /\ live' = [h \in Handles |-> 0]
  /\ freeing' = [h \in Handles |-> "none"]
  /\ spawn' = [h \in Handles |-> IF spawn[h] = "new" THEN "new" ELSE "done"]
  /\ rebuild' = [h \in Handles |-> {}]
  /\ recov' = [h \in Handles |-> NoRecovery]
  /\ child' = [i \in Inst |-> NoChild]
  /\ entry' = [i \in Inst |-> NoEntry]
  /\ rec' = [h \in Handles |-> Restored(log[h])]
  /\ keys' \in [Keys -> SUBSET Handles]
  /\ \A k \in Keys : IF KeyedRuns(k) = {} THEN keys'[k] = {}
                     ELSE \E h \in KeyedRuns(k) : keys'[k] = {h}
  /\ UNCHANGED <<tree, log>>

\* isHistorical: the id is known only as a persisted record.
Historical(h) == live[h] = 0 /\ rec[h].status # "absent"

TreeGone(h) == h \in Isolated /\ tree[h] = "absent"

\* rejectUnresumableWorktree and recoverWorkspace classify a vanished root.
WorkspaceMissing(h) ==
  /\ ~disposed /\ rec[h].status # "absent" /\ TreeGone(h)
  /\ rec[h].ws \notin {"released", "missing"}
  /\ rec' = [rec EXCEPT ![h].ws = "missing"]
  /\ log' = [log EXCEPT ![h] = [rec[h] EXCEPT !.ws = "missing"]]
  /\ UNCHANGED <<registryVars, treeVars, callVars, recov, child, entry,
                 restarts>>

\* The gates of resumeHistorical before its claim.
Resumable(h) ==
  /\ ~disposed /\ Historical(h)
  /\ ~TreeGone(h)
  /\ h \in Isolated => rec[h].ws # "retained"
  /\ rec[h].status # "closed"
  /\ ClaimFree(h)
  /\ ConcurrentResume \/ rebuild[h] = {}
  /\ Len(rec[h].attempts) < MaxAttempts

StatusAsOutcome(r) == r.status   \* a changed form
\* terminalOutcomeOfStatus.
StatusOutcome(r) ==
  IF r.status \in {"completed", "failed"} THEN r.status
  ELSE IF r.status # "interrupted" THEN "open"
  ELSE IF r.cancelled THEN "cancelled" ELSE "interrupted"

\* resumeHistorical up to buildChildSession; the attempts of the new entry
\* come from the record read here.
ResumeHistorical(h, g) ==
  /\ Resumable(h) /\ SlotFree
  /\ g \notin rebuild[h] /\ child[<<h, g>>].st = "none"
  /\ claims' = [claims EXCEPT ![h] = IF Owned[h] = {} THEN @ ELSE Owned[h]]
  /\ slots' = slots \cup {h}
  /\ rebuild' = [rebuild EXCEPT ![h] = @ \cup {g}]
  /\ entry' = [entry EXCEPT ![<<h, g>>] =
       [NoEntry EXCEPT !.attempts = Epochs(rec[h].attempts,
                                           StatusOutcome(rec[h]))]]
  /\ UNCHANGED <<disposed, keys, foreground, live, treeVars, recordVars, spawn,
                 aborted, child, restarts>>

\* admitChildRun refuses the resume: the catch releases the id's slot and
\* claim, whoever took them.
ResumeOverLimit(h) ==
  /\ Resumable(h) /\ ~SlotFree
  /\ slots' = slots \ {h}
  /\ claims' = [claims EXCEPT ![h] = {}]
  /\ UNCHANGED <<disposed, keys, foreground, live, treeVars, callVars,
                 recordVars, child, entry, restarts>>

\* buildChildSession rejects, or own() finds the registry disposed.
ResumeRejected(h, g) ==
  /\ g \in rebuild[h]
  /\ rebuild' = [rebuild EXCEPT ![h] = @ \ {g}]
  /\ slots' = slots \ {h}
  /\ claims' = [claims EXCEPT ![h] = {}]
  /\ entry' = [entry EXCEPT ![<<h, g>>] = NoEntry]
  /\ UNCHANGED <<disposed, keys, foreground, live, treeVars, recordVars, spawn,
                 aborted, child, restarts>>

\* buildChildSession resolves: the entry replaces whatever the id mapped to
\* and the resumed turn starts.
Resumed(h, g) ==
  LET i == <<h, g>> IN
  /\ ~disposed /\ g \in rebuild[h]
  /\ rebuild' = [rebuild EXCEPT ![h] = @ \ {g}]
  /\ live' = [live EXCEPT ![h] = g]
  /\ child' = [child EXCEPT ![i] =
                 [StartInput(NoChild) EXCEPT !.reattach = TRUE]]
  /\ Save(h, entry[i], "running")
  /\ UNCHANGED <<disposed, slots, claims, keys, foreground, treeVars, spawn,
                 aborted, entry, restarts>>

\* recoverWorkspace up to the owner's verify, which reads git only.
RecoverStart(h) ==
  /\ ~disposed /\ h \in Recovered
  /\ rec[h].status # "absent" /\ tree[h] # "absent"
  /\ recov[h].phase = "none"
  /\ recov' = [recov EXCEPT ![h].phase = "shared"]
  /\ UNCHANGED <<registryVars, treeVars, callVars, child, entry, rec, log,
                 restarts>>

\* verify answers: the record object read before it becomes active and is
\* persisted, even when the map holds another one by now.
RecoverDone(h) ==
  LET old == IF recov[h].phase = "shared" THEN rec[h] ELSE recov[h].copy
      new == [old EXCEPT !.ws = "active"]
  IN /\ recov[h].phase # "none" /\ tree[h] # "absent"
     /\ rec' = IF recov[h].phase = "shared" THEN [rec EXCEPT ![h] = new] ELSE rec
     /\ log' = [log EXCEPT ![h] = new]
     /\ recov' = [recov EXCEPT ![h] = NoRecovery]
     /\ UNCHANGED <<registryVars, treeVars, callVars, child, entry, restarts>>

\* verify throws: the record is left alone.
RecoverRefused(h) ==
  /\ recov[h].phase # "none"
  /\ recov' = [recov EXCEPT ![h] = NoRecovery]
  /\ UNCHANGED <<registryVars, treeVars, callVars, child, entry, rec, log,
                 restarts>>

-----------------------------------------------------------------------------

Launching(h) ==
  \/ Spawn(h) \/ SpawnOverLimit(h) \/ PrepareDone(h)
  \/ LaunchRejected(h) \/ LaunchOrphaned(h) \/ Launched(h)

Turning(i) ==
  \/ \E o \in TurnOutcomes : RunTurnEnds(i, o) \/ InputTurnEnds(i, o)
  \/ \E pass \in BOOLEAN :
        RunVerified(i, pass) \/ RunRechecked(i, pass) \/ InputVerified(i, pass)
  \/ RunExpires(i)

Calling(h) ==
  \/ SendInput(h) \/ QueueInput(h) \/ Wait(h)
  \/ Interrupt(h) \/ InterruptWithReason(h) \/ ResumeLive(h) \/ Close(h)

Reopening(h) ==
  \/ \E g \in Gens : ResumeHistorical(h, g) \/ ResumeRejected(h, g) \/ Resumed(h, g)
  \/ ResumeOverLimit(h) \/ WorkspaceMissing(h)
  \/ RecoverStart(h) \/ RecoverDone(h) \/ RecoverRefused(h)

Releasing(h) == ReleaseTree(h) \/ RecordRelease(h)

Next ==
  \/ \E h \in Handles :
        Launching(h) \/ Calling(h) \/ Reopening(h) \/ Releasing(h)
  \/ \E i \in Inst : Turning(i) \/ ChildWrites(i)
  \/ ParentAbort \/ Dispose \/ Restart

Spec == Init /\ [][Next]_vars

-----------------------------------------------------------------------------
(* Fairness: git, buildChildSession, the model's turns and verifications all *)
(* answer in the end (each has a timeout); callers owe nothing.              *)
Fairness ==
  /\ \A h \in Handles :
       /\ WF_vars(ReleaseTree(h)) /\ WF_vars(RecordRelease(h))
       /\ WF_vars(PrepareDone(h) \/ LaunchRejected(h))
       /\ WF_vars(Launched(h) \/ LaunchOrphaned(h))
       /\ \A g \in Gens : WF_vars(Resumed(h, g) \/ ResumeRejected(h, g))
  /\ \A i \in Inst : WF_vars(Turning(i))

FairSpec == Spec /\ Fairness

-----------------------------------------------------------------------------
(* Safety. *)

\* Admission (admitChildRun, releaseChildRunSlot): launches, resumes and
\* settlements in any order never hold more slots than maxConcurrentChildren.
SlotsWithinLimit == Cardinality(slots) <= Limit

\* Write ownership (claimWorkspace): no two runs ever hold overlapping claims,
\* those still preparing a worktree or cleaning up a failed launch included.
ClaimsDisjoint ==
  \A h, o \in Handles : h # o => ~Overlapping(claims[h], claims[o])

\* The registry's slot leaks nowhere: whoever holds one is being launched, is
\* being rebuilt, or is open and has not recorded a settlement yet.
NoSlotLeaked ==
  \A h \in slots :
    \/ spawn[h] \in {"preparing", "building"} \/ rebuild[h] # {}
    \/ Open(h) /\ entry[Cur(h)].latest = "none"

\* The launch, or the resume, of an open run has not settled.
Unsettled(h) ==
  Open(h) /\ (child[Cur(h)].run \notin {"none", "done"} \/ child[Cur(h)].reattach)

\* An admitted run keeps its slot and its write claim until its launch or
\* resume settles: no other run's refusal, failure or cleanup takes them away.
UnsettledRunKeepsHolds ==
  \A h \in Handles : Unsettled(h) => h \in slots /\ claims[h] = Owned[h]

\* "Parallel writers cannot claim overlapping paths": two open runs with turns
\* in flight never own overlapping paths.
WritersDisjoint ==
  \A h, o \in Handles :
    /\ h # o /\ Open(h) /\ Open(o) /\ InFlight(Cur(h)) /\ InFlight(Cur(o))
    => ~Overlapping(Owned[h], Owned[o])

\* requireVerifiedTurn: an open run that rests on a completed settlement has
\* passed its verification since its last turn.
SuccessIsVerified ==
  \A h \in Verifying :
    Open(h) /\ ~Busy(Cur(h)) /\ entry[Cur(h)].latest = "completed"
      => child[Cur(h)].verified

\* restore(): a record that says running has a session in this process.
RunningRecordIsLive ==
  \A h \in Handles : ~disposed /\ live[h] = 0 => rec[h].status # "running"

\* Attempt epochs: of a run's persisted attempts only the last is ever open.
OnlyLastAttemptOpen ==
  \A h \in Handles : \A n \in 1 .. Len(log[h].attempts) :
    n < Len(log[h].attempts) => log[h].attempts[n].ended

\* "A closed run's terminal status is never overwritten by late settlement",
\* nor by a restart, a resume or a wait.
ClosedIsFinal ==
  [][\A h \in Handles : log[h].status = "closed" => log'[h].status = "closed"]_log

\* An attempt that ended is history: no later save rewrites or drops it.
EndedAttemptsAreFinal ==
  [][\A h \in Handles : \A n \in 1 .. Len(log[h].attempts) :
       log[h].attempts[n].ended =>
         /\ n <= Len(log'[h].attempts)
         /\ log'[h].attempts[n] = log[h].attempts[n]]_log

\* A worktree with uncommitted work outlives every close, dispose, failed
\* launch and restart.
DirtyStays == \A h \in Handles : tree[h] = "dirty" => tree'[h] = "dirty"
DirtyTreeKept == [][DirtyStays]_tree

\* Workspace states: a record that says released, or missing, never stands
\* beside a worktree that still exists.
GoneMeansGone ==
  \A h \in Handles : log[h].ws \in {"released", "missing"} => tree[h] = "absent"

\* Idempotent spawn: a key that reached a handle keeps reaching one, across
\* restarts too.
KeysSurvive == [][\A k \in Keys : keys[k] # {} => keys'[k] # {}]_keys

-----------------------------------------------------------------------------
(* Liveness under FairSpec. *)

\* An admitted run gives its slot back.
SlotsDrain == \A h \in Handles : h \in slots ~> h \notin slots

\* A foreground call gets its answer.
ForegroundReturns == \A h \in Handles : h \in foreground ~> h \notin foreground

\* A failed launch gives its write claim back, although it waits for git.
CleanupEnds == \A h \in Handles : spawn[h] = "cleanup" ~> claims[h] = {}

-----------------------------------------------------------------------------
(* What the repository's documents say of the registry and its code does not *)
(* do (README, "Findings").                                                  *)

\* "An admitted run holds one slot until terminal settlement."
ActiveLaunchHoldsSlot ==
  \A h \in Handles :
    Open(h) /\ child[Cur(h)].run \in {"turn", "fix"} => h \in slots
=============================================================================
