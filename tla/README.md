# Verification of apex-code

TLA+ modules, TLC configurations and TLAPS proofs for the coding agent in
`src/`. The reference is the source; documents are quoted only where the code
is compared with what they say. `SPEC` below stands for
`docs/specs/2026-09-09-run-and-child-session-architecture.md`, `runtime.ts` for
`packages/coding-agent/src/core/delegation/runtime.ts`, `sdk.ts` and
`agent-session.ts`, `session-manager.ts` for the files of that name in `core/`,
`agent.ts` and `agent-loop.ts` for those in `packages/agent/src/`.

## The system

A coding-agent session runs a model in a loop of provider requests and tool
calls. It may delegate: a tool call launches a *child run*, a session of its
own, possibly in a git worktree of its own, which the parent waits for
(foreground) or leaves running (background), sends input to, interrupts,
resumes (in this process or after a restart), recovers and closes.

| Part | State | Operations | What makes it correct | Module |
|---|---|---|---|---|
| Child run registry, `runtime.ts` | entries, records, slots, write claims, idempotency keys, foreground handles, tracked and released worktrees, disposed | `runDelegation`, `wait`, `sendInput`, `interrupt`, `interruptForeground`, `beginResumeAttempt`, `resumeHistorical`, `recoverWorkspace`, `close`, `dispose`, `restore` | concurrency cap, disjoint write claims, nothing leaked by a failure, closed is final, attempt history immutable, records true after a crash | `ChildRuns` |
| Child session handle, `sdk.ts` `buildChildSession` | status, turn in flight, last result, verification status | `run`, `sendInput`, `interrupt`, `close`, `requireVerifiedTurn` | no success without verification, every run ends | `ChildRuns` |
| Worktree owner, `core/workspace/git-worktree-owner.ts` | directories on disk | `prepare`, `release`, `verify` | uncommitted work is never destroyed; records agree with the disk | `ChildRuns` |
| Run budgets, `packages/agent/src/run-budget.ts` | request, tool-call and maintenance counters, start time | the gates, the composite's gates, `usage` | no run and no tree passes its ceiling, whoever resumes or interleaves | `RunBudget` |
| Agent and agent loop, `agent.ts`, `agent-loop.ts` | transcript, steering and follow-up queues, the active run and its abort signal, the tool calls of the turn | `prompt`, `continue`, `steer`, `followUp`, `abort`, the loop's polls, turns and tool batches | a transcript a provider accepts, queues that neither lose nor double, no request without input | `AgentLoop` (budgets: `RunBudget`) |
| Agent session, `agent-session.ts` | the prompt in progress, the queue display, custom messages held back, retry and recovery marks, deferred work | `prompt`, `steer`, `followUp`, `sendCustomMessage`, `clearQueue`, `abort`, post-run handling, settlement | abort reaches whatever is under way, what is queued is delivered, every run settles, the display is true | `AgentSession` |
| Command journal, `core/durable-state` | SQLite rows of background commands, each with the identity of the process that owns it | `begin`, `finish`, `fail`, `recoverOrphanedCommands`, `ownerIsAlive` | nothing runs unrecorded; a command reaches one true final state although processes die, race and reuse pids | `CommandJournal` |
| Background shell, `core/tools/background-shell.ts`, the background branch of `bash.ts` | tracked children, killed marks | `launch`, `kill`, `dispose`, exit handling | a child's end is recorded once; no child outlives its session | `CommandJournal` |
| Session leases, `core/session-lease.ts` | one file per process | publish, read live, release | two writers of one session see each other | planned |
| Session manager, `session-manager.ts` | entry tree, leaf, labels, one JSONL file per session | the appends, `branch`, `branchWithSummary`, `newSession`, `open`, `forkFrom`, `createBranchedSession` | a session opened again is the one written; an extracted branch shows the model the same | `SessionFile` |
| Credential pool and failover | cooldowns, rotation | pick, report failure | an exhausted key rests, a good one is found | planned |
| Verification lifecycle | status, generation | request, mark stale | a result never outlives the files it checked | its verdict only |
| Session server, client, protocol | connections, requests in flight | open, request, event, reconnect | one answer per request, ordered events | planned |

Not modelled and not planned: permissions and sandboxing (decision procedures
over command text), providers (`ai`, data conversion), the terminal UI,
telemetry, checkpoints (mostly git's own behaviour), MCP and LSP adapters,
the `durable` package (a storage engine the parts above do not use), `chord`, the
agent package's `harness` (a second runtime, which the coding agent's session does not
run on).

How the parts interact: a session calls its agent (`prompt`, `continue`, the queues) and
hears of everything the agent does through events it awaits (`_handleAgentEvent`), which
record messages in the session manager, keep the display and note failures; when a run
is over it decides whether to retry, compact, continue or settle. The parent session owns one registry and hands it to
its tools. `runDelegation` calls the worktree owner, then `buildChildSession`,
then registers the handle; the child's settlement comes back through promise
callbacks (`recordCompletion`, `recordFailure`), which write a `child_run` entry
into the parent's session file. After a restart the constructor reads these
entries back (`restore`). A parent abort reaches the registry through
`interruptForeground` and the tool call's signal. Parent and children consume
one aggregate budget controller, each child behind its own. The bash tool writes
a row in the sidecar before it spawns a background command and hands the child to
the session's registry, whose exit handler finishes the row; the sidecar is shared
by every coding-agent process that has this agent directory, and each of them, at
session start, declares the rows of lost processes interrupted.

What is hard: a session is busy for a long chain of awaits (events, a backoff, a
compaction, extension handlers) and anyone may queue, clear, send or abort at each, most
of them when no agent run is active. Every operation of the registry is a stretch of JavaScript between
two awaits (git, session construction, a turn, a verification), so callers,
settlements, git's answers, aborts, disposal and crashes interleave at each
await; and what survives a crash is the last record written. Processes that share
the sidecar interleave between two SQL statements, and know each other by a pid,
which the system hands out again.

## Modules

| Module | What it is |
|---|---|
| `AgentLoop` | one agent: queues, run, turns and tool batches, as actions a session composes |
| `AgentSession` | the session around it (EXTENDS `AgentLoop`); properties and changed forms |
| `MCAgentSession` | names for TLC |
| `AgentSessionProofs` | proofs of all of its invariants |
| `SessionLog` | what the session file promises its reader: an abstract append-only log |
| `SessionFile` | entry tree, leaf and JSONL files with failing writes; the refinement to `SessionLog`, changed forms |
| `MCSessionFile` | small instances for TLC |
| `SessionFileProofs` | proofs of its invariant, of what no write takes back and of the refinement |
| `ChildRuns` | registry, child handle and worktree owner as one state machine; properties and changed forms |
| `MCChildRuns` | small instances for TLC |
| `ChildRunsTypes` | proof of the type invariant |
| `ChildRunsSlots` | proof that no slot leaks |
| `ChildRunsRecords` | proofs of what the records say: live runs, attempts, keys, verified successes, closed runs |
| `ChildRunsProofs` | proofs of the slot bound, the claims and the worktrees |
| `RunBudget` | a tree of agents under its budget controllers; properties and changed forms |
| `MCRunBudget` | small policies for TLC |
| `RunBudgetProofs` | proofs of its invariants |
| `CommandLife` | what the journal promises its reader: an abstract specification of commands, owners and their loss |
| `CommandJournal` | processes, hosts, the sidecar's rows, recorder, recovery and background registry; its properties, the refinement to `CommandLife`, changed forms |
| `MCCommandJournal` | symmetry for TLC |
| `CommandJournalProofs` | proofs of its types, its invariants and the refinement |

Operators marked "a changed form" or "mutant" are the code with a plausible mistake in it.
They are used by nothing; each shows, put in place of the operator it changes,
that some property notices.

### ChildRuns

One step is one stretch of code between two awaits. A handle `h` is one
`runDelegation` request; `<<h, g>>` is one child session built for it in this
process (`g > 1` only when two historical resumes of one handle overlap; the runs build
one, the theorems hold for any number).

| Variable | Code |
|---|---|
| `slots`, `claims`, `keys`, `foreground` | `heldRunSlots`, `workspaceClaims`, `idempotencyKeys`, `foregroundHandles` |
| `live`, `entry` | `entries`: which instance an id maps to, and the entry's latest result, attempts, cancellation and closed flag |
| `child` | the handle: status, last turn result, where `run()` and a `sendInput()` chain are |
| `rec`, `log` | `records` in memory, and the last `child_run` entry of the session file |
| `owner`, `tracked`, `freed`, `freeing`, `tree` | `workspaceOwner`, `trackedWorkspaces`, `releasedWorkspaces`, the progress of `releaseWorkspaceOnce`, the directory on disk |
| `spawn`, `rebuild`, `recov`, `aborted` | the local state of calls that await: `runDelegation`, `resumeHistorical`, `recoverWorkspace` (with the record object it holds), a signal that fired during a launch |

Each action is one handler or one continuation: `Spawn` is `runDelegation` up to
its first await, `PrepareDone` and `Launched` what follows git and
`buildChildSession`, `LaunchRejected`, `LaunchOrphaned` and `SpawnOverLimit`
its catch; `RunTurnEnds`, `RunVerified`, `RunRechecked`, `RunExpires` are
the awaits of `run()`; `InputTurnEnds`, `InputVerified` those of
`sendInput()`; `ReleaseTree` and `RecordRelease` git's answer to a release and the
callback that records it. `Restart` is a crash at any point: memory is lost,
the session file and the worktrees stay, and `restore` runs. Every save
(`Save`) replaces the in-memory record, which is why a recovery holding
the old object goes stale (`Detach`).

Abstractions:

- a request's choices (paths, isolation, foreground, agent type, key) are
  constants per handle; a refusal for a known key or an overlapping path changes
  nothing and is a guard;
- `persist` (an append to the session file) is taken to succeed and to be
  durable once it returns;
- microtasks between a settled promise and its handler are one step with it;
- usage totals, artifact directories, task text and the policy snapshot are
  left out; the two retained outcomes (dirty, failed) are one;
- a verification answers passed or failed; a turn completed, aborted or in error;
- one `sendInput` chain per session at a time beside the launch;
- a `git worktree add` cut short by a crash leaves no directory;
- `EagerInput` and `ConcurrentResume` say how disciplined callers are: whether
  they send input before a run settled, whether they resume a handle twice at once.
  `Recovered` names the handles whose recovery is ever asked for.

### AgentLoop and AgentSession

`AgentLoop` has the agent's actions and leaves the events they emit to the session:
`AgentSession` composes each with what `_handleAgentEvent` does on hearing of it
(`Heard`). A step runs from one await to the next that something else can use.

| Variable | Code |
|---|---|
| `pc`, `aborted`, `spent` | where `runLoop` is, its abort signal, whether the budget gate has refused |
| `steer`, `follow`, `pend` | `steeringQueue`, `followUpQueue`, the loop's `pendingMessages` |
| `ctx`, `omitted` | the messages recorded, and those a context edit omits from what the model sees |
| `batch` | the tool calls of the last message and how far each is |
| `sc`, `front` | what the session does between `_runAgentPrompt`'s awaits, and the `prompt()` call in progress |
| `stopReq`, `waiting` | `_agentRunAbortRequested`, a caller of `abort()` that waits |
| `mirror`, `customs`, `nextTurn`, `deferred` | the texts shown as queued, `_pendingCustomMessages`, `_pendingNextTurnMessages`, `_deferredSettledActions` |
| `retry`, `tried`, `midRun`, `last` | `_retryAttempt`, `_overflowRecoveryAttempted`, `_midRunCompactionNeeded`, `_lastAssistantMessage` |

| Actions | Code |
|---|---|
| `StartPrompt`, `Continue`, `EndRun`, `RunFails`, `RunBreaks` | `Agent.prompt`, `continue`, `runWithLifecycle`, `handleRunFailure`, `finishRun` |
| `Deliver`, `FirstPoll`, `Prepared`, `OutOfBudget`, `Answer`, `Refuse` | a turn of `runLoop`: queued messages recorded, the two polls, the budget gate, the answer |
| `PrepareCall`, `CutBatch`, `FinishCall`, `CollectResults` | `executeToolCallsSequential` and `executeToolCallsParallel` |
| `FinishTurn`, `TurnEnd`, `FailedTurnEnd` | the end of a turn: handlers, `turn_end`, the stop for compaction, repeated failures, follow-ups, continuation |
| `Prompt`, `StartRun`, `PreflightRefused`, `PromptReturns` | `prompt()` and its preflight |
| `QueueSteer`, `QueueFollowUp`, `Custom*`, `ClearQueue`, `Abort` | the other calls from outside |
| `PostMidRun`, `PostRetry`, `PostCompact`, `BackoffEnds`, `CompactionEnds`, `BeforeSettle` | `_handlePostAgentRun`, `_prepareRetry`, `_checkCompaction`, `_runAutoCompaction`, `_runBeforeSettleBoundary` |
| `Settle`, `SettledEnds`, `DeferredStarts` | the `finally` of `_runAgentPrompt` and `_emitAgentSettled` |

Abstractions: a message is a name; an answer is its number of calls and its stop
reason, `error` split into what post-run handling tells apart (retryable, overflow,
other); a compaction is the await it is, its effect on the transcript is in
`SessionFile`; whether the context is over the threshold, a handler asks for a
continuation, failures are identical or the budget is exhausted is left open. A call ends well
or failed, and either way with a request to stop the run or without (`Hows`): a tool, the hook that
blocks a call and the hook after it may each set `terminate`. The calls of
a failed or aborted message, which never run, are not counted. Left out: system
messages that declare tools, what `prepareNextTurn` and `prepareRequest` change,
compaction in the preflight, the completion condition and the verification
boundary, bash messages, manual compaction.

Environment: nobody calls in during the stretches `post` and `finish`, which
are microtasks; no extension sends a message with `triggerTurn` while a prompt is in its
preflight (the code would start two runs); at most one action is deferred per
settlement; an exception in the loop comes between tool executions, not during one.

### SessionFile and SessionLog

`entries`, `leaf`, `labels`, `flushed` are the fields of `SessionManager`; `disk` is
what each file holds: the lines that parse, whether there are others, and the
shape of its tail. `Persist` is
`_persist`: nothing before the first answer, then everything at once into a file
that must not exist, then a line per entry. A write may be refused or stop before a
line, inside it or before its newline; the exception leaves memory ahead of the
file (`Thrown`). A crash is any `Open`, of any file, at any point: memory is
replaced by what the file brings back. `SessionLog` says what is promised: memory
grows an entry at a time, and opened again a session is all of it, or nothing if there
was no answer yet, unless a write to that file has failed.

`OnPath`, `ContextEntries`, `Projection` are `buildSessionPath`, `buildContextEntries`
and `buildSessionProjection`; `Extract` is `createBranchedSession`. Abstractions: ids
are numbers in creation order (generated ids are taken to be unique); entries that
never reach the model, system messages, thinking levels and the in-memory mode are
left out; a rewrite fails as a whole, because it goes through a temporary file.

Files of format version 1 have entries without ids and parents (`old`, `Aged`). `Open`
gives them ids and a chain of parents (`Migrated`, `migrateV1ToV2`) and rewrites the
file. `Fork` migrates nothing, as `forkFrom`: it copies what the source holds under a
header of the current version, so a fork of a file that was never opened has entries
without ids for good; `raw` records such forks and forks of them. An id, parent or
reference that is not there is 0 in the model, like null. The code tells undefined from null in
one place, `buildSessionPath`: with an undefined leaf, as such a fork has until something is
appended, it falls back to the last entry, where the model's path is empty (as
`getBranch`'s is). No property looks at that path. Left out: the role that version 3
renamed, and the index a compaction of version 1 keeps from, so the old file of the run has
a text and an answer.

### RunBudget

`own[a]` is agent `a`'s controller, `shared` the tree's aggregate; `phase` is
where the loop is (asking for a request, streaming, in a tool batch). The composite
decides by reading the clock once and records by reading it again: `drift` is what
passes in between. `sent`, `ran` and `scope` count what the gates let through and
are no part of the code; the properties compare them with the counters. Every agent
has the same own policy (children inherit it, sdk.ts:350) and the aggregate is configured.
Streaming and tool execution are left to the loop's own nondeterminism:
a response may bring calls or not, a batch may end at any time.

### CommandJournal

A process `p` runs on `host[p]` under `pid[p]`, started in boot `born[p]`; `stage[p]`
is how far its session start got. `row` and `owner` are the sidecar. `node:sqlite` is
synchronous, so a process inside a store operation (`cur[p]`) does nothing else,
while others do.

| Actions | Code |
|---|---|
| `RecoverLock`, `Judge`, `ReadToken`, `RecoverCommit`, `RecoverFails` | `recoverOrphans` at session start: `BEGIN IMMEDIATE` and the SELECT; `ownerIsAlive` for each row, in two steps where the pid is live and the start token decides; the UPDATEs and COMMIT; any of these throwing, after which the session starts all the same |
| `Begin`, `Check`, `Write`, `Throws` | `begin`'s insert; `transitionCommand`'s SELECT with its check, and its UPDATE, for `begin`, `finish` and `fail` alike; a throw from either |
| `Launched`, `LaunchFails`, `BeginFails` | what follows `spawnBackground` and `beginJournal` in the bash tool |
| `ExitNoticed`, `Kill`, `Dispose` | the registry's exit handler, `kill`, `dispose` |
| `Start`, `Die`, `Reboot`, `CommandExits` | the operating systems |

`UPDATE` does not repeat the check of its SELECT; `lock` keeps every writer out between
a recovery's SELECT and its COMMIT, and nothing else is locked. `owed` is no part of
the code: it holds the rows that were lost when the recovery under way read the journal.
`Foreign` processes belong to other users or programs: they hold a pid, and signalling
one answers EPERM, which the code counts as alive.

Abstractions: session ids, command text, outputs and timestamps; rows of before the
owner columns existed; a session replaced by another in one process (its registry is
another one, the owner columns are the process's); the migration of the schema;
leases and usage samples, which are other tables; daemon entry points that nothing calls.
Hostnames are taken to be distinct per machine, and a statement that threw to have
written nothing. A start token is read as whether the holder of the pid is the
process that wrote the row.

## Runs

Deadlock is not checked: a run may be over, closed or disposed with nothing left
to do.

| Run | Instance | Question |
|---|---|---|
| `ChildRuns_admission` | three runs, two wanting path p, one q, one slot | slots within the limit, claims disjoint, nothing leaked, an unsettled run keeps both, no two writers of a path |
| `ChildRuns_lifecycle` | one foreground, verified, keyed run; three attempts, two restarts, eager input | types; what records and attempts may say; success is verified; closed is final; ended attempts never change; keys survive |
| `ChildRuns_recovery` | one worktree run, two attempts, two restarts, recovery asked for, a second resume while the first builds | a record that says gone means gone; dirty trees survive every step |
| `ChildRuns_liveness` | one isolated, foreground, verified run, one restart, fairness | slots drain, foreground calls answer, failed launches give their claim back |
| `RunBudget_tree` | a root and a session-scoped child, limits 2/3/2 and 3/3/3, clock to 3, drift 1 | types, both ceilings, exact aggregate |
| `CommandJournal_life` | two processes on a Linux host and one without /proc, two commands, two pids, one reboot of each host | types, live commands on record, no stale check, no lost row missed, the journal implements `CommandLife` |
| `AgentSession_life` | two texts, one custom message, two calls a message, one retry, four events, one at a time, fairness | types; a valid transcript; each message in one place; a true display; one queued message a turn; one overflow recovery; no request without input; an abort holds; runs settle and queued texts are delivered |
| `SessionFile_tree` | three files, one of them of version 1, four entries, two of them neither answers nor summaries, one failing write, one move of the leaf | the tree is whole; the file implements `SessionLog`; nothing saved is lost; an extracted branch shows the model the same |
| `ChildRuns_f_slot`, `CommandJournal_f_dispose`, `AgentSession_f_continue`, `AgentSession_f_budget` | see Findings | each refutes one quoted statement |

Bounds. Two runs are enough for every conflict between two, the third lets a
slot be contended while another is held; `Overlaps` is equality of two paths,
the proofs cover any symmetric relation. `MaxAttempts` and `MaxRestarts` of two or
three let an attempt's predecessor have a predecessor, and a restart follow a
resume after a restart. Budget limits of two and three put the request and
the tool limit at different points, and `MaxUse` exceeds both. Two processes are a
process and the one that finds its rows, on the same host or not, with the same
pid or not, before a reboot or after; a third would be a second recovery, which the
lock keeps apart from the first. Two commands let a recovery judge one row while
the other changes, and a process own both. The run has no `Foreign` process: one adds
only the EPERM answer, which the proofs cover.

In `AgentSession` one bound, `MaxEvents`, is shared by calls from outside, tool calls,
failures and continuations, so four of any mixture happen: a prompt, a steering
text, a custom message and an abort; a prompt with two calls and a failure; an
overflow, its retry and another overflow. `RepeatLimit` is two, the code's three scaled
to the calls there are. In `SessionFile` four entries hold a text, an answer, a label and a
compaction that keeps from it, the smallest tree extraction can get wrong, or two
migrated entries and two more. A session and the old file leave one file for a fork, a new
session or an extraction. `MaxOthers` holds texts, compactions, labels and edits to two a session;
answers and summaries fill the rest.
`replace` edits differ from `omit` in the projection only, and an entry that removes a label
from one that sets it in `labels` only; neither is in the run. The theorems cover both;
what an extraction shows of them is not checked.

`WritersDisjoint` is checked without restarts: after a failed historical resume the
code does not keep it (below). `SuccessIsVerified` speaks of an open run with
nothing in flight.

Fairness (`FairSpec` of `ChildRuns`): git's answers, `buildChildSession`, turns and verifications
happen in the end, each weakly fair. git runs under a timeout
(git-worktree-owner.ts:84), a turn ends by the provider's answer, an abort or the
budget's wall limit, the build and a verification are local work that answers or
throws. Callers owe nothing: no `wait`, `close` or `resume` is fair, and no liveness
property needs one.

`FairSpec` of `AgentSession` is weak fairness of `Program`, what the process does
by itself: the provider answers or its request times out, tools and extension handlers
return, a backoff's timer fires, a compaction ends. Nothing outside is fair. `RunSettles` and
`QueuedIsDelivered` except an exhausted budget (`spent`), with which the code may
not settle (Findings).

## Proofs

All theorems are for arbitrary sets of handles, paths, keys, agents, processes,
commands, hosts, pids and messages, arbitrary policies and bounds, from the named ASSUMEs
of the components (TLC evaluates these in every run). Four theorems of `ChildRuns` have a
hypothesis more, where the code keeps its promise to some callers only: each is met by the
run that checks the property, and Findings and Divergences say what happens without it.

- `ChildRunsTypes!RegistryTypes`: `Spec => []TypeOK`. TypeOK is inductive by
  itself; one lemma per group of actions, because records are built from entries
  and entries from records.
- `ChildRunsProofs!AdmissionBound` and `ClaimsNeverOverlap`. `HoldsInv` says
  slots stay a subset of the handles within the limit and claims stay subsets of
  what each run owns and pairwise disjoint. Every action but `Spawn` and
  `ResumeHistorical` only shrinks both; those two add one slot under `SlotFree` (the
  cardinality step needs the finiteness of `Handles`) and one claim under `ClaimFree`
  (the disjointness step needs the symmetry of `Overlaps`). The bound holds under
  concurrent resumes too, the disciplined caller is not needed.
- `ChildRunsProofs!UncommittedWorkSurvives`: `Spec => DirtyTreeKept`. `PristineInv`
  says a run whose worktree was not prepared yet has none; without it `PrepareDone`
  could write a clean tree over a dirty one.
- `ChildRunsSlots!NoSlotEverLeaks`: `Spec => []NoSlotLeaked`. `SlotInv` adds to the
  types that an id whose launch is under way is known to nothing else
  (`EarlyIsUnknown`: no resume or recovery can reach it), that an instance being
  rebuilt has no turns and an unsettled, unclosed entry (`RebuildIsFresh`: when
  `Resumed` opens it, it may hold a slot), and that only a built session has turns
  (`ActiveIsBuilt`: `ResumeHistorical` picks one that was never built). Turns and calls
  on one session are `Local`, the other steps are `Aside` for every run but one,
  so each proof looks at one run.
- `ChildRunsRecords!RunningMeansLive`, `EarlierAttemptsAreClosed`: `RecordsInv` adds to
  `SlotInv` what a record in memory, in the file and in a recovery's hand have in common,
  for each run: attempts that are `Tidy`, an entry's attempts no shorter than those on
  record, an open last attempt while the run goes on. `KeysAlwaysSurvive` follows from it
  and `KeysAreKnown`: a key's run has a record, which `restore` reads back.
- `ChildRunsRecords!SuccessRestsOnVerification`: `RestsVerified` says of every instance,
  open or not, where `run()` and an input chain stand between a turn, its
  verification and the settlement that reports it.
- `ChildRunsRecords!ClosedRunsStayClosed`, `EndedAttemptsStay`, for callers with
  `~ConcurrentResume` and `Recovered = {}`. `PastInv` says that an entry's attempts extend those
  on record. A recovery may persist the record it read before a close
  (runtime.ts:966), and of two sessions built for one run the second knows nothing of the first
  (runtime.ts:774).
- `ChildRunsProofs!GoneWorktreesAreGone`: `TreesInv` ties each release under way and each
  recovery's verdict to the directory, and says nothing but a launch's `PrepareDone`, once per
  run, makes one (`HandsKnown`, `GoneInv`).
- `ChildRunsProofs!UnsettledRunsKeepTheirHolds`, for callers with `~EagerInput` and
  `~ConcurrentResume`: `HoldsKept` adds to `SlotInv` that an instance with a launch, a resume or a
  reattachment under way holds both. Without the first hypothesis finding 1 happens, without the
  second runtime.ts:867.
- `ChildRunsProofs!WritersStayApart`, for `MaxRestarts = 0`, one process's life: `OwnersInv` says
  an open run holds its whole claim, so `ClaimsDisjoint` keeps writers apart. After a restart a
  failed resume drops its claim and stays open (runtime.ts:869).
- `RunBudgetProofs!BudgetTypes`, `AggregateReportsTheTree`,
  `TreeStaysWithinAggregate`, `RunStaysWithinPolicy`. The ceilings are not inductive
  alone: `BudgetInv` adds that the aggregate's counters equal what was let through,
  that they are within the shared policy (`SharedWithin`), and that an agent's own
  counters cover its scope and are within its policy (`OwnCovers`). "Cover" and not
  "equal": a refused tool call may be counted (Divergences).
- `CommandJournalProofs!JournalTypes`, `LiveCommandsStayRunning`, `ChecksStayTrue`. The
  invariant is `JournalInv`. `WorldInv`: a live process was born in its host's present
  boot, so the boot ids of two live processes of one host agree. `RecoveryInv`: what the lock's
  holder has read is still unfinished, and every doomed row's owner is dead.
  `JudgedGone` and `ReusedGone` carry the weight: a live owner holds its own pid, so a
  verdict of gone means a dead one, and the dead stay dead. `OpInv` and `JobInv` tie
  an operation under way to its job and the row its owner left, as long as that owner
  lives.
- `JournalKeepsItsPromise`: `Spec => Promise`, that `CommandJournal` implements
  `CommandLife`. Under the mapping (`Journal` forgets whether an unfinished row says created or
  running, `Gone` is the dead), `Begin` is `Record`, `Launched` is `Start`, `Write` is
  `Complete`, `Fail` or a stutter by its target, `RecoverCommit` is
  `Interrupt(doomed)`, `Die`, `Reboot` and `CommandExits` are `World`, the rest stutter.
- `NoLostRowIsMissed`: `Spec => RecoveryMissesNone`. `OwedInv` follows each owed row
  through `todo`, `probe` and `doomed`; a row that leaves them was judged by a pid
  another process holds, or held (`Excused`). `UnbornInv` says a process that never
  started has no host and pid, so it holds none.

- `AgentSessionProofs!AbortHoldsAlways`: `Spec => []AbortHolds`. `StopInv` adds that the
  agent has a run whenever the session is in `run`, and that no stop request
  is pending in `post`, the one place from which a run starts without looking at it
  again: `LoopKeeps` shows no loop step gives an aborted run a fresh signal, `GoOnKeeps`
  that `agent.continue()` is reached with no stop request only.

- `SessionTypesHold`: `Spec => []TypeOK`. `TypeInv` adds the shape of a tool batch by where
  the loop is (`BatchInv`: which calls wait, are ready, run, have ended), that a turn has
  its answer, and that an answer post-run handling looks at exists; the repeated
  failures of a turn and the results of a batch are counted from these.
- `TranscriptAlwaysValid`. `OpenInv`: while calls are worked on, the last answer is followed by
  exactly the results recorded so far and nothing else. `ResultsAnswer` and `AnsweredInv`
  carry that to every earlier answer: a call without a result is one an abort cut, or an
  exception, and a prompt comes after it.
- `OverflowsRetriedOnce`. `RecoverInv`: an omitted truncated answer with no reset after it is
  remembered (`tried`); `FlakyInv`: a retry omits an answer of another kind.
- `OneMessageAtATime`. A queued message is `Fresh` until an answer follows it; `OneInv` says
  that at no point of a turn are there two, pending ones counted, and `FreshInv` that a
  poll is reached only where there is none of its kind.
- `MessagesInOnePlace` and `DisplayStaysTrue` share `QueueInv`. Each step `Accounts` for every
  message (it moves between two queues, by position: `Flows`) or `Sends` a new one to one
  place (`Placed`). `DisplayInv` relates each list shown to its queue and to what was drawn
  from it, in order, and every text shown to the texts sent; it needs the places, because a text
  in two places would be taken off the display once.
- `RequestsHaveInput`. `InputInv` says, at each point of the loop, what the next request will
  rest on: pending messages, a context that does not end with an answer, or, for a handler's
  continuation, custom messages and queues that come first. A message that was the
  input and is gone stays gone (`LostStays`).

Two statements were corrected because their proofs failed for a reason: `OverflowRetriedOnce` once
asked for a reset between the two cut-off answers (false with six events: a text delivered after the
second answer, in a run that then ends out of budget, comes before its recovery), and
`OneQueuedPerTurn` forgot runs that ended out of budget or by an exception before their prompt
was recorded. Both were violated just beyond the bounds of the run.

- `SessionFileProofs!TreeIsSound`, `NothingSavedIsLost` and `FileKeepsItsPromise`
  (`Spec => []TypeOK`, `SavedIsNeverLost`, `Promise`) share `FileInv`. Of every file, `FileOK`:
  what it loads is a tree of entries made so far; a file not made, or not named yet, is
  `Missing`; one that no failed write has touched is whole, with a header and a clean tail.
  Of the session, `Synced`: while its file is sound, a flushed session is what the file loads, and
  one that is not flushed has neither a file nor an answer. `Synced` makes a parent appended to the
  file one the file has. `Named` keeps entries without ids to old files and the forks in `raw`,
  and `Rising` says that ids grow in every file, with at most a stretch of entries without ids
  in such a fork; `MigratedTree` is the lemma that a migration makes a tree of a file, `SaidPrefix` that
  it drops nothing. `PutLoads` and `BegunLoads` say what one write, however it ends, does
  to what is loaded. Under the mapping an append is `Write`; `Open` and `OpenMissing` of the present
  file are `Restart`, of another `Switch`, as are `NewSession`, `Extract` and `Fork`; a move of the
  leaf and a failed fork or rewrite stutter. That a refused rewrite stutters needs the
  invariant too: a sound file of the present session is never old or headless.

Only model-checked: `ExtractionKeepsContext`, because how `OnPath` climbs is a recursion and an
induction over data is out of the prover's reach, and all liveness, which is too. Where
`SessionFile` picks entries from a sequence it says which places (`Picked`, `InOrder`), because
nothing can be proved of the recursive `SelectSeq` here. No module of the project uses a
recursive operator.

## Findings

Statements of the repository that its code does not keep, each refuted by a run:

1. `ChildRuns_f_slot`, SPEC:451-452, "An admitted run holds one slot until terminal
   settlement". Input to a running launch is queued (sdk.ts:916) and its promise
   resolves at once; runtime.ts:1568-1570 records that as a completion and 1182
   releases the slot while the launch still runs.
2. `CommandJournal_f_dispose`, background-shell.ts:9-11, "`dispose` kills everything
   still running so no child outlives the session that launched it" (also
   agent-session.ts:1947-1948). A launch that is inside `spawnBackground`'s await
   (bash.ts:360) when the session is disposed spawns afterwards and registers
   with the disposed registry, which nobody disposes again.
3. `AgentSession_f_continue`, agent.ts:481, "The last message must be a user or
   tool-result message", and agent-session.ts:4158-4159, "do not retry because
   agent.continue() cannot continue from a completed assistant response". An abort during
   a tool turn over the compaction threshold leaves `_midRunCompactionNeeded` set (1225:
   the loop at 2376 then skips the handler that clears it). After the next prompt's
   completed answer 2398 compacts with a retry, and `agent.continue()` throws.
4. `AgentSession_f_budget`, agent-session.ts:2436, "The low-level loop drains both queues
   before agent_end", and docs/json.md:124. At the budget gate (agent-loop.ts:225) it does
   not; with a follow-up queued and a user or tool-result message last, 2411
   continues, the exhausted controller refuses again (agent.ts:488 keeps it), and so on
   until an abort.

### Divergences

Others met while modelling, which follow from the same definitions and have no run
of their own:

- runtime.ts:774: two `resumeHistorical` calls for one id both pass the check before
  either sets the entry, and each builds a session (SPEC:671, "A run ID identifies exactly
  one child lifecycle").
- runtime.ts:1687: `dispose` while git prepares a worktree releases what is not there
  yet; the later launch failure finds it already released, and the tree stays
  (runtime.ts:1796-1797).
- run-budget.ts:107: `exhaustedLimit` names one limit only; an aggregate at its request
  limit hides that its tool limit is reached, the agent's own controller records the
  call and the aggregate refuses it (run-budget.ts:93-95, "stock controllers never do").
- agent-session.ts:2659: a prompt deferred by an `agent_settled` handler runs inside
  the `prompt()` that settles and is refused as already running, unless a trigger had
  started the run (docs/extensions.md:561-565).
- agent-session.ts:3103: `triggerTurn` during the preflight of a prompt starts a run,
  and the prompt another.
- agent-session.ts:3186: a text a poll has drained and not yet delivered is still shown,
  so `clearQueue` gives it back to the editor and the model gets it too.
- agent-session.ts:3218: `abort()` during a prompt's preflight is forgotten when the run
  starts (2372); after an abort queued messages stay queued, where docs/rpc.md:158
  says "continues queued messages when they remain".
- session-manager.ts:1981-1998: a fork of a version 1 file (`--fork`, main.ts:372) copies entries
  without ids under a header of version 3, so `_loadEntries` (1159) never migrates it: `byId` has
  one entry for all of them, and a request carries the last one only, later only what was
  said after the fork (docs/session-format.md:26 and 30, "Existing sessions are automatically
  migrated to the current version (v3) when loaded"). It is why `TypeOK` excepts
  the files in `raw`.
- session-manager.ts:1251: after a first write that failed half way the file exists,
  and every later append of that session throws EEXIST.
- session-manager.ts:1261: a last line whole but for its newline is loaded
  (test/session-manager/file-operations.test.ts), and lost with the next append, which
  runs into it.
- session-manager.ts:1847: an extraction whose rewrite fails leaves `flushed` as it was
  for the new file, so later entries are appended to a file without a header.
- session-manager.ts:1705: a leaf moved by `branch` is memory only; opened again, the
  session stands at its last entry.
- runtime.ts:1564: input to a settled run takes no slot, so more than
  `maxConcurrentChildren` may run (SPEC:448-449).
- runtime.ts:1758 and 1231: the idempotency key is looked up before the awaits of a
  launch and set after them, so two launches with one key may both build (SPEC:569-570).
- runtime.ts:1639 (agent-session.ts:1915): a resume while the child is still stopping
  ends its attempt without an outcome; runtime.ts:832 with 461-468 does so for a
  run whose record still said created when the process died (SPEC:290-292).
- runtime.ts:1557: `pending` is never cleared, so `wait` on a settled run writes
  running over its terminal status (SPEC:277-280).
- sdk.ts:983-985 with runtime.ts:1603: an abort that arrives during verification does
  not stop the repair turn after it (runtime.ts:1595-1598).
- runtime.ts:869 with 1564: a failed historical resume drops its write claim but its
  session stays open to input (SPEC:676).
- runtime.ts:1073: a save after a release drops the workspace state it recorded
  (SPEC:355-357).
- runtime.ts:966: a recovery that awaited git persists the record it read before, even
  if the run was closed meanwhile (runtime.ts:1169).
- runtime.ts:867: a second resume refused at the limit gives back the slot the first
  one of the same run took (SPEC:451-452).
- run-budget.ts:132-140: the composite's `usage` adds the tree's counters to the
  child's (SPEC:294-295).

## Plan

`ChildRuns`, `RunBudget`, `CommandJournal`, `AgentSession` with `AgentLoop`, and
`SessionFile` are done in their first extent. Next, in this order:

1. Proofs: `ExtractionKeepsContext` for a branch without labels, where no recursion is needed;
   what `RunBudget` promises of retries within one scope.
2. `Leases`: the per-process session lease files, which share the process identity of
   `CommandJournal`; start-up reads the live leases and publishes its own later
   (main.ts:777), so two writers of one session may miss each other.
3. Credential pool and failover: rotation and cooldown under failing requests.
4. An abstract `SlotPool` that `ChildRuns` implements.
5. Session server and client: requests and events over a connection that drops.
6. Manual compaction, tree navigation and plan mode, which share the session's flags
   with what is modelled; where a compaction cuts the branch, as a checked operator.
