# TLA+ specifications of the Cline SDK core

This directory specifies the parts of this repository where several activities
share state: the run queue of the automation service, the turns of an
interactive session with its queue of pending prompts, the durable run queue of
the hub, the requests a turn parks on the clients of the hub, and the tasks of
the agenda. Paths below are relative to `src/sdk/packages/core/src/`
unless they start with `apps/` or `packages/`.

    tlc  -config CronRunnerTwo.cfg MCCronRunner.tla     one of the runs
    tlapm CronRunnerProofs.tla                          the proofs of a module

## 1. The system

Everything here is TypeScript on one event loop per process. Nothing takes a
lock in memory; an `await` is the only place where other code goes on. Several
processes meet only in SQLite files and over sockets.

| component | code | state | operations | hard behaviour | correct when |
|---|---|---|---|---|---|
| cron runs | `cron/runner/cron-runner.ts`, `cron/store/sqlite-cron-store.ts`, `cron/runner/cron-materializer.ts` | table `cron_runs` (status, claim token, lease, session); `activeRuns`, timers and one `executeClaim` per claim | enqueue, materialize, claim, renew, attach, complete, cancel, start, stop | two runners on one file, leases and machine sleep, crashes, answers that come after an abort | a run ends once, by whoever holds it; no row and no session is left behind |
| interactive turns | `runtime/host/local-runtime-host.ts`, `runtime/orchestration/session-runtime-orchestrator.ts`, `runtime/turn-queue/pending-prompt-service.ts` | `ActiveSession` (status, aborting, pending prompts, draining), the run of its agent | send, queue, steer, edit, delete, drain, abort, stop, dispose | turns that pass the same check before an await; abort at every stage; teardown that waits for the run it aborts | one run at a time; aborts reach it; nothing queued is stranded or reordered; teardown returns |
| hub run queue | `hub/server/hub-run-queue.ts`, `hub/server/handlers/run-queue-handlers.ts`, `run-handlers.ts` | table `hub_runs`; `activeSessions`, one `drainSession` per session | enqueue, pump, execute, time out, recover, stop | admission racing the end of the executor; death with a run in flight; late turns | admission order per session, no ghost runs, nothing forgotten |
| agenda tasks | `tasks/agenda-task-manager.ts`, `tasks/store/sqlite-task-store.ts` | tasks with revisions and approvals, task runs, `activeRuns`, automation policy | approve, run, cancel, expire, follow the spec file, recover, dispose | edits and cancels while a session starts; two rows per step; a sweep that awaits an abort | an approved revision is what runs; run and task agree; an outcome stays |
| team runtime | `extensions/tools/team/multi-agent.ts` | task board, mailboxes, teammate runs | claim, complete, send, await runs | several agents on one board | a task has one owner, dependencies first |
| approvals, capabilities | `hub/server/handlers/approval-handlers.ts`, `capability-handlers.ts`, `hub/server/hub-server-transport.ts` | pending requests, participants of the sessions | request, respond, cancel, subscribe, disconnect | cancel between request and registration; owner disconnects; events missed | every request is answered once, and clients and agent are told the same |
| discovery, instance lock, daemon | `hub/discovery`, `hub/daemon` | discovery file, SQLite lock, shutdown state | start, retire, shut down | two starts, stale files, shutdown deadline | one serving hub per owner context |
| hub transport, event log, clients | `hub/server/hub-server-transport.ts`, `hub-event-log.ts`, `hub/client`, `hub/runtime-host` | connections, log rows, cursors | subscribe, replay, prune | reconnect and replay | no event lost or seen out of order |
| cron specs, events, services | `cron/specs`, `cron/events`, `cron/service`, `cron/schedule` | `cron_specs`, event log, debounce timers | reconcile, ingest, CRUD | debounce, dedupe of events | spec rows follow the files |
| OAuth tokens | `runtime/orchestration/runtime-oauth-token-manager.ts` | refresh in flight | resolve, refresh | joined refreshes | a forced refresh refreshes |
| agent loop | `packages/agents/src/agent-runtime.ts` | messages of one run | model call, tool calls, abort | abort inside tools | the calls of a message end before the model is asked again |
| the rest | persistence, checkpoints, compaction, MCP, plugins, providers, `apps/cli`, `apps/vscode`, `apps/cline-hub` | files, processes, screens | | | |

How they meet. A client (CLI, VS Code, a connector) calls the hub transport; its
handlers call the session host (`LocalRuntimeHost`), which runs turns on an
agent. The hub run queue is a client of the same host that keeps what it
admitted in a table. The hub also starts `HubScheduleService` and, with
`cronOptions`, a `CronService` (`hub-server-transport.ts:360`, `:446`), each with
a `CronRunner`; a runner opens a session per run through runtime handlers, as the
`AgendaTaskManager` does for a task. A turn that needs an approval, or a tool of
the client that created the session, waits for an answer over the same transport. Which
hazard each line is exposed to is in `PROJECT.json`, under `hazards`, with the
properties that cover it.

## 2. Modules

| module | models |
|---|---|
| `CronRunner` | cron runs: the table and any number of runners |
| `InteractiveTurns` | one session: its turns, its pending prompts, its teardown |
| `HubRunQueue` | the hub's queue over a session host reduced to what it asks of it |
| `HubRequests` | tool calls of a turn that wait for clients of the hub |
| `AgendaTasks` | one task, its runs, its spec file and its manager |
| `RunLedger` | what a durable table of runs promises; the three run tables implement it |
| `MC*` | the instances TLC checks |
| `*Proofs` | theorems about the module of that name |

### CronRunner

Run `r` is the `r`-th row in claim order. The pair `<<r, c>>` of a run and the
serial number of a claim names a claim token and the activation of
`executeClaim` that serves it; `phase` is the await that activation is at:

| phase | in `executeClaim` |
|---|---|
| claimed | the transaction of `claimDueRuns` is open |
| prepare | `buildStartRequest` |
| starting | `startSession` raced against the abort signal |
| sending | `sendSession` raced against it |
| cleanup | `cleanupSession` in `catch` |
| finally | `cleanupSession` in `finally` |
| over / dead | returned / lost with its process |

A tick is three steps per runner, because another process may get at the
database between its statements: `TickRenew` (renew `activeRuns`),
`TickMaterialize` (the rows the schedules owe; `BEGIN IMMEDIATE` — a row that
another runner claims before that is one `Enqueue` inserts), one
`ClaimRun` per round of the claim loop, `TickDispatch` (`COMMIT`, and every
claim begins). While a tick runs, no callback of that runner does (`Free`).
Synchronous code between two awaits is one action. `Complete` is `completeRun`
with its `WHERE claim_token = ?`.

Time: `lease[r]` is what remains of `claim_until_at`, counted down by
`ClockTick`; no runner is obliged to act before it, so a suspended machine is
covered. The clock does not advance inside a tick. A crash inside an open
transaction rolls back and is a crash before it.

Left out: the limit of 25 claims of one transaction, ties in the order,
`SQLITE_BUSY`, report files and their paths, `updateSpec*` timestamps,
telemetry; `requeueRun` (`cron-runner.ts:337-344`), which no state reaches; a spec
that is edited rather than removed.

### InteractiveTurns

One session and a handful of activations: `Clients` are `runTurn` calls (and, in
`Openers`, `startSession` with a prompt), `Drainer` is the turn inside
`drain()`, `Stoppers` are `stopSession` or `dispose`. `phase` again is the await
each is at; `session` variables are fields of `ActiveSession`, `agent` variables
fields of `SessionRuntime` (`running`, `activeRunPromise`, `abortRequested`,
`shutdownCalled`), and `told` says whether the `AgentRuntime` itself was told to
abort. `queueMicrotask(drain)` sets `scheduled`; as microtasks precede every
other event, no client call or I/O answer happens until it has run (`Quiet`).

A pending prompt is known by its text when it is queued (`Enqueued` merges it into
the first entry of that text) and by its id when it is edited or deleted; the id
is modelled as its place in the queue, as nothing comes between the lookup of the id
and the step that uses it. An edit may give two entries the same text.

The end of a turn awaits the status of the session (`markTurnIdle`), which may be
refused. `Completed` is a turn whose end is recorded. `Rejected` is one whose run was
rejected or whose end could not be recorded: it tears the session down, unless the
session is aborting; then the end is recorded once more as that of an abort
(`completeAbortedInteractiveTurn`, phase flushing), and if that is refused too, the
turn leaves the session as it is (`Unrecorded`).

Left out: team runs, the second attempt after a credential refresh,
`notifyPendingUserMessage`, the messages that are persisted, non-interactive sessions,
sessions without artifacts. `reason` is set when the write of the idle status
succeeds or fails, not when it begins.

### HubRunQueue

Run `r` is the `r`-th admitted (`accepted_seq`). Each session has an executor
(`at`, `run`, `reply`: the await of `drainSession`, its run and the answer it
got) and a host reduced to `live`, `busy` (whose turn it is at) and `waiting`
(what `runTurn` put among the pending prompts). A turn or a prompt is that of a run;
of a client whose call awaits it (`Client`); or of one whose call has timed out or
returned at once, because the prompt was queued (`Unawaited`: `ClientTimesOut`,
`ClientLeaves`). `Restart` is
`recoverOnStartup` with the pumps; `Crash` is any death, the one by the shutdown
deadline included.

Left out: the deletion of old rows, `run.list`, events, the draining flag, the
text of prompts and the order of steered ones, commands that come during
`stop()`. That two prompts may pass `canStartRun` together belongs to
InteractiveTurns.

### HubRequests

Sessions with the turn each executes, and the tool calls of its messages. `call`
is the await a call is at:

| stage | in the code |
|---|---|
| named | the message names it; `prepareToolExecution` comes later |
| asking | `requestToolApproval` awaits the status of its session, "pending" |
| looking | it awaits `getSession`, before the approval is registered |
| parked | the promise in `pendingApprovals` |
| answered | it was approved; the status "running" is awaited |
| free, approved | it may run |
| requested | the promise in `pendingCapabilityRequests` |
| unwritten | it was approved, but that status could not be written: it does not run |
| denied, done, failed | it ended |

`pending` and `requests` are the two maps; `told` and `sent` record what was
published, `shown` what a client was asked, `reissue` what the microtask of
`subscribe` will ask it again. `Respond` is `approval.respond`, `Fulfil`
`capability.respond`; `Abort` and `AbortReturns` are the two halves of `run.abort`
around its await, `Timeout` is the one of `runTurnWithRuntimeHealth`, `Stop` and
`Dispose` are `stop()`. A call that waits does not see the signal of its run: what
wakes it is the answer, or one of these.

Left out: what the session status says, though not the awaits of its writes and their
failures (`Ask`, `Confirm`); hooks that are capabilities, subscriptions filtered by
session, the replay of the event log, `client.unregister` without a closed socket
and unsubscribing without it, progress events, `capability.request` as a command.

### AgendaTasks

One task: its row (`status`, `revision`, `approved`, `current`), the rows of its runs
(`state`, `of`), the Markdown spec against the row (`file`), and the manager
(`activeRuns` as `active`; `phase` is the await of `runTask` or `finishRun`).
SQLite is synchronous, so what lies between two awaits is one action, but it is not
one transaction: the actions `Torn...` are a crash after the first of its two
statements (`TornUpdate`: the revision is raised and the approval withdrawn,
`currentRunId` not yet cleared). Every command first reconciles the specs; this is `Reconcile` and the
`Sweep` actions, which also run on their own, and `Verified` is the check each
command makes after it. `SweepCancels` and `SweepWrites` are the deletion of a task in
progress before and after the await of its abort.

Left out: automation and its capacity (off in the hub,
`hub-server-transport.ts:134`), the debounce of the watcher, invalid specs, which
count as missing; projections, and the text of a task. The check of a command and what
it does next are one step: between them the code has the return of an async function
whose awaits are over (`refreshAndVerifyTaskIntent`, `:596`, `:690`), a few microtasks
in which another command could change the row.

### RunLedger

A run of a durable table enters, is taken in its turn, may lapse (its lease
runs out, or the process is gone), is taken again if the table does that, and ends
once. Nothing of it is one table's code: it is what the three have in common.

| | `CronRunner` | `HubRunQueue` | `AgendaTasks` |
|---|---|---|---|
| taken, lapsed | a running row with a lease, without | a running row while a daemon is up, while none is | an unfinished row with its activation, with one that is over or lost |
| `attempt` | claims of the row | 1 once the row has run | 1 once `runTask` awaits `startSession` |
| `Line` | each run its own | the session | each run its own |
| `Again` | yes: an expired claim is claimed again | no: recovery interrupts it | no: recovery interrupts it |

The runs of a task are no line: `activeRuns` and `currentRunId` hold the next one
back, but an edit clears the second and the `finally` of an older run the first
(`agenda-task-manager.ts:878`), so with three runs TLC finds two of them unfinished
at once. What StillCurrent keeps is that only one of those is given its turn.

### How they compose

CronRunner, HubRunQueue and AgendaTasks implement RunLedger (`ImplementsLedger`, an
`INSTANCE ... WITH` in each, checked and proved). HubRunQueue's host is the interface of
InteractiveTurns: `TurnStarts` is `SendNow`, `LeftToSession` is `SendQueued`,
`SessionDrains` is `Drain`, `TurnEnds` is `Completed` or `Removed`. The run inside such a
turn is what HubRequests details: its `Begin` is `RunStarted` there and its `over`
`RunEnds`; `Signalled` is the abort that AbortForwarded says arrives; its `Timeout` is
HubRunQueue's. CronRunner's session handlers and
AgendaTasks' runtime are two more hosts; both assume of it only that it may answer.

## 3. Runs

| run | instance | states | properties | shows |
|---|---|---|---|---|
| `cron_one_runner` | 1 runner, 2 runs of a spec that allows one, 2 claims each, 1 crash | 236 k | TypeOK, NoSecondExecution, StopCancels, LimitsApply | what comments and tests say of the runner holds when it is alone |
| `cron_two_runners` | 2 runners, 1 run, 2 claims, 1 crash | 313 k | NoOrphanRow, SessionOfLastClaim, SessionReleased, OutcomeByHolder, ImplementsLedger | what holds of any number of runners |
| `cron_liveness` | 1 runner, 1 run, 2 claims, 1 crash | 4.3 k | StopReturns, QueuedRunEnds, SessionEventuallyReleased | stop returns, runs end, late sessions are released |
| `cron_second_execution` | 2 runners, 1 run | | NoSecondExecution violated | finding 1 |
| `turns_safe` | 1 client, drain, 1 stopper, 2 prompts | 1.8 M | TypeOK, OneRun, AbortForwarded, QueueInOrder, QueueWaitsForReason, OneDrainAtATime | races around the run and the pending prompts |
| `turns_live` | 2 clients, one of which opens the session, 1 stopper | 75 k | StopRemoves, TurnsEnd, AbortSettles | teardown returns, turns and aborts end |
| `turns_abort_lost` | 1 client, drain, 1 prompt | | AbortReaches violated | finding 2 |
| `hub_queue` | 4 runs of a session, 3 pending at once, 1 prompt of a client, 1 crash | 141 k | TypeOK, InOrder, NoGhost, NoneForgotten, IdleOverlooks, ExecutedOnce, ImplementsLedger, AdmittedEnds | the promises of the queue |
| `hub_idle` | 2 runs | | IdleIsSafe violated | finding 3 |
| `hub_requests` | 1 session, 2 clients, one of them its owner, 2 calls in parallel | 610 k | TypeOK, ToldTheTruth, EveryoneAsked, ParkedTurnsEnd | requests are answered once, to everybody, and turns do not stay parked |
| `agenda` | 2 runs, 2 revisions, 1 crash | 303 k | TypeOK, InProgressIsServed, CancelledIsTold, StartsWhatWasApproved, ImplementsLedger, DisposeReturns, InProgressEnds | the task, its runs and its spec agree |
| `agenda_refused` | 2 runs, no edit, no crash | | RefusedOnlyIfActive violated | finding 4 |

Why these bounds. Two claims of a run are a holder and the one that took over
from it: each interference in the code is between a claim and its successor. Two
runs of a spec that allows one exercise both limits at once, since the global
limit is one too. A lease of one unit has the two values the code tells apart,
expired and not. One crash leaves rows for a restart; a second would find the
same rows. In the session, the drain and one client are the two ways to start a
turn and already collide after `canStartRun`; `turns_live` has two clients and a
teardown, so that one turn dies of the collision while the other is awaited. Two
prompts are needed for an order and suffice for a relation between neighbours.
In the hub, three runs of a session are the least for an order among the queued
ones, as the first is taken when it is admitted; the fourth finds the queue full. One prompt
of a client is before, behind or between those of the runs.
That sessions do not interfere is left to the proofs, which have any number of
them. Two calls are enough for one that is prepared, or runs, while another
waits; two clients for one that answers while the other is away, and the owner
is one of them. The first run of a task and its successor are what `activeRuns` and
`currentRunId` can confuse; an approved revision and its successor what an approval
can. The bounds are the constants `N`, `MaxClaims`, `MaxRuns`, `MaxRevision`,
`MaxCrashes` and `MaxPending` (in the hub a parameter of the code, in a session a bound), the sizes of the
sets, and the guards marked `bound` in the modules; the theorems below do without
the first two kinds.

Deadlock is checked where something always remains possible: `Start` of a
stopped runner, the restart of the agenda's manager or its user, a client that
connects or leaves. A session that was removed, and a daemon that has admitted
its last run, may stop; the small instance of `agenda_refused` comes to its end. Those
runs do not check it.

### Fairness

*CronRunner.* `setInterval` polls as long as the runner is started, and a tick is
synchronous: weak fairness of its steps. Timers and settled promises get their
turn although transactions of others come in between: strong fairness, as also of
the clock. Nothing obliges the session runtime to answer: `StopReturns` holds
without (the test at `cron-runner.test.ts:793` is one case), the other two assume
`Answered` in their statement, which a spec with `timeoutSeconds` satisfies by
itself.

*InteractiveTurns.* Every await of the host is answered (strong fairness, since no
step is enabled while a microtask waits); a run need not end unless it was told
to abort. HubRequests shows the limit of that last assumption: a run that parks a
call after its abort ends when somebody answers (see 4). `TurnsEnd` and `AbortSettles` assume `RunsEnd`; `StopRemoves` does not.
`AbortSettles` assumes besides that the end of an aborted turn does not fail to be
recorded for ever (`Recorded`), and excepts a session where it failed last (see 4).

*HubRequests.* The model and the tools of the hub answer, `abort` of a session
returns, microtasks run. Users answer what they are shown, and the owner what it
is asked (`Attended`): nothing else ends a wait, as approvals have no timeout of their
own. `ParkedTurnsEnd` is of a hub that is not stopped and clients that end up
staying; before that they may come and go, and what one missed it must be asked
again. It excepts a tool whose owner was away when it was called (see 4).

*AgendaTasks.* Aborts of sessions return and the turn of a session ends. Nothing
obliges `startSession` to answer: `DisposeReturns` holds without. `InProgressEnds` is of
a manager that ends up staying up.

*HubRunQueue.* Settled promises resume; a turn ends, or its run times out. The
session host owes nothing else, and the daemon may crash or stay away:
`AdmittedEnds` is about a daemon that ends up staying up.

### Mutants

Above some definitions stands another of the same parameters that no action
uses: what a plausible mistake would make of that code. With its body in place of
the original, the property named here fails in that run.

| run | property | definition | mutant, and the mistake |
|---|---|---|---|
| cron_one_runner | TypeOK | Renew | RenewOnTop: the lease is extended from its end, not from now |
| | NoSecondExecution | Kept | NoneKept: tick does not renew before it claims |
| | StopCancels | Stopped | NoneStopped: stop waits but does not abort |
| | LimitsApply | WithinLimits | AtLimits: `<=` for `<` |
| cron_two_runners | NoOrphanRow | Matched | MatchedUnexpired: completeRun asks for an unexpired lease |
| | SessionOfLastClaim | Holds | HoldsRunning: a claim is current if the row is running |
| | SessionReleased | HasSession | TurnSent: cleanup only if the turn was sent |
| | OutcomeByHolder | Matched | MatchedRunning: completeRun without the token |
| | ImplementsLedger | Waiting | Unleased: whatever has no lease is due |
| cron_liveness | StopReturns | Rejects | AnsweredAbort: the abort waits for startSession |
| | QueuedRunEnds | Waiting | Queued: expired runs are not claimed again |
| | SessionEventuallyReleased | StartedLate | StartedLateKept: the late session is not cleaned up |
| turns_safe | TypeOK | StopStatus | StopStatusAsReason: the finish reason as the status |
| | OneRun | MayStart | UnguardedStart: no check of `running` |
| | AbortForwarded | Forwarded | NotForwarded: nothing done at run-started |
| | OneDrainAtATime | DrainAllowed | DrainAllowedAnyway: no check of `drainingPendingPrompts` |
| | QueueInOrder | Enqueued | EnqueuedInPlace: a prompt already queued keeps its place and new ones go last |
| | QueueWaitsForReason | DrainsAfter | DrainsIfCompleted: only completed turns drain |
| turns_live | StopRemoves, TurnsEnd | CanDrain | AlwaysDrains: shutdown awaits a run that was not aborted |
| | AbortSettles | AbortingAfter | AbortingStays: `aborting` is not reset |
| hub_queue | TypeOK | OutcomeOf | OutcomeAsAnswered: the finish reason as the state |
| | InOrder | IsNext | IsNewest: the newest run first |
| | NoGhost | Recovered | NoRecovery: nothing at startup |
| | NoneForgotten | Recheck | NoRecheck: nothing in the `finally` of pump |
| | IdleOverlooks | PendingOf | OnlyQueuedOf: the rows that are running are not counted |
| | ExecutedOnce | Timeout | TimeoutRetried: a run that timed out is brought to its session again |
| | ImplementsLedger | Recovered | Requeued: recovery queues what was running |
| | AdmittedEnds | Recheck | NoRecheck |
| hub_requests | TypeOK | Verdict | VerdictAsSent: an answer that says neither is passed on |
| | ToldTheTruth | Without | Registered: a resolved approval stays in the map |
| | EveryoneAsked | Again | NoneAgain: subscribe asks nothing again |
| | ParkedTurnsEnd | Answered | Unresolved: the entry is deleted, its promise is not settled |
| agenda | TypeOK | Recover | RecoverAsRun: the task gets the status of its run |
| | InProgressIsServed | Interrupted | StartingOnly: only runs that were starting are interrupted |
| | CancelledIsTold | Told | NobodyTold: cancelTask writes the rows only |
| | StartsWhatWasApproved | StillCurrent | SameStatus: the run is not compared with the current one |
| | ImplementsLedger | Unfinished | Written: a late answer overwrites an ended run |
| | DisposeReturns | Background | BackgroundAndStarting: dispose also awaits commands under way |
| | InProgressEnds | FinishFailure | FinishFailureOfRun: a failure is written to the run only |

## 4. What the runs found

1. *A run is executed twice* (`cron_second_execution`). `cron-runner.ts:259` renews
   "so a live session is not reclaimed and started a second time", but renews the
   claims of that runner only. With two runners on a database, the one that wakes
   first takes the run the other still executes. With one runner the comment is
   right (`cron_one_runner`).
2. *An abort is forgotten* (`turns_abort_lost`). `session-runtime-orchestrator.ts:913`
   means to keep an abort requested during startup. One that comes while the
   host still prepares the turn is reset at `:794`; the session stays `aborting`
   until the run ends by itself. From the call of the agent on, aborts arrive
   (`AbortForwarded`).
3. *Idle is not idle* (`hub_idle`). `hub-server-transport.ts:1090` says idle means safe
   to stop. A run that the session puts among its own pending prompts is recorded
   as completed at once and executes later without being counted; a turn that
   outlives the timeout of its run is not counted either. Both are so of clients: a turn
   whose `session.send_input` timed out leaves `activeRpcTurns`
   (`run-handlers.ts:321`) and goes on, and a prompt delivered as "queue" or "steer"
   is not counted at all. Of the runs, those are the only ones overlooked: one that
   waits in its session was recorded as completed, one whose turn is under way as
   completed or failed; none that is queued or running, and none that was aborted or
   interrupted (theorem IdleOverlooksCorrect).
4. *A task is refused for a run that is over* (`agenda_refused`).
   `agenda-task-manager.ts:706` refuses with "task … already has an active run". A
   failed task that is run again stays failed while its session starts, and may be
   approved meanwhile; the check after `startSession` (`:747`) then cancels the run
   but leaves it in `currentRunId`. No run is active and every later one is refused,
   until the task is edited or cancelled. Apart from this a task without an
   unfinished run is refused for two reasons only, both noted below: an entry that a
   failed start left in `activeRuns`, and a crash between two statements (theorem
   RefusedIsKnownCorrect).

Seen while modelling, and not the subject of a run:

- With two runners, an old execution that ends deletes the `activeRuns` entry of
  the one that replaced it (`cron-runner.ts:550`), so `stop` misses the latter; and
  `renewClaim` (`sqlite-cron-store.ts:1700`) revives an expired lease after another
  run was counted into the limits. StopCancels and LimitsApply are therefore
  checked and proved of one runner.
- The heartbeat of an old execution may abort a newer one of the same run
  (`cron-runner.ts:657`); the run then ends as cancelled, by its holder.
- Two turns may pass `canStartRun` during each other's preparation; the second is
  rejected by the agent and its failure tears the session down
  (`local-runtime-host.ts:1097`, `session-runtime-orchestrator.ts:788`). OneRun holds.
- The turn that opens a session does not drain what was queued during it
  if it ends by itself, and an abort of a session at rest leaves `aborting` set;
  QueueWaitsForReason is stated of sessions opened without a prompt, and AbortSettles
  names its exception.
- Enqueueing a prompt that is already queued merges the two by their text; an edit
  that gives a prompt the text of another does not
  (`pending-prompt-service.ts:154`), so a session may run one text twice.
- An aborted turn whose end cannot be recorded (the status write is refused,
  `local-runtime-host.ts:1841`, reached a second time from `:1917`) leaves its session
  `aborting`, with the status running and no turn: nothing drains until another turn
  ends. A drained prompt whose turn is rejected so is put back in front of the queue,
  before steering ones too (`pending-prompt-service.ts:350-375`); QueueInOrder excepts
  that step.
- If initialising the extensions throws, `running` stays set
  (`session-runtime-orchestrator.ts:793-799`) and the agent refuses every later run.
- `shutdownSession` drains a run only when its abort was requested and its promise
  is known (`local-runtime-host.ts:2358`, `session-runtime-orchestrator.ts:664`); otherwise
  the teardown goes on beside it.
- A graceful stop of the hub disposes the sessions before the run queue closes: the
  queued rows left are executed against missing sessions and recorded as failed.
- Agenda: a task cancelled while its session starts keeps its `activeRuns` entry if
  `startSession` then rejects (`agenda-task-manager.ts:908`); restored from its spec it is
  refused, and `dispose` writes it as failed. A sweep writes, after the await of its
  abort, what it read before (`:1149`), also over a task whose spec came back
  meanwhile. The `finally` of an old run clears the `activeRuns` entry of a newer
  one (`:878`). A crash between the two statements of an end leaves a task in progress
  with an ended run, which recovery does not look at (TornTask); one between the two of
  an update (`:544`, `:566`) leaves the run of the old revision current, and a task that
  is approved again is refused if that run had ended. `dispose` does not
  abort a session that is linked after its loop, and waits for it.
- Requests: the status of the session is written before a client is asked and after it
  has answered; if the second write is refused (`local-runtime-host.ts:800-820`), the
  agent is told no although the clients were told yes. The call then does not run
  (ToldTheTruth excepts it as "unwritten"). A session that its last participant left is forgotten and met again as
  interactive (`session-handlers.ts:903`), although `boundary.test.ts:478` wants one
  that was created otherwise to refuse. An abort or a timeout that comes while
  `getSession` is awaited, or while another call of the message is still to be
  prepared, leaves an approval that is raised afterwards: `executeToolCalls` does not
  look at the signal, so it waits for an answer, and runs the call if that is yes.
  A tool called while its owner is away waits for an abort, a timeout or the owner's
  next disconnect. The microtask of `subscribe` may ask again for an approval that was
  resolved in between; `stop()` resolves approvals without publishing it. An attach
  whose client is gone by the time its session was read leaves a participant.
  A socket that closes while its subscription is prepared keeps it
  (`browser-websocket.ts:336`). Two approvals of parallel sub-agents share the one
  status "pending" of their session.

## 5. Proofs

The theorems hold of every value of the constants the assumptions of the module
allow: any number of runners, runs, specs, sessions and clients, any bound. The
assumptions are of the counts being natural numbers, of the maps having their
domains, and of the special values (`NoRunner`, `Nobody`, `Client`, `Unawaited`) being different from
the ordinary ones.

*CronRunnerProofs.* `TypeInductive` goes through the actions once; `Renew`, `Abort`,
`Complete` and `End` each have a lemma, as most actions are made of them. The safety
invariant is `IInv`. NoOrphanRow alone is not inductive: `completeRun` by a stale token
must be known to miss the row, hence TokenOfLastClaim (a running row has the token
of its last claim, any other has none); a claim about to be made must find no trace
(NoTraceBeforeClaim); and `TickDispatch` begins exactly the claims of the open
transaction (ClaimedInTransaction). `ExecutionStep` then shares the argument of every
step of one execution: if the execution holds the claim it may end the row; if it
does not, the row is not touched. TerminalIsFinal and OutcomeByHolder are proved
action by action under `IInv`: a terminal row has token 0, and no claim has that
number.

*CronOneRunnerProofs.* What holds if one runner polls the database: the hypothesis
`OneRunner`, that `Runner` has one element, as when one hub without `cronOptions` runs;
`cron_second_execution` shows that the theorems fail without it. NoSecondExecution
rests on ServesItsRow: an execution under way holds the current claim of its row,
since a row is claimed again only when its lease has run out, and the same tick has
renewed every lease of the runner's own before it claims (RenewedInTick), while the
clock stands still. StopCancels follows, as `activeRuns` then has whatever is under
way. LimitsApply is not inductive: a renewal revives leases that had expired, so the
live rows may grow without a claim. What is inductive counts the rows that are
running or under way, expired or not (Occupied, OccupiedWithinLimits).

*InteractiveTurnsProofs.* `TInv` is OneRun with the types of the phases and the fact
that `drainingPendingPrompts` is set as long as the drainer is not free
(DrainingKnown), without which a second drain could begin. AbortForwarded is inductive
on top of it: while a turn runs, only aborts change `requested`, and they
change `told` in the same step. TeardownAwaitsAbort says of `shutdownSession` that it
waits only for a run that is in flight and was asked to abort; with an agent that
ends what it aborts, that is why StopRemoves holds.

*InteractiveQueueProofs.* TypeOK is not inductive as it stands: `stopSession` writes
a status taken from the result of a turn, so each await must be known to hold only
what a run can have given it (ResultFits). QueueWaitsForReason is carried by
NothingStranded: whatever may be drained is waited for by a microtask or by an
activation that has not returned. At the end of a drained turn this needs what
`drain()` finds there (ReturnedFits in `DrainInv`): a turn that was rejected has removed
the session or left it aborting, one that ended in an error has left that as the
reason, and a final status is the work of a teardown that is not over. That an
`Unrecorded` turn leaves its session aborting needs StatusFits: a session that is
neither aborting nor idle has a turn, not yet taken for aborted, or a teardown. The lemmas on sequences (Placed,
Removal, RemovalOrder, Appended and those named ...Keeps) say what each operation of
the pending-prompt service leaves of the order; QueueInOrder, of each step but the one
that puts a rejected prompt back, follows from them.

*HubRunQueueProofs.* `QInv` is InOrder with what it rests on: a running row is served
by its executor or no daemon is up (RunningIsServed), an executor that has a run has
it marked (ExecutorHolds), rows beyond the admitted are empty (AdmittedOnly), no
executor rests while the queue has work (QueuedIsSeen). `RoundKeeps` is the core:
one round of the executor over any table whose earlier runs have ended.
ExecutedOnce is about the host as well: a run comes to its session once, and begins
there one turn at most, however it timed out, was put off or was interrupted. `HInv`
carries it: a prompt is in one place at a time, with its row, its executor, the queue
of its session or the turn (Apart), and in that queue once (WaitsOnce).
IdleOverlooks bounds finding 3; it needs in addition that a session has prompts of
its own runs only (OwnPrompts), and how the row of a run was, or is about to be,
written whose prompt waits or whose turn goes on (Recorded).

*HubRequestsProofs.* `RInv` is ToldTheTruth and EveryoneAsked with Wakeable: a call is
parked exactly while it is in `pending`, and requested exactly while it is in
`requests`. Without it an answer might settle a call that no longer waits, and a
cancellation tell the clients of another. Lemma `Settled` has the argument all the
ends share, as abort, timeout and answer remove some calls from the maps, move
them and publish the same.

*AgendaTasksProofs.* `AInv` is InProgressIsServed (as Served) and CancelledIsTold with
the relation of the task to its current run. CurrentIsApproved carries it: while the manager
runs, a current run that goes on is of the revision that is approved, and its task is
approved, failed or in progress and not archived. StartsWhatWasApproved follows from
it at `Started`, and it is inductive because every step that changes the revision or
the archive also clears `current`, but for an update that a crash cuts in two: the
run it leaves has no process any more, and recovery interrupts it before the task can
be approved again. ActiveMayEnd says that `dispose` interrupts no run whose outcome is to
be kept.

RefusedIsKnown bounds finding 4. Its invariant `VInv` says of a current run that it
goes on, was cancelled after an approval, or died in a crash (CurrentKnown); that
nothing but an approval changes the status of a task whose run starts
(StatusAsFound); and that an entry of `activeRuns` is of an activation under way,
or of a failed one that is over (FailedIsOver).

*Refinement.* All three run tables implement RunLedger for every value of the constants.
`RowMoves` says what one step does to one row, `RowStep` maps that to a move of the
ledger, `LedgerMoves` is the step of the whole table. CronRunner's needs `IInv` (a
claim under way is of a row that was due), HubRunQueue's needs `QInv`, as InTurn is
InOrder at the step that takes a run, AgendaTasks' needs that a run with an activation
has its row (RowFirst), and `AInv` at the steps of a run whose row has ended.

*RunLedgerProofs.* What the tables get from it, for any runs, lines and outcomes:
an outcome is the last word (LastWord), a line is served one run after the other
(OneAtATime, ServedInLine), and a table that does not take runs up again takes each
once (TakenOnce). The one hypothesis besides the numbering of runs is that no outcome
has the name of another stage (OutcomesAreEnds), as in each of the three.

`IInv` is no invariant of a run any more, its parts TypeOK, NoOrphanRow,
SessionOfLastClaim and SessionReleased are.

Only model-checked: liveness, as fairness and ENABLED are beyond the prover
(StopReturns, QueuedRunEnds, SessionEventuallyReleased, StopRemoves, TurnsEnd,
AbortSettles, AdmittedEnds, ParkedTurnsEnd, DisposeReturns, InProgressEnds). Every
invariant, action property and refinement of the passing runs is proved. Proved and
in no run: OutcomeKept of agenda tasks and TerminalIsFinal of the cron runs and of the
hub, which ImplementsLedger has in all but the names of outcomes;
TeardownAwaitsAbort and RefusedIsKnown; the theorems of RunLedger. What the four failing
runs refute is refuted by the counterexample of TLC.

## 6. Plan

1. The team runtime: board, mailboxes, teammate runs.
2. Discovery and instance lock: one hub per owner context.
3. The automation of agenda tasks and its capacity; the token manager.
4. Proofs: that the session InteractiveTurns describes implements the host HubRunQueue
   asks for. The host is simpler than that so far: `SessionEnds` requires that no turn
   is under way, while a teardown of InteractiveTurns may remove a session beside one.

Not modelled, and why: providers, persistence, checkpoints and compaction,
parsing of specs, MCP and the applications are sequential, pure I/O or the
rendering of state kept elsewhere; what little state they share with the modelled
parts (aborts, session records, spec files) appears there as a choice. The status of
each part is in `PROJECT.json`, under `components`.
