# A TLA+ model of HiveTeam

HiveTeam is one Node.js server that runs CLI coding agents (Codex, Claude and
others) in pseudo terminals, lets an orchestrator agent hand work to worker
agents, and keeps in SQLite what it promised to deliver to whom. What makes
it hard is that a terminal is not a message queue: bytes that were pasted may
have been taken or not, a process may die at any moment, people type into the
same terminal, and the agents answer by themselves through a command line
client. This directory models five parts of the server that have to be right in
spite of that: delivery, the admission of processes, workflows, the stream of
terminal output and the snapshots of the workspace. It plans the rest.

## 1. Inventory

Paths are relative to `src/src/server/` unless they start with `src/`.

| component | state | operations | depends on |
|---|---|---|---|
| message delivery (`team-delivery-runtime.ts`, `message-delivery-store.ts`) | table `message_deliveries`; in memory the map `active` and `closing` | claim, write intent, submitted, confirm, failed, recheck, resolve, acknowledge, recover, close | everything below |
| report outbox (`report-outbox-store.ts`) | table `report_outbox`, one entry per dispatch | enqueue, markDelivered, checkpoint | delivery, team operations |
| terminal input (`codex-report-delivery.ts`, `agent-stdin-dispatcher.ts`, `delivery-input-guard.ts`, `post-start-input-writer.ts`) | composer of a PTY, input sequence, the CLI's own session file | save checkpoint, paste, Enter, wait for the receipt | PTY, session files |
| initial dispatch (`codex-initial-dispatch.ts`) | closure of one launch | prepare, launch, launched, failed | run starter, delivery store |
| dispatch ledger (`dispatch-ledger-store.ts`) | `dispatches`, `dispatch_delivery_failures`, acceptances | create, markSubmitted, markDeliveryFailed, markReported, markCancelled, reopen, accept | |
| dispatch messages (`dispatch-message-*.ts`) | messages with sequence numbers, seen_seq | create, list, assertReportSeen, closePending | ledger, delivery |
| dispatch health (`dispatch-health-store.ts`) | timeouts and health state of a dispatch | progress, expiry, confirmCancellation | delivery |
| team operations (`team-operations.ts`) | none of its own | dispatchTask, cancelTask, statusTask, reportTask, sendDispatchFeedback, replayQueuedDispatches | ledger, workspace store, runs, outbox |
| workspace store (`workspace-store*.ts`) | members, status, pending task counts, manual stops | mark started, stopped, dispatched | runs |
| agent runs (`agent-run-starter.ts`, `agent-run-exit-handler.ts`, `live-run-registry.ts`, `agent-manager.ts`, `restart-policy.ts`) | live runs, tokens, run records | start, exit, stop, resume, autostart | resources, delivery |
| resources (`resource-budget-store.ts`, `resource-start-queue.ts`, `resource-budget-recovery.ts`) | reservations, limits, queued starts | reserve, beginSpawn, markStarted, release, enqueue, drain, cancel, recover | runs, verification |
| workflows (`workflow-*.ts`) | runs with steps, attempts, evidence | start, refreshQuality, dispatchReady, report, rerun, stop | team operations |
| git turns (`git-turn-coordinator.ts`) | turn and input count of each run, chain of snapshots | input, output, finish, snapshot | git |
| terminal streams (`terminal-flow-control.ts`, `terminal-stream-hub.ts`) | unacknowledged bytes, pause, timers of each viewer | send, ack, pause, resume, close | web sockets |
| team mailbox (`team-mailbox-broker.ts`) | request and response files, processed ids | drain, forward, respond, expire | HTTP routes |
| native sessions (`native-session-*.ts`, `session-capture*.ts`, `claude-session-coordinator.ts`) | sessions, leases, capture state | launch, attach, observe, release | runs |
| remote access (`remote-*.ts`) and gateway (`src/gateway`) | pairings, devices, grants, tunnel | pair, grant, revoke, relay | routes |
| worker lifecycle, reviews, clarifications, external goals | request records | propose, approve, apply | team operations |
| integration candidates, worktrees, verification, code review, pull requests | candidates, locks, logs | create, merge, verify, publish | git, resources |
| execution policy, team memory, skill packs, backup, schema, tasks file | configuration and stored text | | |
| routes, CLI, desktop, web | none of their own | | |

How they interact in a delivery: `dispatchTask` writes the dispatch in one
transaction with its delivery row (a trigger of `sqlite-schema-v60.ts`) and
starts the worker if nobody stopped it. The scheduler of the delivery runtime
claims the first row of each running recipient and starts an attempt, which
pastes the message and waits for a receipt. The worker accepts, reports or
confirms through the CLI; a report is one transaction over the ledger, the
outbox, the dispatch's own row and the row of the report. The report travels
to the orchestrator the same way. A person may resend, handle or cancel at
any time.

What is hard: every await is a point where the worker, a person or the exit of
a process may change what the code has just read; a crash may fall between the
stored intent to write and the write; a receipt may come after the attempt
gave up, after the message was superseded, or after a restart; and an error of
any of these must leave the row in a state that neither loses nor repeats the
work.

What makes the components correct:

- delivery: at most one copy, in order, no row stuck, receipts found, settled
  rows final;
- outbox: the latest report reaches the orchestrator, a receipt counts for its
  own revision only;
- ledger: a closed dispatch stays closed, an open one is carried by a row or
  shows its failure;
- runs: one live run per agent, an exit before the registration is not lost;
- resources: limits hold over everything that may still be alive, a freed slot
  is given to a waiting start, an uncertain process keeps its key;
- workflows: a step runs once per attempt, evidence belongs to the attempt, a
  stopped run leaves no open work;
- git turns: one turn at a time, a baseline belongs to its turn, inputs are not
  lost;
- terminal streams: a terminal shows its snapshot and then every later chunk
  once, paused output resumes, a silent viewer is closed;
- mailbox: a request is executed once and answered;
- native sessions and remote access: one owner per session, no effect after a
  revocation.

The list of hazards with their lines is in `PROJECT.json`.

## 2. Plan

Done: `MessageDeliveryStore`, `TeamDelivery`, `ComposerLane` and the proofs of all
their safety properties and of the refinement; `ResourceBudgetStore` and
`ResourceAdmission`, `Workflow`, `GitTurns` and `TerminalStream` with the proofs of
all theirs.

Next:

1. `Dispatches`: messages with seen_seq and the counters of the workspace store.
2. `Mailbox`: requests and responses as files, with a broker that may be closed.
3. `AgentRuns`, `NativeSessions`, `RemoteGrants` as room is left.

## 3. Modules

- **`MessageDeliveryStore`**: the table of delivery rows and the transactions on
  it, as operators from a table to a table. Rows are numbered in rowid order,
  which is the order `unblockedRecipient` uses. A caller composes them as the
  code composes them inside one `db.transaction`.
- **`TeamDelivery`**: the state machine. The server is single-threaded, so an
  action is the code between two awaits.

| variable | code |
|---|---|
| `deliveries` | `message_deliveries` |
| `ledger` | `dispatches` joined with `dispatch_delivery_failures`; `failed` is the existence of such a row, which hides the stored status (`toRecord`) |
| `outbox` | `report_outbox` |
| `manualStop` | stored manual stop of an agent |
| `run`, `starts` | live run of an agent, number of runs so far |
| `active` | the map `active` of the delivery runtime, with what the attempt remembers |
| `starting` | the closure of a Codex launch that carries an initial dispatch |
| `sending` | calls of `dispatchTask` awaiting the start of a worker |
| `closing` | `closing` of the delivery runtime |
| `journal` | environment: what the agent's own session file records |
| `copies`, `resends`, `restarts` | history |

| actions | code |
|---|---|
| `Deliver`, `WriteInput`, `WriteRejected`, `PressEnter`, `CompleteNative`, `CompletePty`, `AttemptFails`, `AttemptNeedsReview`, `AttemptDropped` | one attempt of `deliver`, with `deliverCodexReport` or the terminal input path; every exception ends in the same catch |
| `Recheck` | `recheck` of the tick |
| `CreateDispatch`, `StartAwaited`, `StartFailed` | `dispatchTask` up to its await, and its two continuations |
| `Acknowledge`, `ReportQueued`, `ReportIgnored`, `ConfirmCancellation`, `PostMessage` | what the worker says through the CLI |
| `Feedback`, `Cancel`, `HandledByUser`, `ResendByUser` | what the orchestrator and a person do |
| `StartRun`, `ExitRun`, `ManualStop`, `PrepareInitial`, `ClaimInitial`, `SpawnInitial`, `Launched`, `LaunchFails` | runs and launches |
| `Close`, `Restart`, `CrashBeforeWrite` | shutdown, death at any point, death between intent and write |

- **`ComposerLane`**: what delivery promises to a terminal: one message at a time
  holds the composer, in order, and is shown at most once until a person asks
  for another copy. `TeamDelivery` implements it with the mapping at its end
  (`KeepsTheLane`): a row that is attempting, uncertain or under review holds
  the composer.
- **`MCTeamDelivery`**: the instances for TLC.
- **`MessageDeliveryStoreProofs`**, **`TeamDeliveryProofs`**,
  **`DeliveryWritesProofs`**, **`DeliveryReportsProofs`**: the theorems, on the table,
  on its lanes, on what is written into terminals, and on the ledger and the
  outbox; each extends the one before.

- **`ResourceBudgetStore`**: the table of reservations and the transactions on it,
  as operators. Rows are numbered in the order they were created.
- **`ResourceAdmission`**: the state machine around it: the launch of an agent,
  the processes of the operating system, and the durable queue of starts that
  found no slot. The drain of the queue is synchronous between two awaited
  starts, so no other action is enabled while `drain.phase` is `"run"`.

| variable | code |
|---|---|
| `rows`, `limits` | `resource_reservations`, `resource_limits` |
| `queue`, `cursor`, `paused` | `resource_start_queue`, `resource_queue_cursor`, `resource_agent_pauses` |
| `instance` | `runtimeInstanceId` |
| `launch` | `startPromises`, `pendingExecutions` and the live run of each agent |
| `drain`, `woken` | the local variables of `drain()`; `scheduled` or `wakeAgain` |
| `proc` | processes of the operating system, and what the server saw of their exits |
| `changes`, `peak` | history |

| actions | code |
|---|---|
| `StartAgent`, `StartRefused`, `StartJoined` | `startAgent` of `agent-runtime.ts` up to its first await, and `enqueue` by those who wait |
| `Spawn`, `SpawnThrows`, `PreparationFails`, `Connected`, `ConnectFails`, `KillFails`, `LaunchFailed` | the launch in `agent-run-starter.ts` and `agent-manager.ts` with its capability `managed-execution.ts` |
| `HelperSpawn`, `HelperStarted`, `HelperStopped`, `HelperClosed`, `HelperUnconfirmed` | `native-session-process.ts` |
| `ProcessDies`, `NativeExit`, `ConfirmExit`, `CleanupFails` | environment; the exit handler of the terminal and its end |
| `DrainStarts`, `VisitWaits`, `VisitStale`, `VisitClaims`, `DrainPassEnds`, `WaitTimer` | `drain`, `wake` and the interval of `resource-start-queue.ts` |
| `Cancel`, `CancelReservation`, `StopRun`, `UpdateLimits`, `Reconcile` | what a person does |
| `Restart` | death at any point, then the recovery of the budget and the queue |

- **`MCResourceAdmission`**, **`ResourceAdmissionProofs`**: the instances and the
  theorems.

- **`Workflow`**: one run of a workflow. `db` is what SQLite holds of it and of its
  dispatches and survives a crash; operators take a `db` and return the one
  after the code they stand for. `inFlightRuns` admits one call of
  `dispatchReady` at a time, which `flight` cuts at its awaits; everything that
  people and workers do may fall between.

| variable | code |
|---|---|
| `db.status`, `db.step` | `workflow_runs` with its steps, their attempt, dispatch, result and dependency versions |
| `db.dispatch` | the dispatches of the run, with their health (`uncertain`, `confirmed`) and the evidence for their code |
| `flight` | the locals of `dispatchReady`, and where it awaits |
| `woken` | `pendingRuns`, or a microtask that schedules the run again |
| `restarts` | bound |

| actions | code |
|---|---|
| `Timer`, `Rescheduled` | the scheduler's interval, and the second round of a call that was asked for during the first |
| `EvidenceRead` | `refreshQuality` after its await |
| `EvidenceDies`, `EvidenceThrows` | the same, cut off between its transactions by the death of the server or by a cancellation that throws |
| `ReadyLeaves`, `ReadySkips`, `BeginDispatch`, `ReadyEnds`, `Create`, `CreateFails`, `Started`, `StartThrows` | the loop over the steps in `dispatchReady`, with `onCreated` inside the transaction of `dispatchTask`, and its catch |
| `Report`, `Submit`, `Accept`, `FeedbackReruns`, `FeedbackReopens`, `CancelTask`, `ConfirmCancellation`, `Doubt`, `Decide`, `Commit`, `Check` | what workers and people do to a dispatch; `told` says whether the workflow heard of the report |
| `Rerun`, `Stop` | `workflow-attempts.ts` and `stop` |
| `Restart` | death at any point; the timer of the next server takes over |

- **`MCWorkflow`**, **`WorkflowProofs`**: the instances and the theorems.

- **`TerminalStream`**: one PTY and the terminals that show it. A chunk is its
  number, so what a terminal shows is compared with what it has to show.

| variable | code |
|---|---|
| `run` | what the agent printed and whether it lives |
| `hub` | the `RunState` of `terminal-stream-hub.ts`: the mirror and its queue of writes and snapshots, the viewers with their two sockets, bootstrap buffer and flow (`createTerminalOutputFlow`), and the messages under way |
| `client` | the browser: its state of restoration, what it holds back and what it shows |

| actions | code |
|---|---|
| `Output`, `Exit` | the agent; `onOutput` and `onExit` of the hub |
| `MirrorTurn` | one entry of the mirror's queue: parsed writes or a snapshot |
| `AttachControl`, `AttachIo`, `PeerCloses`, `IoClosed`, `ControlClosed` | the sockets, in any order |
| `Timers` | flush, resume check, deadline of an acknowledgement, handshake |
| `AckArrives`, `FrameArrives`, `RestoreArrives`, `RestoreCompletes` | messages in both directions |

A chunk of the PTY goes to the viewers in a loop. What the loop does for one of
them (`Deliver`) changes only that viewer and whether the PTY is paused, so
`DeliverAll` gives each viewer what its own turn makes of it and computes the
pause once, at the end; and the chunks that waited for a socket enter the flow
together (`Hold`), since the viewer is gone whichever of them is the first that
does not fit.

- **`GitTurns`**: the snapshots taken when a turn of the orchestrator ends. The
  coordinator's functions are operators on its state; `gitq` is the queue that
  serialises all git operations of a workspace, each with a beginning, which
  reads HEAD, and an end.

| variable | code |
|---|---|
| `run` | the `TrackedRun` in `tracked` |
| `turn` | every `ActiveTurn` so far: one that was given up or replaced is still in the hands of its promises and of its timer |
| `chain` | `snapshotChain` of each attachment |
| `gitq` | `createWorkspaceOperationQueue` |
| `repo` | HEAD, uncommitted changes, the setting `auto_snapshot` |

| actions | code |
|---|---|
| `Input`, `Output`, `TailOverflows`, `SettleTimer` | `recordInput`, `onOutput`, the tail of 64 KB, the timer of 1.5 seconds |
| `GitBegins`, `GitEnds` | an operation of the queue, and what awaited it: the baseline, the status or the snapshot |
| `Edit`, `OutsideCommit`, `SetAutoSnapshot`, `AttachAgain` | environment |

- **`MCTerminalStream`**, **`MCGitTurns`**: the instances for TLC.
- **`GitTurnsProofs`**, **`TerminalStreamProofs`**: the theorems about the turns and
  about the stream.

Operators whose comment says "Mutant" are plausible errors of the definition
that follows them. They are used by no specification; each replaces that
definition in a run of its own to show that a property notices.

Abstractions: a message is its row; a journal is the set of rows whose marker it
holds (a later checkpoint hides older entries); recognising an empty composer, a
dialog or an echo on the screen is the moment the attempt goes on or fails; a
retry delay only delays a claim, and a claim may be arbitrarily late anyway.

## 4. Runs

| run | shows | instance |
|---|---|---|
| `delivery_recovery` | types, at most one copy, attempting rows are owned, retries are unwritten, settled is final, refinement of `ComposerLane`; attempts end, messages leave the queue, receipts are found | one Codex worker, one dispatch, two rows, two attempts, two runs, one restart, one resend |
| `delivery_lanes` | order in the lanes, outbox follows the reports, cancelled is final | both agents running, one dispatch, four rows, two revisions |
| `delivery_legacy` | no queued dispatch forgotten | two dispatches (protocol 0 and 1), Claude worker without receipts that the first dispatch starts, native orchestrator, a remote send, two attempts |
| `admission_recovery` | types, one process per agent, living processes hold a slot, limits over all instances, released is final | two workspaces with an agent each, two legacy processes of one agent, a preparation process, four rows, one restart, one change of the limits, no queue |
| `admission_liveness` | claims end, heads are served, cancelled starts spawn nothing and die | one slot for two workspaces, two queued starts, two rows, one process, one restart |
| `workflow_safety` | types, each attempt dispatched once, attempts do not overlap, steps keep to current results, new work awaits decisions | a step released by evidence and one that needs it, two attempts, two code versions, one delivery in doubt, one feedback, reruns, one restart |
| `workflow_liveness` | failed runs leave no open work; reports are applied, reruns settle, ready steps are dispatched, stopped work is cancelled | two independent steps, every outcome, one rerun, one feedback, one restart |
| `terminal_stream` | snapshot then stream, paused output resumes, held output is sent | two viewers, three chunks, every limit as small as it can be, one socket closed by a browser |
| `git_turns` | no turn is forgotten, a snapshot is refused for commits of others only | three turns, two attachments, one counted input, one foreign commit, the setting switched once |
| `cancel_during_start`, `rework_protocol_0`, `workflow_rerun` | disagreements between code and documents, see below | smallest that shows each |

Why the bounds are enough. Delivery: all rules of the store compare a row with the
other rows of its recipient, one at a time, so two rows in a lane show every
ordering and four rows give two lanes with two rows or one lane with a dispatch,
two messages and a notice; one attempt more than the limit that leads to review
is in `MaxAttempts = 2` with a retry and a second failure; a launch, a crash and
a second launch need two runs and one restart; Enter is pressed at most
`MaxSubmits` times, once here, since a second press changes nothing but the
count.

Admission: the table compares an agent's rows with each other and counts the
rest, so two agents in two workspaces meet in every way; `legacy:` keys need two
old processes of one agent, and a start beside them two rows more. The limits
are compared with a count, which one and two slots show at, below and, after a
change, above the limit. Two entries wait in one workspace or in two, so a
head waits behind another, is blocked or is cancelled while the other starts.
`MaxProcs` lets a launch fail before its spawn when it is used up, which the
code does too.

Workflows: a step looks at the steps it needs and at those below it, so a chain
of two shows how a change above reaches a step below, and two free steps show a
flight that has chosen both. A second attempt shows every rule that compares
attempts. In `workflow_liveness` no code version changes and no delivery is in
doubt: both only hold a run back, as a person does.

Terminal: two viewers, since the PTY is paused only when all are slow; the limits
are the smallest that keep low below high water, so that three chunks pass each
of them. Git: a third turn waits for a second one whose baseline waits for the
first; the second attachment has a chain of its own.

Deadlock is not checked because the system may really stop: with its
bounds used up or everything settled nobody has to do anything.

Fairness. Delivery (`FairSpec`): the scheduler ticks every second and after every
change (`tick`, `wake`), so a claim that stays possible happens and a journaled
receipt is read; every attempt has a deadline and the retry loop of a Codex
delivery is bounded, so attempts end. No agent, person, start or exit is fair:
nothing is assumed to answer, accept, report or restart.

In `ResourceAdmission` the drain and its timer, launches, exits and the death of
a process that was killed are fair. Launches and exits are strongly fair: their
callbacks are put off while the drain has the thread, again and again, and the
event loop comes back to them. The waits of a launch all have an end in the
code: the pid has a deadline, a preparation process is killed after 15 seconds.
Nobody is assumed to start, stop, cancel or reconcile, and a process that nobody
kills may live for ever.

In `Workflow` the timer of the scheduler (`workflow-runtime.ts`, the interval that
looks at active runs and at pending stops) and the call it starts are weakly
fair, and the choice of a step is strongly fair, because an operation on a
worktree may hold it back now and then. Workers and people are not fair.

In `TerminalStream` only the server's own timers are fair, one viewer at a time;
a browser may stop reading, acknowledging and closing for good, and the agent
may print nothing more.

Where TLC would evaluate ENABLED of a large action in every state, fairness is
written out: `[]<>~P \/ []<><<A>>_vars` is weak and `<>[]~P \/ []<><<A>>_vars`
strong fairness of `A` when `P` is its enabling condition.

What the violations show, with the lines in `PROJECT.json`:

1. A dispatch cancelled while `dispatchTask` awaits the start of the worker is
   marked failed when the start throws; an acceptance then reopens it.
2. The second report of a reopened protocol 0 dispatch is never forwarded.
3. A rerun of a workflow step that is requested while a step is being dispatched
   fails the run, with a rerun pending that nothing takes up or lets a person
   repeat.

`CancelledIsFinal` does hold when no start is awaited, and `LatestReportIsForwarded`
under protocol 1 (`delivery_lanes`); of both the part that holds is proved for all
constants (section 5).

Met while modelling, and true of the models without being a property:

- A worker that accepts while the attempt waits for its receipt leaves the
  accepted dispatch shown as failed: the aborted attempt marks the failure. A
  Codex attempt whose input is refused after its checkpoint was saved leaves a
  message uncertain although nothing was written, and stops its lane.
- Workflow: `refreshQuality` stores a changed result of a step
  (`workflow-runtime.ts:182`), then cancels the dispatches below it (203), and only
  then, in another transaction (210), holds the steps below back. If the server
  dies or a cancellation throws in between, they stay on the old result for good:
  the guard (193-195) compares with the stored step, which has the new result by
  then or is no longer completed. The code promises otherwise: "Dependency
  evidence changed. Rerun from the changed step after reviewing external effects."
  (220, and `src/tests/integration/workflow-quality-attempts.test.ts`). `EvidenceDies` and
  `EvidenceThrows` do this in the model, at every point between the transactions;
  `StepsKeepToCurrentResults` names them as its only exception (`LeftBehind`), for
  the steps below the one that changed. A death before 190 also leaves a completed
  run "completed" with a step that awaits review again.
- Workflow: a run stopped with a rerun pending can never be rerun. Rerunning a
  step below others in a stopped run leaves it running with a stopped step.
  Feedback on a step of a stopped run that awaited review reopens its dispatch,
  which the timer then cancels. A failed run leaves open
  the task of a step that a person gave back by feedback before, which is the
  exception `Reclaimed`.
- Terminal: if the io socket of one viewer closes while its control socket
  stays open, the pressure on the run is computed anew only if that viewer had
  paused it; another viewer that is alone and slow then leaves the PTY paused
  until the next event, and what is buffered for the closed socket stays, up to
  the limit of 512 KB, because the handshake timer is not armed again. That is the
  exception in `Holds`. `disconnectViewer` never calls `cleanupRun`, so the state
  of an exited run whose last viewer the server disconnected is kept.
- Git: the prompt that ends a turn is any line of the last 64 KB that begins with
  a prompt, so the echo of the input counts, and a pause of 1.5 seconds ends the
  turn while the orchestrator works; `Output` allows that. Inputs counted during a
  turn start a turn only if that turn is given up; after a turn that ended they
  stay counted. A turn that is given up keeps its timer, so its snapshot may still
  be taken, and then, or after a second attachment, it may refuse the snapshot of
  a later turn: these are the exceptions in `RefusedForOthersOnly`.

## 5. Theorems

For every set of agents and dispatches, every number of rows and every bound,
under `StoreAssumption` and `DeliveryAssumption` only:

- `TypeCorrect`: `Spec => []TypeOK`;
- `LanesStayInOrder`: `Spec => []ComposerHeldInOrder`;
- `SettledStaysSettled`: `Spec => SettledIsFinal`;
- `AlwaysOrdered`: the inductive invariant from which the others follow.

The argument: on the table, every step of every actor is a release of rows
(`Eases`: each row keeps its place or moves to one that blocks less), then at
most one claim or one insertion, then again a release (`StoreStep`). Releases
keep lanes in order. A claim keeps them because `Unblocked` looks at all other
rows of the recipient. An insertion keeps them only if the new row is the last
one and is addressed to an agent: so order alone is not inductive and the
invariant `Ordered` adds that the table has no gaps (`NoGaps`) and that every
row that exists has a recipient (`Addressed`). `StoreStepKeepsLanes` proves this once
for the store; `EveryStepIsGood` shows action by action that each step of
`Next`, restarts included, is a `StoreStep` and keeps types and settled rows.

Of what is written into terminals (`DeliveryWritesProofs`), under the same
assumptions:

- `NoSecondCopy`: `Spec => []AtMostOneCopy`;
- `UncertainWritesAreNotRetried`: `Spec => []RetriesAreUnwritten`;
- `NoRowIsOrphaned`: `Spec => []AttemptingRowsAreOwned`;
- `NoMessageOvertakes`: `Spec => []DeliveredInOrder`;
- `DeliveryKeepsTheLane`: `Spec => KeepsTheLane`, the refinement of `ComposerLane`;
- `AlwaysWritesSound`: the inductive invariant `WritesSound`.

That a copy is the only one is not inductive: nothing in it keeps an attempt from
pasting a row that another attempt has pasted. `WritesSound` adds that a row that
can be claimed was not written and that what was not written has no copy
(`RowsSound`); that an attempt which owns its row, by its number and the state
of the row, and has not pasted yet finds it unwritten (`AttemptsSound`); that a
launch which has claimed its row is the only one to write it, and that its worker
does not run meanwhile (`LaunchesSound`, `LaunchesWait`); and that a row for which
a write was begun has only settled rows before it in its lane (`WrittenInOrder`). Most steps of people and workers only
settle rows and perhaps send one (`Settling`), which is done once; the steps of an
attempt or a launch change one row, and the restart looks at all of them. For
the refinement each step is mapped: settling steps release the composer or
stutter, a claim takes it, the paste shows the message, a resend permits one more
copy.

Of the ledger and the outbox (`DeliveryReportsProofs`), under the same assumptions
and, where one is named, a further one:

- `NoDispatchIsForgotten`: `Spec => []QueuedDispatchesAreCarried`;
- `NoReportIsForgotten`: `Spec => []UndeliveredReportsAreCarried`;
- `LatestReportsAreForwarded`: `Spec => []LatestReportIsForwarded`, if every dispatch
  has protocol 1: of protocol 0 it is false (`rework_protocol_0`);
- `UnawaitedCancellationIsFinal`: no step takes back a cancellation of a
  dispatch that was not sent by the orchestrator, so that no call waits for the
  start of its worker;
- `CancellationIsFinalAfterStart`: for every dispatch, once it is cancelled, not
  marked failed, and no start of its worker is awaited any more, it stays so for
  ever, `Spec => [](CancelledForGood(d) => []CancelledForGood(d))`. Only the catch
  behind that await can reopen it (`cancel_during_start`);
- `DeliveredMeansReceived`: `Spec => []DeliveredReportsWereReceived`, if the
  orchestrator's terminal is not a Claude one or nobody resends: a Claude
  terminal gives no receipt, so the row of a report that it took may be sent
  again and be given up, with the entry marked delivered;
- `AlwaysReportsSound`: the inductive invariant `ReportsSound`.

`ReportsSound` ties an entry of the outbox to the row that its receipt names
(`EntriesSound`) and a dispatch to its row. What keeps it is that whoever settles
a row tells the dispatch or the report that waits for it (`RowsAnnounced`), in
the same transaction: proved once for every way to settle a row, it says of each
step that a dispatch leaves "queued", or an entry becomes delivered, together with
its row.

Of a workflow, for every list of steps with their dependencies, every set of
outcomes and every bound, under `WorkflowAssumption` only (the list is finite and
without repetition, dependencies have no cycle, as `workflow-definition.ts`
demands, and a step has at least one attempt):

- `WorkflowTypeCorrect`: `Spec => []TypeOK`;
- `AttemptsAreDispatchedOnce`: `Spec => []EachAttemptIsDispatchedOnce`;
- `AttemptsNeverOverlap`: `Spec => []AttemptsDoNotOverlap`;
- `NewWorkWaits`: `Spec => NewWorkAwaitsDecisions`;
- `CurrentResultsAreKept`: `Spec => StepsKeepToCurrentResults`;
- `FailedRunsLeaveNoWork`: `Spec => []FailedRunsLeaveNoOpenWork`;
- `AlwaysGood`, `AlwaysFine`: the inductive invariants `IInv` and `Fine(db, {})`.

The argument: that no attempt is dispatched twice is not inductive, because
nothing in it says that the attempt for which a dispatch is created now has none
yet. `Good` adds what the code keeps: later dispatches of a step are of later
attempts (`AttemptsGrow`); a row of the current attempt of a step is the one that
the step is bound to, and a row that its step is not bound to is over
(`RowBound`), so an unbound step has no row of its current attempt; a bound step
is bound to a row of its own and of this attempt, and a rerun is only pending
while attempts are left (`StepBound`); and a report was counted, so a step is never
released from a dispatch whose worker may still be at it (`RowGood`). Nearly every operator of `Workflow`
changes statuses and results but no binding, which is the relation `Keeps`:
reflexive, transitive, and proved once for each operator. Two operators are
left: `Created`, which adds a row for an unbound step, and `Settled`, which releases
steps whose dispatches are over and counts their attempt up. `FlightGood` says
of the call in flight only that its lists hold steps: what it chose before an
await is never trusted, and the proof shows that it need not be.

The results need more than the binding. `Fine(db, {})` says that a result is that of
the attempt its completed step was released from (`ResultsSound`), and that an open
dispatch that nobody has reported on keeps its step at work, waits with it for a
rerun or is left to the stop of the run (`RowsFine`), so that a run which fails finds
and cancels it. Every step keeps this, a `refreshQuality` cut off between its
transactions included. `Fine(db, K)` says in addition that the steps of the set `K`
work from the results that their dependencies have now. It is kept for every `K` by
every step but `EvidenceDies` and `EvidenceThrows`, which keep it for `K` without the
steps in `Stales` (`FineIsInductive`); with `K` a single step this is
`StepsKeepToCurrentResults`. A rerun withdraws the results of a step and of all steps
downstream of it at once. `Downstream` is the least set that holds the steps below
and is closed under going down, so a step that is kept needs none that is reset;
and because dependencies have no cycle, no need of the step that is rerun is
downstream of it. A dispatch is created with the results of that moment, so a step
that has none yet is in no danger of starting on an old one.

Of the admission of processes, for every set of agents and workspaces, all limits
and every number of rows, processes, queued starts, changes of the limits and
restarts, under `BudgetAssumption` and `AdmissionAssumption` only (numbers are
numbers, every agent has a workspace, limits are positive, and the processes that
are older than the table fit into it):

- `AdmissionTypeCorrect`: `Spec => []TypeOK`;
- `LivingHoldsSlot`: `Spec => []LivingProcessHoldsSlot`;
- `AgentRunsOnce`: `Spec => []OneProcessPerAgent`;
- `LimitsHold`: `Spec => []LivingWithinLimits`;
- `ReleasedStaysReleased`: `Spec => ReleasedIsFinal`;
- `CancelledSpawnsNothing`: `Spec => CancelledStartsSpawnNothing`;
- `AlwaysInAccord`: the inductive invariant `IInv`.

The argument: that an agent runs once is not inductive, since a confirmed exit
releases a row without asking whether another process lives in it. `IInv` says
why none can. Of the rows of an agent that are not released all but one are
legacy rows (`RowsSound`); a process is in a row of its agent, and one that lives
is in a row past "reserved" with its own pid or none (`ProcessSound`), so a probe
that finds the pid of a row absent has found its process; in a row, processes
follow on dead ones and none follows on a terminal (`SlotsAreReused`), so the
exit of a terminal, seen after its death, leaves nothing alive behind; and a
launch has the last process of its row (`LaunchSound`), so the close of a helper
gives back an empty slot. The limits are kept through `Counted`: rows that
`reserve` made and that are not released are within the highest limits, and the
living processes map one to one into them. Nearly all steps let processes die
(`Fades`), rows be blocked or released once nothing lives on them (`Follows`) and
launches go on or end (`MovesOn`), and `AccordIsKept` does these at once.
Four changes are left, each with a lemma: `ReserveAccord`, `SpawnAccord`, the
registration of a start (`MarkStartedSound`) and the return of a slot
(`FinishPreparationSound`). A restart is one of the quiet steps, `Recover` being
one that lets rows follow.

Of the snapshots of turns, for every number of turns, inputs, commits and
attachments, under `GitTurnsAssumption` only (the bounds are numbers and there is an
attachment):

- `EveryTurnIsKept`: `Spec => []NoTurnIsForgotten`;
- `RefusalsAreForOthers`: `Spec => RefusedForOthersOnly`;
- `AlwaysGood`: the inductive invariant `IInv`.

The argument: a snapshot is refused when HEAD is no longer what it was when the
turn began, and this must not be the work of another turn's snapshot. `Good`
says why: while the snapshot of a turn is outstanding, the later turns of its run
wait in the chain behind it (`Waits`) and have not asked for HEAD (`Patient`); the
chain holds each turn once, and of a run only the first turn of its chain has an
operation of a snapshot in the queue of git, after its baseline (`ChainGood`,
`QueueGood`); a commit of a turn that lies after what another one of its run has
read as its baseline belongs to a later one, whose own snapshot is then done
(`CommitsGood`); and as the queue runs one operation at a time, no turn commits
between the moment an operation has read HEAD and its end (`HeadGood`). The actions
are compositions of a few functions of the coordinator, so each function has one
lemma per part of `Good` that it can disturb.

Of the stream to the terminals, for every set of viewers, all limits, any amount
of output and of closed sockets, under `TerminalAssumption` only (the bounds are
numbers, low water marks are positive and at most the high ones, and the high
one of what is not acknowledged is at most the limit of a viewer):

- `StreamFollowsSnapshot`: `Spec => []SnapshotThenStream`;
- `AttachedMissesNothing`: `Spec => []NothingMissing`, which no run checks: while a
  viewer is attached, what its terminal shows, what is on its socket, what waits
  for the flush and what waits for the socket are together all chunks from the
  one after its snapshot to the last one printed;
- `StreamsFollow`: the inductive invariant `IInv`.

The argument: what a terminal shows says nothing of the chunks that have not come
to it, so that the next frame continues it is not inductive. `IInv` follows a
chunk through every place it may be in. For each viewer there is one chunk `b`,
that of its snapshot, after which the chunks in the browser, in the frames, in
the flow and in the bootstrap buffer follow without a gap, and end with the last
one printed while the viewer is attached (`Streams`). The snapshot itself, be it
an entry of the mirror's queue, under way or restored, is the one of `b`
(`Restores`): where the queue comes to the entry, the mirror has parsed the
output up to `b` and nothing after it (`Shows`), which is why the entry must be
queued in the same step that lets the viewer have the chunks. `Sockets` says
which of these places belong to which of the two sockets, so that nothing is in a
place before its socket is there or after it is gone. The bound on what a browser
holds back comes from the acknowledgements: the frames, what is held back and
the acknowledgements under way are together at most what the flow counts as not
acknowledged, which the limit of the viewer bounds (`Credit`); so the browser's
own limit is never met, and no acknowledgement is refused. `Good` puts these
together with the mirror (`MirrorGood`). A call of the hub for one viewer leaves
the others as good as they were (`Keeps`), so each function has one lemma, and the
actions compose them.

These proofs need to know what `FlattenSeq` of the community modules computes:
that it takes frames from the front and adds them at the end. The library's
induction theorems have an operator as parameter, which no backend here can
instantiate, so induction is done over sets: a set of numbers that is not empty
has a least element (`Least`, from `WFMin`), so a set with 0 and every successor
holds all numbers (`Inducts`) and one with `<<>>` and every extension holds all
sequences (`SeqInducts`).

Every safety property that a passing run checks is proved. Only model-checked is
liveness, that is every property of a run with a fair specification that says
something must happen: it is out of reach of the prover, as is ENABLED. What the
three runs that expect a violation check is false, so there is nothing to prove
beyond the conditional theorems above.

## 6. Not modelled

Non-interactive CLIs and CLIs without a session adapter (their attempts fail
and go to review); more than one workspace (rows of different workspaces never
meet); event log, reasons, backoff delays and payload measurement; health
timers; deletion of dispatches, workers and reports; the counters of the
workspace store; writes that bypass the delivery lane (`statusTask`, feedback of
protocol 0), except for their effect on the ledger; the start of a Codex worker
whose first unsettled row belongs to a closed dispatch, which throws before it
changes anything.

In admission: executions of verifications and workspace shells with the limit on
the former, the limit on the number of members, remote grants of queued starts,
the callbacks of a queue handler that only verifications use, and the graceful
close of the queue; the check of a native session after its terminal has
connected (`nativeLaunch.verify`) is part of `Connected`. Boot is one step: the
recovery of the budget and of the queue run before the server answers anybody.

Of workflows: the catalogue, the parsing of definitions and the rules for names of
workers; texts and artifacts of results; the history of attempts; publications that
a person has to acknowledge before a rerun; `refresh()`, which only tests call;
the graceful close; and a read of evidence that is rejected, which ends its call the
way `EvidenceThrows` does, with nothing stored of the step. `failRun` and `settleRerun`
cancel and then save in one step of the model: what a death in between leaves is a
run with some of its dispatches cancelled, which `CancelTask` reaches too.

Of terminals: input, resizing, permissions and viewers without
coordination of snapshots; the replacement of a client id; recovery of sessions;
the shutdown of the hub. Of git: the commands themselves, and the lists, diffs,
reverts and the initialisation that a person asks for.

The components of section 1 without a module are listed in `PROJECT.json` with
the reason.
