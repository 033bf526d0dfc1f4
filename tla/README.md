# Threa: a verification project for the asynchronous core

Threa is a workspace chat with agents. Almost everything it does beyond a single
request goes through two pieces of infrastructure in PostgreSQL: a transactional
outbox, from which listeners learn what happened, and a job queue, in which work
waits for a worker. On top of the outbox stands the sync log, from which every
browser tab rebuilds what it missed; on top of the queue, among others, stand
scheduled messages and the turns of the agents. All of it runs in several
processes at once, with leases that expire, requests that fail, retries and
clean-up. This project models these parts in TLA+, checks the models with TLC on
small instances, and proves with TLAPS their safety properties for every instance.

## The system

| part | state | operations | modelled in |
|---|---|---|---|
| outbox cursor (`packages/backend-common/src/outbox`, `apps/backend/src/lib/outbox/debounced-handler.ts`) | `outbox` rows with sequence ids; per listener `last_processed_id`, a window of processed ids, retry state, a lock; dead letters | insert in a writer's transaction; `CursorLock.run`: claim, fetch, handle, compact, persist, record an error, dead-letter, release; retention | `CursorCompaction`, `OutboxCursor` |
| job queue (`apps/backend/src/lib/queue/repository.ts`, message half of `manager.ts`) | `queue_messages`: when to process, claim, failure count, completed, cancelled, dead-lettered | send, batch claim, renew, extend, complete, fail, defer, dead-letter, cancel, retention | `JobQueue`, abstractly `JobLifecycle` |
| token pool and polling (`token-pool-repository.ts`, polling half of `manager.ts`) | `queue_tokens` leases; each manager's active tokens, cycle, refill timer, stop state | `runCycle`, `fillSlots`, the debounced refill, `processToken`, `stop` | `QueueTokens` |
| cron (`cron-repository.ts`, `schedule-manager.ts`, `cleanup-worker.ts`, `executeTick`) | `cron_schedules`, `cron_ticks` with leases | ensure a schedule, create ticks, move the schedule, lease, enqueue, delete, clean up | `CronTicks` |
| sync log (`apps/backend/src/features/sync`, `sequenceEvents` of the broadcast handler) | `sync_log`, its id allocator row, the retention floor, the sweep's mark | append under the allocator's lock, reconciliation sweep with a frozen cutoff, pruning, catch-up reads | `SyncLog`, abstractly `ReplayLog` |
| frontend sync (`apps/frontend/src/sync`: engine, event gate, cursor) | the cursor, the gate and its buffer, the active and the chained catch-up run, recovery flag and timer, heartbeat state | connect, resume, apply live events, catch up, heal with a snapshot, splice, reopen | `SyncClient` over `ReplayLog` |
| scheduled messages (`apps/backend/src/features/scheduled-messages`, the edit dialog) | the row with status, version, edit fence and job id; its queue jobs; open dialogs | schedule, lock for edit, release, save, reschedule, send now, cancel, fire | `ScheduledMessages`, abstractly `ScheduledPromise` |
| agent sessions (`apps/backend/src/features/agents`: companion listener, persona agent, session, runtime, orphan cleanup, message mutations) | `agent_sessions` rows with status, last seen sequence and heartbeat; the card in the stream; PERSONA_AGENT jobs | dispatch, set up or resume, compose, take in new messages, send, complete, follow up, fail, sweep, delete | `AgentSessions` |
| dispatcher and debouncer (`outbox/dispatcher.ts`, `debounce.ts`, `ticker.ts`) | LISTEN connection, timers | wake listeners, reconnect, fall back to polling | not modelled |
| calls, bot runtimes, delegations, enclave, operation leases | rows with leases and heartbeats | claim, renew, sweep | not modelled |
| messaging, streams, memos, activity, search, control plane, routers, user interface | | single-transaction CRUD, AI calls, rendering, routing | not modelled |

How the parts interact. A request handler changes domain rows and inserts outbox
rows in one transaction. The dispatcher (NOTIFY, or a poll) starts
`CursorLock.run` in some process; that hands events to a listener, whose effects
are, typically, jobs in the queue. A queue manager in each process leases tokens
for (queue, workspace) pairs, claims a batch of messages under each token and
runs the handlers. Cron is a producer of jobs driven by the same polling cycle.
The broadcast handler is the outbox listener that appends client-routed events to
the sync log and then emits them to rooms; the reconciliation sweep logs what it
missed. A tab applies live events while its gate is open, and replays the log
after every interruption. A scheduled message is a row plus a queue job that is due
with it; the dialog that edits it and the worker that fires it meet at the row.
A message to a persona becomes a job through the companion listener, another
outbox listener, unless a session is running on the stream; then the turn under
way is to take the message in, or to send a follow-up job when it completes.

What is hard here: ids become visible in another order than they are allocated;
locks and claims expire under processes that do not notice; a statement may take
effect and lose its answer; steps of one operation share no transaction; a
process may die between any two statements; process clocks differ from the
database's; and something must nevertheless happen in the end. `PROJECT.json`
lists each of these hazards at the line where it bites, with the property that
would catch it.

## Modules

Every SQL statement is one action: within a statement PostgreSQL is atomic, and
between two statements everything else can happen. A statement's WHERE clause is
the action's guard, or, where the code looks at the row count, two actions. Each
module has a clock that any process may read with an error of up to `Skew`. Time
enters only through comparisons, so a handful of instants stands for all.
Variables that no code has (what was delivered, lost, disturbed) record history
for the properties and guard no action.

**`CursorCompaction`** is `compact` and `hasUnfilledGaps` as pure operators: a
window is a function from ids to the instants at which they were processed;
`CompactByAge` is the plain form, `CompactGuarded` the one with the liveness
proof and ceiling, `CompactProven` the one without a ceiling that
`compactWithGapGuard` compares with to decide what to log.

**`OutboxCursor`** is one listener. `Begin`, `Insert`, `Commit`, `Rollback` are
the writers (ids come from a sequence, rows appear at commit). A process's `pc`
walks through `run`: `Start` (is it time?), `Claim`, `Fetch`, `Handle` or
`Throw` per event, `Compact` or `GapFound` followed by `CompactWithGapGuard`
(the liveness query is a statement of its own), `PersistProcessedState`,
`ReadRetryCount` and `RecordError` or the three statements of
`moveFirstEventToDLQ`, `ReleaseLock`. `Refresh` is the timer, `Reject` a failed
statement, `Crash` the end of the process, `Purge` retention. Nothing but
`ReleaseLock` and `Refresh` is fenced by the lock, as in the code.

**`JobQueue`** is one (queue, workspace) pair. A worker is a call of
`processMessagesForToken`; `step[w][m]` says how far `processMessage` is. The
outcomes are `Complete`, `Fail`, `FailDlq` and `Defer`; `CompleteRefused` and
`ReportRefused` are the same statements matching no row, `Reject` and
`LoseAnswer` the same statements failing before and after they took effect.
`Claim` picks any set of claimable rows, since SKIP LOCKED may pass over any.
`Release` is what every outcome does to the claim columns.

**`JobLifecycle`** is what the queue promises without workers, clocks and
statements: send, lease, and one outcome per lease. `JobQueue` implements it
under the mapping `StateOf`, which reads a job's state off the row's columns.

**`QueueTokens`** is one tier. What happens under a token is `JobQueue`; here it
is a claim of some pending messages and handlers that may hang. The lease is one
`INSERT ... SELECT` that decides on its snapshot in `FillSlots` and whose rows
appear in `TokensLeased`; between the two, other managers and the refill timer
act. `Selected` is the interleaving of slots across pairs (the age order within
a slot is left open).

**`CronTicks`** is one schedule on several nodes: `FindDue`, `InsertTick`,
`MoveSchedule` are the three statements of `generateTicks`; `LeaseTick`,
`Enqueue` (or `EnqueueFails`) and `DeleteTick` are a tick's execution; `Cleanup`
is CleanupWorker. A tick row is an instant plus a generation (`created`), which
stands for its id.

**`SyncLog`** is one workspace's log. `AppendBegin`, `AppendLock`, `AppendCheck`,
`AppendCommit` are the statements of `appendForWorkspace`, used by the sequencers
(`SequenceEvents`) and the sweepers (`SweepStart`, `SweepWindow`, `SweepList`,
`SweepNext`); `Fail` rolls the transaction back. `BeginWrite` and `EndWrite` are
the domain transactions whose start is their rows' `created_at`, which is why rows
appear with a date in the past and why `FrozenCutoff` looks at running
transactions. `Prune` is one statement that deletes and raises the floor.
`ReadEntries` and `Respond` are the two reads of a catch-up request.

**`ReplayLog`** is the log as clients know it: a head, a floor, the ids retained.
`SyncLog` is shown to implement it and `SyncClient` extends it, so the two
compose: what the client is checked against is what the server is shown to give.

**`SyncClient`** is one tab. `Append`, `Emit`, `EmitOutOfOrder`, `EmitLost`,
`Prune` are the server; `Disconnect`, `Connect`, `ConnectivityResume`,
`JoinRooms`, `WindowCloses` the socket and the bootstrap window. A catch-up run is
a record that walks through `LoadCursor`, `FetchEntries`, `Reply`, `ApplyEntry`
and, to heal, `SnapshotRead` and `SnapshotLands`; it ends in `LeavePaused`, or in
`TakeBuffer`, `SpliceNext` and `Reopen`. Each await of the code separates two
actions. `run.stale` is the comparison of the run's cycle with the current one.
`holes` records which of the known ways of losing an entry were met.

**`ScheduledMessages`** is one row. A request is two actions, the unlocked read
(`BeginUpdate`, `BeginSendNow`, `BeginCancel`, `FireReads`) and the UPDATE that
repeats the check, with all that follows up to the commit (`Update`, `SendNow`,
`Cancel`, `LockForEdit`, `FireSends`, `FireThrows`, ...). A text is the number of
the save that wrote it. **`ScheduledPromise`** is what the author is promised:
edit while pending, then one final state, and the text sent is the last saved.

**`AgentSessions`** is one persona in one stream. `ListenerDecides` and
`ListenerSends` are `processEvent` of the companion listener, whose read of the
latest session and whose send share no transaction. A worker's `pc` walks through
a job: `Claim`, the read and the write of the setup (`SetupReads`, then `Resume` or
`InsertRunningOrSkip` under the partial unique index),
`Hydrate`, `CheckNewMessages` after each call of the model, `SendMessage` (the
look at the session) and `CreateMessage`, `CompleteSession`, `CheckForUnseen`, or
`Catch` and `MarkFailed`, and last `Report` to the queue. `FindOrphaned` and
`FailOrphan` are the sweep, `ListSessions`, `MarkDeleted` and `PurgeReplies` the
handler of a deleted message. `Stop`, `TurnThrows`, `HandlerThrows`, `CompletionFails`,
`MarkFailedFails`, `Crash`, `ClaimLapses` and a missed heartbeat are what goes
wrong. `answered` and `excused` record how far replies, or known ways of dropping
messages, have come; `holes` which of six named events were met (`"unstarted"`,
`"displaced"`, `"repeated"`, `"overtaken"`, `"revived"`, `"kept"`). The handler of a
deletion lists the sessions of the trigger once (`ListSessions`, `doomed`) and marks
and purges each in turn (`NextDoomed`); `PurgeFails` is the deletion of a reply that
throws and is only logged, `DeletionThrows` the handler that throws and is run again.

`MCOutboxCursor`, `MCJobQueue`, `MCQueueTokens`, `MCCronTicks`, `MCSyncLog`,
`MCSyncClient`, `MCScheduledMessages` and `MCAgentSessions` instantiate them for
TLC, with symmetry sets where a run is not about liveness. Definitions marked as
mutants change one definition the way a plausible bug would; no specification uses
them. They show that each property can fail.

## Runs

| run | instance | properties |
|---|---|---|
| `outbox_gaps` | 1 process, 2 sessions, 3 ids, id 2 may throw, batches of 2, one retry without backoff | `GapGuardSound`, `OncePerEventUndisturbed`, `InOrderNeverLost`, `DeadLetterThrew` |
| `outbox_contention` | 2 processes, 1 session, 2 ids, a poison event, locks of one instant | `TypeOK`, `InOrderNeverLost` |
| `outbox_progress` | 1 process, 1 session, 2 ids whose events may both throw, fairness | `EventuallyAccounted` |
| `queue_claims` | 2 workers, 1 message, 2 attempts, denials, delays, fairness | `TypeOK`, `RunnerOwnsClaim`, `OutcomeKept`, `RetryBudget`, `ImplementsLifecycle`, `EventuallySettled` |
| `tokens_fair` | 1 manager, 2 pairs, 3 tokens, budget 2, mode "workspace", handlers that need not return, fairness | `BudgetRespected`, `PairTakenOnce`, `EventuallyWorkedOn` |
| `cron_ticks` | 2 nodes, 2 executions under way, a deployment that lengthens the interval, leases that lapse at the next instant, fairness | `NoTickLost`, `OneJobPerTick`, `ScheduleCatchesUp` |
| `sync_log` | 1 sequencer, 1 sweeper, 1 reader, 3 outbox rows of which 1 is unroutable, batches of 2, 1 failure, fairness | `AppendsNeverCollide`, `IdsDense`, `SweptRowsLogged`, `CatchUpHidesNothing`, `ImplementsReplayLog`, `EventuallyLogged` |
| `sync_client` | 2 entries, a buffer of 1, snapshot from 2 entries on, any 2 troubles of all kinds, fairness | `NothingPassedBy`, `GateOwned`, `EventuallyReached`, `GateReopens` |
| `scheduled_messages` | 2 dialogs, 1 worker, 2 times, 2 texts, 2 attempts, 1 trouble, fairness | `SentAsSaved`, `PendingHasJob`, `FirstSaveWins`, `NeverSentMidEdit`, `ImplementsPromise`, `EventuallySettled` |
| `agent_sessions` | 2 workers, 2 messages, 2 attempts, troubles within a budget of 8 (`CostOfEight`), fairness | `CardHonest`, `RepliesPurged`, `MessageReached`, `SlotFreed` |
| `sync_gap` | 2 entries, a failing request | `CursorOnlyPastHanded`, violated |
| `scheduled_failed` | 1 dialog, the fault `"late"` | `FailedSentNothing`, violated |

Why these bounds are enough for the cases that matter. Three ids and two
sessions are what a gap with an id on each side needs; two ids and two processes
what a stolen lock needs: with one process the mutant of `outbox_contention`, which
moves the cursor on from what the row says now, passes unseen. Batches of two are
what partial progress needs; that either event may throw lets one be handled
before a poison one in every order. One retry is
the least for which `DeadLetterThrew` holds (see the variants), and without a
backoff it fits into the clock. Two
workers make a displaced one, and as a message may wait between `Claim` and
`Start`, one is enough for a claim that runs out before its handler begins;
`maxRetries` 2 has a retry and a dead letter. That several messages of a batch do
not disturb each other is left to the theorems, which hold for any number. Three
tokens are one more than the budget: the third is leased for a pair whose first
lease has lapsed. Mode "none" is left to `BudgetIsRespected`, which holds in both
modes. Two nodes are what a stale schedule needs, and two executions under way what
meets at one tick: two nodes lease it one after the other, or one node while its
earlier call hangs. A tick is created once per instant (`MaxRows` 1); that one
created again gets a job of its own is left to `TicksYieldOneJobEach`.

In `sync_log` a sequencer and a sweeper are two different writers of the same row,
three rows with one unroutable are a full batch followed by another, and
`MinKeep` 1 lets retention prune the first of two entries under a reader. In
`sync_client` two entries are one that is missed and one above it that could carry
the cursor past it; a buffer of one overflows on the second; two troubles are a
disconnect plus anything that can go wrong in the recovery from it, or an
interruption of that recovery. In `scheduled_messages` two dialogs race for a save
while a worker fires, two texts and times make a reschedule, and clock 2 lets a
fence raised at 0 or 1 run out. In `agent_sessions` two messages are one that
starts a session and one that is left to it, two attempts are a retry and a last
one, and two workers are one that was displaced or two triggers at a time. `Cost`
gives each kind of trouble a price, and `MaxTroubles` is what may be spent: any two
of a failing turn, a denial and a failing statement, a failing turn with a missed
heartbeat or a deletion, a deletion with a failure of its handler, or one crash,
lapsed claim or stop. A crash together with another trouble takes more than the five
minutes set for a run.

Clocks run just far enough for a lease taken at 0 to expire and be taken over.
`queue_claims`, `cron_ticks`, `sync_*`, `scheduled_*` and `agent_sessions` run without the deadlock
check: when every message is settled, or the clock is at its bound and all is
dealt with, the modelled system has nothing to do.

### Disagreements between the code and its comments

Two runs check what a comment says and find it violated:

* `sync_gap`: "the cursor only ever moves past entries that were actually handed
  to handlers". After a catch-up request fails, the run's `finally` splices the
  buffered live events in and they move the cursor over the entries the request
  should have brought. `NothingPassedBy` states what does hold.
* `scheduled_failed`: a conversation that is gone "rolls back the whole send".
  `fire` catches the error inside its transaction and commits, so the message is
  in the stream while the row says `failed`. This failure, `"late"` in `Faults`,
  is the only one left out of `scheduled_messages`.

Two more were met in states that a property excuses by name:

* Closing one edit dialog drops the fence of every other one. The fence is
  "Anonymous (no owner): multiple editors share the fence and any of them keeps the
  worker out" (`scheduled-messages/repository.ts:62`), but `releaseEditFence` clears
  it whoever raised it, and the worker may send under the dialog that is still open.
  Hence `NeverSentMidEdit` asks only for fences that no dialog has dropped.
* A deleted session may come back to life. The handler of a deletion is to "mark
  related sessions as deleted and delete their sent messages"
  (`message-mutation-outbox-handler.ts:107`). A catch block that read the session
  before it was marked (`companion/session.ts:273`) writes "failed" over it
  (`companion/session.ts:304`, no condition on the status); the job's next attempt
  resumes the session and replies. `RepliesPurged` excuses it as `"revived"`.

### Variants

Other instances worth running, each with one change to a configuration or to a
property, or with one property more. TLC refutes all but the last; the definitions
are in the modules.

* `OnlyCeilingLoses` (`OutboxCursor`, instance of `outbox_gaps`): "the one path
  that can still lose an event" is said of the gap ceiling. A row that commits
  between the fetch of a batch and the liveness query is lost silently as well: it
  was not fetched, and its transaction no longer runs. `InOrderNeverLost` states
  what does hold.
* `ThrownIsRetried` (`OutboxCursor`, instance of `outbox_gaps`): a thrown event and
  the rest "are retried". With an aged higher id in the window, the compaction
  after the partial failure takes the thrown event for a dead gap.
* `DeadLetterThrew` (`OutboxCursor`, `MaxRetries` 0, `MaxId` 4): without a retry a
  batch that got something done may go to `moveFirstEventToDLQ` at once, with a
  cursor that has passed the event that threw, and the next one is dead-lettered in
  its place. The code's `maxRetries` is 5; the theorem asks for at least 1.
* `CancelledWasPending` (`JobQueue`, instance of `queue_claims`): `cancelById` is
  for "a pending queue message", but also cancels a dead letter, which retention
  then deletes early.
* `OneTokenPerPair` (`QueueTokens`, two managers): "at most one active token per
  (queue_name, workspace_id) pair" is not what two overlapping lease statements
  give. `PairTakenApart` states what does hold across managers: while no lease
  lapses and no two lease statements overlap, two active tokens never share a pair.
  It is a theorem, and TLC agrees with two managers, one pair, two tokens and a
  budget of 1 (365 thousand states); without the condition on overlaps it is
  refuted there.
* `OneTickPerInstant` (`CronTicks`, `MaxRows` 2, two executions): "one canonical
  tick per schedule interval across all nodes" does not survive a node that read
  the schedule before another moved it.
* `EventuallyLogged` (`SyncLog`, `Routed` and `Visible` set to `{3}`): the sweep's
  mark moves only when a batch comes back short, so `BatchSize` unroutable rows at
  the front starve every later row, although the sweep is called "the completeness
  guarantee".
* `GateReopens` (`SyncClient`, `SlowRuns` TRUE, no faults): a heal that outlasts
  the heartbeat's grace period is superseded by the next heartbeat, for ever.
* `NothingPassedBy` without the excuse `"early"` (`SyncClient`, `MaxHead` 3,
  `Visible` `{2, 3}`: two entries appended after a heartbeat about another one): a
  chained run may start inside a bootstrap window before the rooms are joined, and
  the next live event passes by what was emitted meanwhile. With the excuse all
  three invariants hold on that instance too (1.2 million states, without the
  temporal properties, which take more than five minutes).
* `NothingPassedBy` with `Collapse` above `PageLimit` (`SyncClient`, `PageLimit` 1,
  `MaxPages` 1, `Collapse` 3, three visible entries): a run that is cut off after
  its last page splices the buffer in, past the rest of the log. The code's 200 and
  500 (`sync-engine.ts`) make this unreachable; the theorem asks for that order.
* `EventuallyReached` without the excuse `"blind"` (`SyncClient`, instance of
  `sync_client`): the head of an empty page is read after the entries.
* `EventuallySettled` (`ScheduledMessages`) without the disjunct for dead letters:
  `worker.ts` speaks of a bounded retry counter in `fire` that would mark the row
  failed; `incrementRetryCount` has no caller, so a fence that outlasts the queue's
  retries strands the row as pending.
* `CardHonest` without the excuse `"unstarted"` (`AgentSessions`, instance of
  `agent_sessions`): while another session runs, the resume of a failed one runs
  into the unique index and throws, which uses up the job's attempts; the card goes
  on saying that it is being retried, although "the queue will retry the SAME
  session". Without the excuse `"displaced"`: a worker whose claim has lapsed fails
  a session whose job another worker has settled. Without the excuse `"repeated"`
  (three messages, a crash, a deletion and a failing turn): a crash after the
  follow-up was sent lets the redelivered job send it again, the two jobs share
  their trigger and make a session each, and the earlier session, interrupted, is
  not the one that the last job looks up.
* `RepliesPurged` with one of its excuses taken away, each refuted on its own.
  `"overtaken"`: `doSendMessage` looks at the session and inserts the reply in two
  transactions; a deletion between them purges what is there and the reply comes up
  afterwards. `"revived"`: a turn throws, its catch block reads the session, the
  deletion marks and purges it, the catch block marks it failed, and the next
  attempt resumes it and replies. `"kept"`: deleting the reply throws, which
  `deleteSessionMessages` only logs. The property is about sessions that were ever
  marked: a job that is claimed after the deletion starts a session of the deleted
  message that nobody marks.
* `MessageReached` with one of its excuses taken away, each refuted on its own: the
  reply that is sent although messages arrived during its call, which are marked as
  seen (even with `MaxTroubles` 0); the redelivered job whose session is completed,
  so that no one looks for unseen messages after a crash at that point; and the
  displaced worker that marks a message as seen by a completed session.
* `TypeOK` of `QueueTokens`, `CronTicks`, `SyncLog`, `SyncClient`,
  `ScheduledMessages` and `AgentSessions` holds on the instances of their runs; it
  is left out of the configurations for brevity, and is a theorem for all of them
  but the first, of which the parts that the proofs use are proved.

## Fairness

`FairSpec` of each module assumes what the code's scheduling gives: a process
carries on with statements it has begun (`WF` of each process's work), the
dispatcher's fallback poll, the polling cycle and the tickers run for ever (`WF`
of `Start`, `Claim`, `Poll`, `FindDue`, `LeaseTick`), and time passes. Crashes,
failing statements, stops and deployments may happen any number of times but not
for ever (`<>[]`). Handlers return in `JobQueue`, where the property is about
them; in `QueueTokens` they need not, since the property is that a hung one does
no harm. In `SyncLog` transactions end, the sweep's ticker fires, and a writer
that waits for the allocator row gets it in turn (`SF` of `AppendLock`, since the
row's lock queue is first come, first served); nothing is assumed of the
sequencers but that they finish what they began, since the sweep is there for what
they miss. In `SyncClient` the broadcast handler and the heartbeat keep running,
socket.io reconnects, promises settle and timers fire; disconnects, resumes,
failures and heartbeats that overtake a run are bounded by `MaxTroubles`, and a
grace period that ends while a run is under way counts as one of them unless
`SlowRuns`. In `ScheduledMessages` time passes, due jobs are claimed and handlers
end; nothing is asked of the author, who may leave a dialog open for ever. In
`AgentSessions` the listener and the sweep keep running, the queue hands its jobs out and takes deserted ones back, and model
calls return or throw; the user and the handler of deletions owe nothing, and
troubles are bounded by `MaxTroubles`. Renewal
timers have no fairness. As clocks are bounded, an event whose
retry or lease lies beyond the last instant is excused (`OutOfTime`).

## Proofs

Each proof is an inductive invariant, one step per action; nothing is assumed but
the named assumptions on constants (types of counts and durations, `None`
distinct from what it stands in for), which TLC evaluates on every run.

* **`OutboxCursorProofs`**: `TypeCorrect`, `GapGuardIsSound`,
  `NothingInOrderIsLost`, `EventsAreHandledOnce`, `DeadLettersThrew`. It begins with lemmas on the operators of `CursorCompaction`:
  a compaction never moves the cursor back, never past the largest expired or
  contiguous id, and keeps what it has not passed. `GapGuardSound` alone is not
  inductive: the invariant says of every window, stored or local, that each entry
  was stamped no earlier than the start of any running transaction that holds a
  smaller id, with the skew pad making up for the process clock; this is what
  makes the liveness query a proof. `InOrderNeverLost` needs that every id at or
  below a cursor, or in a window, stored, local or in hand, was handled,
  dead-lettered or overtaken. The last two theorems rest on `CalmInv`, the
  invariant of a listener that nothing disturbed: one process works, its cursor and
  window are the row's, and what it has in hand was not handled before.
  `DeadLettersThrew` assumes `MaxRetries > 0`: then a run that made progress resets
  the count first, and the first event after the cursor is the one that threw.
* **`JobQueueProofs`**: `QueueTypeCorrect`, `RunnersOwnTheirClaims`,
  `RetriesAreCounted`, `OutcomesAreKept`, `QueueImplementsLifecycle`. `ClaimInv`
  says who owns which row: a worker with a message in hand is the current owner
  or has been displaced, a displaced worker is not named in `claimed_by`, a
  claimed row is live. From it the fence on `claimed_by` makes the count a worker
  remembers equal to the row's, so that every action maps to a step or a stutter
  of `JobLifecycle`. `RetryInv` counts throws against failures reported.
* **`QueueTokensProofs`**: `BudgetIsRespected`: active tokens plus those granted
  by a lease in flight never exceed the budget, which needs `fillInProgress`.
  `PairsAreTakenOnce` and `PairsAreTakenApart` (the same across managers, while no
  two lease statements overlap) need the rows of a statement in flight to count too,
  a token to belong to one manager, and nobody to delete the row of a token in use
  (`PairInv`).
* **`CronTicksProofs`**: `TicksTypeCorrect`; `NoTickIsLost`: a call about to
  delete the present row has enqueued a job for it; `TicksYieldOneJobEach`: per
  instant, the jobs, the calls about to enqueue one and the row nobody has leased
  together never exceed the rows created and the leases taken over after they lapsed
  (`PaidFor`).
* **`SyncLogProofs`**: `SyncTypes`, `AppendsAreSafe`, `IdsStayDense`,
  `SweepMissesNothing`, `CatchUpIsComplete`, `LogImplementsReplay`. `LogInv` is
  about the table: the holder of the allocator's lock knows the current
  `next_sequence` and exactly which of its events are logged, events have one entry
  each, what is missing below the head is at or below the floor. `SweepInv` is
  about the sweep: no transaction that may still show a row older than a frozen
  cutoff is running, and a batch that came back short held all there was. With
  `PagesCover`, which follows a page from its read through later prunings, every
  action maps to a step or a stutter of `ReplayLog`.
* **`ScheduledMessagesProofs`**: `ScheduledTypes`, `SendsWhatWasSaved`,
  `PendingRowsHaveJobs`, `LaterSavesAreRefused`, `WorkersWaitForEditors`,
  `ScheduleKeepsPromise`. `ScheduleInv` says that the row tells what is in the
  stream, that every change of text, time or job moves the version (so who has the
  version has the text), that no dialog believes in a fence the row does not have,
  and which job a worker holds. `SendsWhatWasSaved` and `ScheduleKeepsPromise`
  assume that the fault `"late"` is not among `Faults`: with it they are false,
  which is what `scheduled_failed` shows.
* **`SyncClientProofs`**: `TabTypes`, `GateIsOwned`, `NothingIsPassedBy`. `TabInv`
  is what holds whatever goes wrong: the shape of a run at each of its steps, and
  that every id above the floor can be read. `GateInv` adds to `GateOwned` that a
  superseded run has a successor queued or awaited. `PassInv` says that, without a
  loss, emits go out in log order, and that what a run or the buffer has in hand
  lacks no entry below its last one that was not handed over before; while the
  rooms are not joined, the gate is paused and no run that counts is under way.
  `NothingIsPassedBy` assumes `Collapse <= PageLimit`.
* **`AgentSessionsProofs`**: `SessionsTyped` (with one running session at a time),
  `DeletedRepliesStayAway`, `CardsKeepTheirWord`. `PurgeInv` describes what the
  handler of a deletion has got done while none of its three excuses was met: a
  session it marked stays deleted, no worker is about to insert a reply for one, and
  each is purged or still ahead of the handler.
  `CardInv` describes a stream in which none of its own three races was met: each
  trigger has one job, every session of it but the latest is deleted, a busy worker
  holds its claim and works on the latest session of its trigger, and a worker that
  will report its job as done has left no session of it interrupted. It was checked
  with TLC on 8.7 million states before it was proved.

Only model-checked: the liveness properties (fairness and `ENABLED` are outside
the prover's reach) and the refutations. Every safety invariant, action property
and refinement of the passing runs is a theorem.

## Abstractions

Payloads, event types, workspace ids, error texts, logs (other than the one alarm
a property is about) and metrics are left out. One listener, one pair, one tier
and one schedule are modelled because each statement touches the rows of one at a
time; the budget of a tier is shared by its pairs in `QueueTokens`. Batch order
is by id in the outbox and left open in the queue, where only ages decide it.
Retention ages are left open: a terminal row may go at any time. Listeners start
at id 0; `ensureListenerFromLatest` is not modelled. A worker slot stands for a
new worker id each time it claims; an expired token row's id is used again, and
new token rows take the smallest free ids.

`SyncLog`: delivery groups are reduced to whether there are any, a user's
visibility to a set of ids; payloads are hydrated at serve time and carry no state.
That the cursor may hand the sequencer rows twice, late or never is `OutboxCursor`'s
matter: here a sequencer takes any visible rows.

`SyncClient`: the tab starts after its first snapshot, with the cursor at the head.
An emit and its arrival are one step, and a lost emit stands for a half-open
socket too. The rooms are one set, and joins succeed or the socket drops. The head
of a response is read with its floor. The tab's workspace-level handlers are
modelled, not the per-stream bootstraps; pull-to-refresh, the persistence of the
cursor, reloads and account switches are left out. `Collapse` (200) is below
`PageLimit` (500) in the code, so that a second page follows only a page that was
short of the collapse threshold; the instance keeps that order (2 and 2).

`ScheduledMessages`: one row and one worker; what workers do to each other's claims
is `JobQueue`'s matter, and here a claim can be taken over only when its holder has
crashed or moved on. The backoff between attempts is left open. `sendNow` and
`cancel` come from closed dialogs, a dialog waits for its save before it closes, and
each dialog has one request at a time. Closing a dialog and releasing its fence are
one step; in `scheduled-edit-dialog.tsx` the release is sent and not waited for, and
the dialog may be closed during a save. A release that arrives late drops the fence
of whoever has the dialog open by then, which is the disagreement named above; no
property speaks of the time in between. Whether the author may still write to the
stream is the fault `"denied"`; `schedule` is atomic by the unique index on the
client message id.

`AgentSessions`: sequence numbers count the user's messages; other events of the
stream, edits and deletions as things a turn would see, are ignored. The tools and
iterations of a turn are folded into rounds of composing and looking for new
messages, and a turn sends one reply. The claim
and the read of the latest sequence after it are one step. What the queue does when
the report of an outcome fails is `JobQueue`'s matter.

## Not modelled

* The dispatcher, its LISTEN connection and the debouncer: `OutboxCursor` assumes
  only that a run is started again and again, which the fallback poll gives.
* The routing of the broadcast handler to groups, permission rooms and bot rooms,
  the tab's cold start and per-stream bootstraps, the optimistic operation queue.
* Of the agents: reruns after an edit and superseded sessions, mentions, scheduled
  follow-ups and subagents, which send jobs of their own to the same worker; tools,
  prompts and model calls.
* Calls, bot runtimes, delegations, enclave work and operation
  leases: the same shape of lease, heartbeat and sweeper as the queue; each is a
  candidate for a module of its own.
* Messages, streams, activity, memos, search, control plane: single-transaction
  CRUD whose concurrency is the outbox's; language-model calls and rendering are
  outside what a model checker can say anything about. Routers are stateless.

## Plan

1. Done: outbox cursor, job queue with its abstract lifecycle, token pool, cron,
   sync log with the abstract replay log, the client over it, scheduled messages
   with their abstract promise, agent sessions; all model-checked, and all their
   safety properties and refinements proved.
2. To prove next: the invariants that the liveness arguments lean on, where they say
   something by themselves (a waiting writer of the sync log has a holder that can
   move, a claimed job has a live holder or a lease that ends), and `TypeOK` of
   `QueueTokens` as a whole.
3. Further components, if the code moves there: the dispatcher with its
   composition with `OutboxCursor`'s start condition, calls, bot runtimes.
