# Verification of the task, run and delivery protocols of fluxion-harness

fluxion-harness runs agents for many users. A run calls Skills; a Skill that takes long becomes a task
of a background worker, and the run waits for the result or goes on without it. What is hard in this
system is not any single service but the protocols between them: leases on database rows, messages
between services that may be lost, late or repeated, cancellation that races everything else, batches
that must end exactly once, schedules that must not fire twice, and places of a model provider that must
come back. These modules state and check those protocols.

## 1. Inventory

Paths are relative to `src/`; `W` is `apps/agent-worker/src/muad_agent_worker`, `A` is
`apps/agent-runtime/src/muad_agent_runtime`.

| Component | State it keeps | Operations | Hard behaviour | What makes it correct |
|---|---|---|---|---|
| Task lease (`W/worker`, `W/application/task_service.py`, `terminal_tasks.py`) | `task_execution` (status, lease, attempt, not_before, cancel flag), asyncio slots of each process | claim, heartbeat, write an outcome, retry, reclaim, cancel | several processes, crashes, stalls, clock read before locks | the lease fences earlier attempts; no slot is lost; budget; unsafe tasks run once; cancel sticks; every task ends |
| Deadline sweeper (`W/scheduler/service.py`) | the same rows | fail overdue tasks, settle their parents | races every other writer | a task with a deadline ends |
| Batches (`W/application/batch_*.py`, `task_cancel.py`) | parent and child rows, the parked `not_before` | plan, fan out, release a parked child, aggregate, cascade a cancel | the last two children, crash after fan-out, nesting | cap respected and used; fan-in atomic; success is earned; cancel reaches every child |
| Tool operations (`A/application/async_tools`) | `tool_operation`, `tool_control_outbox`, `tool_result_inbox`, canonical events | reserve, dispatch SUBMIT and CANCEL, admit or fail, receive, materialise, consume | at-least-once HTTP, result before admission, exhaustion | no orphan work, no lost wake-up, results are not taken back |
| Runtime operations and result outbox (`W/application/runtime_operations.py`, `W/results`) | `runtime_operation` (tombstone), `runtime_result_outbox` | submit once, cancel before or after the submission, send the result | late submission after the cancel, two copies at once | one task per call, a confirmed cancel wins, SENT means durable |
| Run waiting and slots (`A/.../continuation_service.py`, `supervisor.py`, `A/application/run_deadline.py`, `run_service.py`) | `run_record` (status, epoch, lease), `run_continuation` (cursor), the execution slots of each process | launch, checkpoint, try_wait, claim a ready run, stop, reap, expire, reclaim a slot | result between the last look and the wait; a stale executor; a claim nobody starts; a segment that hangs | a wait ends; an older epoch writes nothing; an end is final; slots are bounded and come back |
| Run admission (`A/application/run_admission.py`) | one counter per user, `admission_released_at` | reserve with the run, release with its end | seven different paths end a run | the counter is the number of open runs |
| Model capacity (`A/application/model_capacity_service.py`, `model_allocator.py`, `PooledModelProvider` in `executor.py`) | capacity rows of keys and accounts, call leases, fair-share epochs | reserve, renew, settle, release, sweep | a call is cut off while the provider works on; the window is reset under open calls | counts match the leases; the provider is never given more than its limits |
| Schedules (`W/scheduler/service.py`) | `task_schedule` | choose, resolve outside the lock, fire or skip, pause, resume, update, delete | the schedule changes while it is resolved; daylight saving; ONCE | one task per fire time; no late fire |
| Delivery (`W/delivery`, gateway `api/delivery.py`, `infrastructure/dedupe.py`, connector `outbound.py`) | `delivery_status`, `delivery_attempts`; owned placeholder in Redis; command stream | reserve an attempt, send, record, settle a stranded one | crash after the reservation, answer after the back-off, placeholder expiry | SENT is true, a second copy takes a fault, every delivery ends |
| Bot lease (`apps/im-connector`: `lease.py`, `runtime.py`, `channels/wecom/adapter.py`) | Redis lease and epoch; per process the owned and desired bots, connections | snapshot, acquire, renew, drop, connect | expiry while the owner is busy; two loops that await each other's work; a bot disabled meanwhile | newer owner, higher epoch; stale connections end; an enabled bot is served |
| Memory, learning, notifications, web chat history | job rows and read models | enqueue, claim, apply | same lease shape as tasks | - |
| Console, gateway translation, connector sockets, agent core, shared packages | configuration, sessions, files | CRUD, HTTP, sockets, model loop | - | - |

How they interact: the Runtime's control dispatcher posts `/internal/tasks` and
`/internal/runtime-operations/{id}/cancel` to the Worker; the Worker's result dispatcher posts
`/internal/tool-results` back; both go through outbox tables that are claimed under leases. Worker
processes share only PostgreSQL rows; batch parents and children meet under the locks of
`lock_task_tree`; the Redis wake-ups are hints that polling makes unnecessary. `PROJECT.json` lists every
component and, under `hazards`, every place where this can go wrong.

## 2. Plan

1. `TaskLease` with `TaskLifecycle` (what the rest of the system may rely on).
2. `BatchTree`: parents, children, fan-in and cascade over the lease's guarantees.
3. `ToolOperation`: the call from reservation to the waiting run, over the lifecycle.
4. `Schedule`: choose, resolve, fire or skip against pause, resume, update and delete.
5. `Delivery` with the gateway's owned placeholder and the connector's command, as an implementation of
   `ResultNotice`.
6. `BotLease`: the lease in Redis and the loops around it.
7. `RunLifecycle`: admission, epochs, slots, and every way a run ends.
8. `ModelCapacity`: places and windows of model calls.

All eight are written, checked, and each has a proof module in which every safety invariant and every action
property its runs check is a theorem (section 5). What could still be proved: the same refinement idea one level up,
that `ToolOperation` and `BatchTree` use of a task no more than `TaskLifecycle` allows, and that the three
implementations of "claim under a lease, conclude, or lapse" (task, outbox row, delivery row) are one abstract
protocol. No module has a RECURSIVE operator.

## 3. Modules

### TaskLifecycle
The public state machine of one task: a budget of attempts, waiting that continues an attempt, deadline,
cancellation only when somebody asked. No leases, processes or clocks. Its one flaw is the code's: `Stray`, by which an
attempt that was given up decides a task that may be repeated, after which neither budget nor cause of a cancellation
is promised.

### TaskLease
The row (`status`, `owner`, `leaseUntil`, `attempt`, `notBefore`, `cancelReq`, `code`), the database clock
`now`, the supervised executions `exec` with the phase each is in, and `slots`, the ids that
`TaskSlotSupervisor` counts. Each action is one transaction or one local step. A conclusion is two steps,
`ReadClock` and `Settle`, because the code reads the clock and then waits for the locks of the tree. A process is its
`lease_owner` string, `host:pid`, and like the code `Claim` does not look whether a slot of the process still runs the
task. Two history variables record what comes of it: `again`, the processes that took a task they still ran, and
`strayed`, the tasks whose row an earlier attempt has decided. `retrySafe` is chosen in `Init` and never changes.

| Action | Code |
|---|---|
| `Claim` | `TaskClaimer.claim_one`, `TaskSlotSupervisor.claim_and_start` |
| `Finish`, `Renew`, `StopExecution` | `_supervise_task`, `_renew_lease`, `_heartbeat` |
| `ReadClock`, `Settle` | `_handle_outcome` and the handlers behind it, `_terminal`, `_cas` |
| `Reclaim`, `Sweep`, `Cancel` | `_reclaim_task`, `DeadlineSweeper.sweep`, `TaskService.cancel` |
| `Abandon`, `Crash` | a database error or shutdown in a slot; death of the process |

### BatchTree
Rows of a tree given by `ParentOf`. It takes from `TaskLease` that one execution of a task may write (`run[t]`), and
keeps lease expiry as a flag, so that a fan-out or a wait may still find its lease gone. `SettleChild` (lock the
parent, count the siblings, release a parked one or aggregate) and `CancelChildren` are operators on the rows that
every transaction ending or cancelling a task applies inside its own action, as the code does. `concurrency` is what
`effective_concurrency` froze, anything up to the platform's limit. The code cascades level by level, follows only the
rows a level has changed, and stops after `MAX_CASCADE_DEPTH` levels; the module says the same without recursion:
`Reached` are the tasks with a chain of changed tasks (`Hit`) up to the cancelled one, at most that many levels below
it (`Depth` is the level of a task in the tree).

### ToolOperation
One operation. Three groups of state: the Runtime's tables (`op`, `inbox`, `events`, the cursor `seen`,
`run`), the Worker's (`tomb`, `task`), and the outbox rows of both with the dispatchers that work on them.
Requests are members of `wire` and never leave it, so each may be handled late, twice, next to another
copy, or never. A submission is handled in two steps because `create_task` looks for a replay before it
waits for the operation's lock. `CompleteControl` chooses among the answers a sender may hear
(`Answers`): a confirmation only of what is durable, a refusal, or nothing usable. `ToolOperation` keeps
of a task what `TaskLifecycle` promises: it starts, ends once, and an end publishes its result in the same
transaction.

Abstractions: back-off times are not kept (a released row can be claimed at once, which includes every
later moment); validation and binding checks that depend on data cannot fail here except as a refusal;
trace fields, events nobody reads and metrics are left out.

### Schedule
Rows of `task_schedule`, the API's changes of them, and one loop per Worker process. `Begin` reads the clock
of a round, `Choose` takes a copy of a due row and keeps no lock, `Handle` is what happens after the network
calls: `Fire` or `Skip` (misfire) under the row lock if `LockClaim` still finds the same revision and time,
`Superseded` if not, `Drop` if settings cannot be read. `Local` and `Attach` are what `_next_cron_fire` does
to wall-clock times, so `zone = "fold"` has the hour that daylight saving repeats. A task is identified by
the fire time, as by the unique key of `task_execution`. `resumed` is a history variable.

### ResultNotice and Delivery
`ResultNotice` is what a user may rely on: the row says SENT only of a result that arrived, never changes
its conclusion, and always reaches one. `Delivery` implements it (`ImplementsNotice`, with `verdict` mapped to
`delivery_status` and `received` to the copies and the Runtime's inbox). State: the row with the age of its
last write, what each attempt knows (`try`), the gateway's handler of each attempt (`req`), the idempotency
`key`, the connector's command `cmd`. Attempts, requests and commands share a number because each attempt
sends at most one request and each request queues at most one command. Lost answers, expired placeholders,
commands that run after their waiter has left, and a crash of each party are actions; `fault` remembers
that one of them may excuse a second copy.

### BotLease
Redis (`lease`, `epochs`) with the acquire, renew and release scripts as single steps, and in each connector
the snapshot cache, the lease loop (`keeper`), the apply loop (`apply`) and the connections (`link`). The loops
interleave at their awaits: the apply loop gives up control only where it starts a connection, and passes over the bots
that have one without doing so (`Rest`). `Disconnect` and `Reconnect` are the connection task; `hung` says that the
apply loop waits for a first attempt that was cancelled, and `Broken` that a loop of a connector has ended or hangs.

### RunLifecycle
The row of a run, the user's counter, and the processes' slots: segments (`tasks`), claims under way (`claim`) and
`reclaim_stale_executions` (`sweep`). A claim has the steps the code awaits between (`Begin`, `Take`, `Register`), a
segment goes from preparation to execution to leaving. `End` is the part every end shares; the ends are `Complete`,
`Fail`, `StopSegment`, `Cancel`, `Reap`, `ExpireQueued` and `Expire`. `told` says the end was written as a
notification. `depends` holds the runs with an operation to wait for: `Reserve` (`reserve_operation`) adds to it and
is refused once the run is to be cancelled, `Consume` is the checkpoint behind the last result, and `Cancel` empties
it, as `cancel_operations` does in the transaction of a stop. What makes a waiting run ready is one action here and
the subject of `ToolOperation`.

### ModelCapacity
Calls, the rows of the keys and of their account, the leases of the calls, and what the provider really works for
(`remote`). `Choose` reads the clock of a reservation, `Admit` or `Refuse` is the transaction that waits for the rows.
`Advance` is `_advance_transition` with its plan; `Unsent`, `Ended` and `Unknown` are the plans. `cut` holds the calls
whose executor does not know how they ended, `misread` those whose unfinished stream it took for a refusal (`Misread`:
what is left of the stream does not parse, the provider may be at it still). Only the row of the account has its
counters of requests and tokens in the module: keys have no such limits (`read_limits` gives them none).

Which conclusions one module takes from another: `BatchTree` and `ToolOperation` use the lifecycle of a task, which
`TaskLease` is shown to implement; `Delivery` uses the conclusion of the result outbox of `ToolOperation`
(`Publish`); `RunLifecycle` uses that a result makes a run ready (`ResultArrives`); `ModelCapacity` is what a segment
of `RunLifecycle` does while it runs.

## 4. Runs

| Run | Instance | Question |
|---|---|---|
| `task_execution` | 1 task that may or may not be repeated, 2 processes with 2 slots each, 2 executions at a time, 2 attempts, lease 2, clock to 6, fairness | late writers, re-entries, crashes, reclaim, retry, cancel and deadline against one row and its slots; run-once; the refinement of the lifecycle; recovery |
| `task_stale` | the same task with 1 process, no fairness | expected violation, section 6 |
| `batch` | batch of two, the first of which may become a best-effort batch of one; concurrency 1 or 2, 2 attempts, one polled child, fairness | cap, places, fan-in, verdict, cascade over two levels, and that the batch ends |
| `batch_stranded` | the same tree, no fairness | expected violation, section 6 |
| `op_delivery` | 1 dispatcher a side, 2 attempts a message, JOIN or DETACH, fairness | cancel, orphans, duplication, durability, wake-up |
| `schedule_firing` | 1 schedule, CRON or ONCE, with and without a repeated hour, 2 loops, 2 revisions, clock to 3, fairness | stale copies, one task per time, pauses, no schedule stays due |
| `delivery` | 2 replicas, 2 attempts, IM, WEBCHAT or no route, fairness | the promise of `ResultNotice`, marks, second copies |
| `bot_lease` | 2 connectors, 2 bots, 2 upsets (of one connector and one bot), 4 epochs, fairness | fencing, stale connections, takeover |
| `run_ends` | 1 run, 2 processes, 1 slot each, 2 claims, 1 upset, fairness | seven ends, epochs, slots, reaping |
| `run_stop` | 1 run, 2 processes, 1 claim, no upset, fairness of every process | expected violation, section 6 |
| `model_capacity` | 3 calls, 2 keys with 1 place, 2 places on the account, clock 1 to 3, window of 2 ticks, fairness | places, what the provider is given, misread streams, counters over the reset |
| `capacity_window` | 3 calls, 1 key, 1 request per window | expected violation, section 6 |

`Inv` of a module is the conjunction of its type invariant and of its invariants that hold of every state on their
own; the properties listed beside it are those that need a step, a history, fairness, or a reading of their own.

Bounds. `TaskLease`: two executions are the live one and a stale one of an earlier attempt, in the same process or in
another; two attempts are the smallest budget with a retry and an exhaustion; two slots let a process run one task
twice. The lease (2) is shorter than the horizon (6), so that a stall, an expiry, the back-off, a second claim and a
late write fit before the deadline (5), and the deadline before the horizon. Two tasks would double the row and not its
protocol: tasks share nothing but the count of slots, whose limit one task does not reach and which `SlotsAreBounded`
proves for any number of them.
`BatchTree`: with one place a child is parked while the other runs, waits for a poll or is itself a batch, with two
places both are at large; the inner batch gives a cancel two levels to go down. The invariants are proved for every
tree. `ToolOperation`: two attempts per message give a lost first request that is handled
next to the second one. `Schedule`: two loops hold two stale copies of one row; a second revision is one change
between choice and fire; the repeated hour is two ticks and the grace one, so a time may fall into it, before it,
and be missed. `Delivery`: two replicas and two attempts give an attempt that overlaps the next one and a last
attempt that dies. `BotLease`: two upsets are a crash, a lapse or a Redis failure and one more on the way
back; they happen to one connector and one bot (`Troubled`), which by symmetry of the names leaves out only pairs of
upsets of both connectors or both bots, while the other bot is served and the other connector works on; four epochs let
each connector own a bot twice. `RunLifecycle`: two claims are a segment and the one that replaces it; with one
slot per process a claimed run is dropped only by a closing process, and the same safety properties were also
explored with two slots. `ModelCapacity`: with two keys of one place and an account of two, either row may be the
one that is full; the clock starts one minute after the rows' window and passes the reset while calls are open.
`MaxTime` bounds clocks, `MaxAttempts` attempts, `MaxRev` revisions, `MaxEpoch` claims or leases taken,
`Upsets` faults; nothing else is cut. `CHECK_DEADLOCK FALSE` is set because every protocol here is allowed to be over.

Fairness. `TaskLease`: the clock, and each task's reclaim (the maintenance loop runs for ever and takes every
candidate in order); nothing is assumed of slots, which may hang. The sweeper's fairness is a premise of
`EventuallySettled` alone, so that `LapsedLeaseRecovers` is not owed to the deadline. `BatchTree`: some claimable task
is claimed, some running Skill or lapsed lease ends, some task is reclaimed, some overdue one swept; no task is
promised its turn, and nothing is assumed of the deadline. `ToolOperation`: both dispatch loops and the expiry of
leases weakly; the completion of a claimed row strongly, because a lease is longer than the HTTP timeout (the
constructors refuse anything else), so a row that is claimed again and again is completed under its lease at last.
Requests need not arrive: attempts run out. `Schedule`: the clock and the rounds weakly, the choice of a due row and
the handling of a chosen one strongly, because a loop may crash or lose its settings again and again, yet each round
orders due rows by time and some round gets through. `Delivery`: back-off, the loops, and the end of an attempt (every
wait of the Worker has a timeout); nothing of the gateway, the connector or Redis. `BotLease`: the periodic loops of a
live process, reconnection, and the expiry of a lease nobody renews. `RunLifecycle`: lapse of an unheld lease, the
reaper, the sweep of the slots, and that a cancelled asyncio task ends; `run_stop` adds that no segment and no claim
hangs. `ModelCapacity`: the clock, and of each call that its executor closes it or its heartbeat notices the lost
lease; the provider may never answer.

## 5. Proofs

Every safety invariant and every action property that a run checks is a theorem for every value of the constants
(numbers of tasks, processes, slots, attempts, limits, lengths of leases and clocks), from the named ASSUMEs of the
module, which TLC evaluates on every run, and from nothing else. Each proof module starts with its inductive invariant,
`IInv` in most of them; TLC was run with it before it was proved.

**TaskLeaseProofs**: `TypeCorrect`, `CancelIsKept`, `LeaseProtects`, `UnsafeTasksRunOnce`, `BudgetIsKept`,
`CancelsAreAskedFor`, `StaleAttemptsAreFenced`, `SlotsComeBack`, `SlotsAreBounded`, and `LifecycleImplemented`, the
refinement of `TaskLifecycle`; `TasksAreSafe` puts the invariants together as the `Inv` of `task_execution`. `TypeInv`
adds to `TypeOK` that a live execution has a process, a task and an attempt. `UnsafeInv` ties the row to the
executions of an unrepeatable task: before its only attempt nobody runs it, and a requeue is impossible after.
`FencingInv` is the heart. No execution is of a later attempt than its row (`AttemptsInv`), and where a process has
not taken a task twice it has at most one execution of it (`OneSlot`), which is of the current attempt if the process
owns the row (`Current`). So an earlier attempt that finds its own name in the row is in a process that took the task
again: that is `StraysAreReentries`, and it is all that can be said of the fence, because `_cas` compares the process
and not the attempt (section 6, item 3). `AskedInv` says of an execution that is to be cancelled, or whose heartbeat
stopped it, that somebody asked, or that it is of an earlier attempt, or that it can no longer write (`Fenced`);
`BudgetInv` that a task nobody has strayed is within its budget while it can be claimed. `SlotsInv` is about the ids a
process counts: what is counted is run, and a task taken once is counted while it is run. Overlapping executions of
one id pop each other's entry, so that a process may run more than it counts, but no id stays behind
(`SlotsComeBack`).

**BatchTreeProofs**, for a finite tree of any shape: `PlacesAreUsed` (the cap of a batch, and no place left empty that
a parked child could take), `LastChildEndsParent`, `SuccessIsTrue`, `CancelReachesAll`. The end of a task and the
settlement of its parent are two pieces of one transaction, and between them the invariant is false of that parent. So
`Sound(R, X)` says of any rows `R` that children exist exactly when their parent is a batch (`Family`), that the cap
holds, that success is earned, and that every parent outside of `X` is settled: its places are used, or it has ended.
`IInv` is `Sound(rows, {})`; the lemmas on `End`, `CancelChildren` and `SettleChild` follow a transaction from
`Sound(rows, {})` to `Sound(R, {p})` and back. `CancelReachesAll` is for any tree; the property itself speaks of the
levels above `CascadeDepth`, since the code stops there (section 6, item 12). `NoLostPlace` and `FanInIsAtomic` except
a batch with a child that is itself a batch, because such a child may end without settling its parent
(`batch_stranded`).

**ToolOperationProofs**: `OneCallOneTask` (`Inv`: one task per call, SENT is durable, no lost wake-up),
`ConfirmedCancelWins`, `GivenUpWorkIsCancelled`. `IInv` says what each side may conclude from what it heard:
`TaskIsCoherent` (a sent cancel has left its tombstone, a tombstone has told the task, an ended task has published),
`OpIsCoherent` (the status of the operation against its command, the task and the inbox), `WaitIsCoherent` (what a
waiting run waits for is a pending submission or the task of a JOIN), and `BusyWithCommand` (a sender works on a row
it was given). Each is false alone, because a late request or a second copy arrives in a state that only the others
exclude.

**RunLifecycleProofs**: `RunsAndSlotsAgree` (`Inv`), `EndsAreFinal`, `CancellationHolds`, `OlderSegmentsWriteNothing`.
Every step admits a run, changes an open one, ends an open one, or leaves rows and counter alone (`RowSteps`); that
classification gives the counter, the finality of an end and the cancel. `RowsMakeSense` is the strengthening: a lease
is of a running run, a released place of one that ended. The fence needs nothing of other steps: a segment that writes
compares epochs.

**ModelCapacityProofs**: `PlacesAgree` (`Inv`), `LimitsSpareTheProvider`, `WindowIsCovered`. The counters count
leases, the provider counts calls; `RemoteHolds` connects them: a call the provider works for is sent, cut off or
given up by its executor and its lease still holds the place, so that nobody has released it, unless its stream was
misread. Those calls hold places or not, but the provider's limits are about the others. `LeaseMatchesCall` says what
the lease is at each step of the executor. For the window, `ChargedInTime` bounds what a lease is charged and when it
was created, because a release takes a charge from the counters only if the lease is younger than their window.

**ScheduleProofs**: `OneTaskForEachFire` (`Inv`), `TasksFollowTheirSchedule`, `PausesAreNotMadeUpFor`,
`HandledSchedulesMoveOn`. Two facts carry them: outside the repeated hour the next wall-clock time lies after the one
it is searched from (`NextCronMovesOn`), and what a loop holds was due when its round began and is still that row if
revision and time agree under the lock (`Claimed`). That a fire time makes one task rests on the unique key alone
(`InsertTask`), and so holds also where the local clock comes back to a time and the row is due at it again. `RowPart`
adds what a row says of its pauses: what is next of a resumed CRON schedule lies after the resumption (`AfterResume`),
outside of such zones.

**DeliveryProofs**: `DeliveryIsSound` (`Inv`), `OneCopyWithoutFaults`, `MarksAreKept`, and `NoticeIsSafe`, the
refinement of the safety part of `ResultNotice`. `ReportsAreTrue` and `CommandsHaveHandlers` follow the word
"delivered" from the connector through handler and attempt to the row. `Orderly` holds until the first fault: the
handler that owns the placeholder is the only one between its first look at the key and its mark, and the only one
with a command on its way.

**BotLeaseProofs**: `EpochsFence` (`Inv`). The counter in Redis is ahead of every epoch anybody holds
(`CounterIsAhead`), so the next lease is newer than all, those of crashed connectors included (`Fenced` speaks of them
too, because a process that is presumed dead may still be about to write).

Assumed to be finite, since rows are: calls, tasks of a tree, runs (the proofs count them with `Cardinality`).

Only model-checked: every liveness property (`EventuallySettled`, `LapsedLeaseRecovers`, `BatchEnds`, `WaitEnds`,
`DueIsHandled`, `StaleConnectionEnds`, `ServedUnlessBroken`, `LostRunIsReaped`, `StuckSlotComesBack`,
`PlaceComesBackOrIsCut`, and that `Delivery` keeps the fairness of `ResultNotice`, the rest of `ImplementsNotice`):
the prover does not handle fairness and ENABLED. The four expected violations are counterexamples and need no proof.

## 6. Where code and documents disagree

With a run that shows it:

1. **A run that is asked to stop may wait for its user** (`run_stop`). `suspend_memory_confirmation` does not look at
   `cancel_requested`. If the stop comes between the executor's last look and that transaction, the run waits for an
   answer that `ensure_human_resume` then refuses, until its absolute deadline or a second stop. docs/07:119 says the
   executing pod stops it and sets CANCELLED. The other way to wait is safe, although `try_wait` does not look at the
   flag either: the stop has cancelled what the run depends on, and without a dependency `try_wait` does not wait.
2. **The quota window is not a rolling one** (`capacity_window`). The row that counts is reset when its start is two
   minutes old, and drops what was counted within the last minute; nearly twice `rpm` can pass within a second. The
   header of `model_capacity_service.py` calls the window conservative and says that nothing inside it is dropped.
3. **A stalled attempt can write the result of its successor** (`task_stale`). `lease_owner` is `host:pid`, and nothing
   stops a process from claiming a task that one of its stalled slots still runs; to `_cas` both attempts are the same
   owner, and the first to come decides the row. `worker/service.py:756-757` says a lapsed holder cannot overwrite.
   `StraysAreReentries` says that this is the only case, and that it is confined to tasks that may be repeated.
4. **The end of a nested batch is lost** (`batch_stranded`). A batch that fan-in ends does not settle its own parent
   (`batch_fanin.py:156`), which then waits for its deadline, or for ever without one, with children that were never
   released; docs/10:445 expects the parent to be settled. `FanInIsAtomic` and `NoLostPlace` except children that are
   batches, and `BatchEnds` excepts the batch that is stranded.

The model has the following behaviours too, and TLC finds each of them as soon as a property forbids it; no run is
kept for them.

5. A place is given back while the provider may still work on. A stream that is cut within a chunk or within the
   arguments of a tool call, or whose chunk is malformed, raises `ModelRequestError` (`openai_provider.py:155`, `190`,
   `390`), `_remote_proof_for` takes each of them for an answer with a 4xx status (`executor.py:1015`), and
   `_settle_failure` releases the place: against `executor.py:1010-1012`, which says that a broken stream is no proof.
   `ProviderIsSpared` counts the provider's work without these calls (`misread`).
6. A place on a key is never given back for a call that was cut off in any other way (a timeout, a stopped run, a
   stream without an end that parses, a crash): `executor.py:1011` says it waits for a confirmation or a hard timeout, and
   no code supplies either; `sweep_expired` and `ensure_lease_held` have no production caller. A cancellation between
   reservation and sending leaves an ACTIVE place that nobody releases. `PlaceComesBackOrIsCut` says that these are the
   only ways to lose one.
7. The apply loop of a connector hangs when the lease is lost during the first attempt of a connection: the event it
   waits for (`adapter.py:193`) is set by nobody once `stop` cancelled the task. The process renews its leases and
   connects nobody any more. If another of its bots is then disabled, `Snapshot` gives the lease back and the connection
   stays, because only the apply loop would stop it (`adapter.py:800-806`). Likewise nothing restarts a lease loop that
   died of a Redis error (`runtime.py:270`). `StaleConnectionEnds` and `ServedUnlessBroken` except such connectors (`Broken`)
   and say that nothing else leaves a stale connection or an enabled bot alone.
8. A holder whose lease lapsed can write, because the clock is read before the wait for locks. No other attempt has
   started by then.
9. A batch parent can fail before its children end, when its lease lapses or its attempts are used up.
10. An operation with a received result can become FAILED, when the result overtakes the confirmation of the
    submission and the last submission attempt times out.
11. A ONCE schedule resumed after its time gets that past time back, although the comment at `scheduler/service.py:383`
    says `next_fire_at` may not lie in the past.
12. A cancel goes `MAX_CASCADE_DEPTH = 8` levels down (`task_cancel.py`), nothing bounds how deep batches nest, and the
    docstring of `cancel_children` promises all descendants. `CancelReachesChildren` is about the levels above that depth.
13. The deadline of a run (`run_deadline.py`) ends it without a notification; `channel_notifications.py:5-7` says every
    terminal state writes one. The invariant says it is the only silent end.
14. `reclaim_stale_executions` reads slots and rows at different times and cancels by run: when the process claims the
    run again in between, the healthy new segment is cancelled (`supervisor.py:172`, against `main.py:141`).

Read in the code, outside the modules: `_reap_one` and `_cancel_not_started` leave the submission OPEN although
`_close_queued_run` says a terminal run must not; the cap of a tenant is only read, so concurrent admissions pass it; a
round handles at most `scheduler_batch_size` rows, earliest first, so that many stuck rows of a tenant starve the
others (`scheduler/service.py:493`); the cursor over tenants starts at most `MAX_TENANTS_PER_TICK` of them per round
(`delivery/service.py:390`); a delivery whose artifact disappears between a lost answer and the retry gets a 409 from
the gateway (`delivery.py:480`), which is in `Delivery` as the answer "mismatch"; docs/10 section 5.3 excludes cancelled
tasks from reclaim, the code ends them CANCELLED there; `batch_fanout.py:179` reads the process clock although
`db_clock.py` reserves lease decisions for PostgreSQL; an executor that holds a fresh result turns an operation that
was CANCELLED meanwhile into MATERIALIZED and then COMPLETED; usage above the reservation is not charged to the
window (`release_capacity` clamps it); the outbound loop of the connector reads Redis outside of its handlers.

## 7. Not modelled

Clock skew between hosts, the Redis wake-up hints (polling covers them), data validation, authentication,
content of results and events. Limits are constants: nobody edits a quota, a cap or a lease length while calls are
open. Of the capacity of models, the shares and weights by which the allocator orders keys are a free choice among
those with a place, and the tenant's cap, the local gate and the probe port are left out. A graceful stop of a
connector, which also releases its leases, is left out: a crash is the harder case. Creating a task or a schedule
through the API with an idempotency key is Init or one action.

- Memory and learning jobs: job rows under leases of the shape `TaskLease` covers; their effects are data.
- Channel notifications and web chat history: one row written in the transaction of an end (`told`), then read models.
- IM gateway apart from deliveries: translation and streaming of one inbound message, without state of its own that
  survives it apart from the same deduplication key.
- IM connector apart from leases and delivery commands: the vendor's socket protocol, acknowledged message by message.
- Executor's loop over model and tools, agent core: sequential, mostly I/O and prompts.
- Console, shared packages, migrations, deployment: configuration, schemas and plumbing.
