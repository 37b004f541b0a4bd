# Verification of the Ku runtime

Ku is a language toolchain in Rust: a compiler front end, an interpreter with a
task runtime, native back ends, a package manager and registry, and supervisors
that keep Ku programs running. This directory holds TLA+ models of the parts
whose correctness depends on how threads, processes, crashes and time interleave,
the TLC runs that check them on small instances, and TLAPS proofs for every
instance.

## Inventory

| Component (source) | State | Operations | Modelled |
| --- | --- | --- | --- |
| Task lifecycle (`runtime/task.rs`, `task/retirement.rs`, `task/cancellation.rs`) | per task: status, result slot, pending frame, cancellation context, retirement flags; per runtime: producer gate, active count, registry, bounded queue with a cached head, counters | submit, reject, queue, claim, run, complete, cancel, await, release, drain, retire, account, shut down | `TaskLifecycle`, `TaskContract` |
| Await and helping (`task/await_ticket.rs`, `task/local_driver.rs`, `task/runner.rs`) | await tickets, wait graph, a stack of frames per thread | claim an await, register a wait, poll, help, resume | `AwaitHelp` |
| Blocking pool (`task.rs` 191-368, 1859-2059, 2915-3002) | bounded channel, admission lock, counters, retirement guards | submit, run, respond, retire, close | `BlockingPool` |
| Scope exit (`interpreter/cancellation*.rs`, `task/cancel_batch.rs`) | children of a scope, one shared deadline, the sole outcome | cancel, wait until terminal, wait until retired, finally, discard | `ScopeExit` |
| Service supervision (`service_supervision.rs`, `service_supervision/child.rs`) | phase, generation, probe failures, restart window, backoff, the child's process group, stop flag | launch, probe, drain, clean up, restart, back off, stop | `ServiceSupervision` |
| Bounded processes (`process_execution.rs`) | job queue, memory ledger, process groups, captures | reserve, start, capture, clean up, report, give up | `ProcessExecution` |
| Interpreter HTTP (`interpreter/http_io.rs`, `netpoll.rs`, `interpreter.rs`) | connection slots, pending queue, permits, a rejection, job and response channels, wake socket | accept, read, dispatch, answer, expire, reuse, evict, reject, stop | `HttpServer` |
| Package registry (`registry_server.rs`) | a directory tree per package, pending marker, signed index generations and pointer, lock | publish, yank, read, recover, clean up, audit at start | storage in `RegistryStore`; HTTP, signatures and administration not |
| HTTP listener registry, native runtime in C (`backend/c_*`), front end, IR, interpreter values, back ends, package manager, CLI, TLS, editors, deployment | | | no, see *Not modelled* |

How the parts interact: the interpreter submits closures to the task runtime and
awaits their handles; a waiting task may help, that is, run a queued job on its
own stack; a blocking call of a task is a job of the pool that counts as an
obligation of the task; a leaving scope cancels its children and waits for their
*witnesses*, which also read those obligations; the interpreter's end
(`interpreter.rs:419`) calls `cancel_all_and_wait`, which waits for tasks and pool.
The HTTP server runs its handlers on the interpreter's thread, between which it
polls for termination. A supervisor sees a Ku program only as a process: its exit
code, its health routes, its output and its process group. The registry shares
nothing with the runtime.

What is hard here:

* five kinds of threads (producer, claimant, canceller, owner, shutdown) work on
  one task, each under its own short lock, and hand the captured frame, the duty
  to complete and the duty to account to each other;
* every counter and registry is updated after the fact it counts, and shutdown and
  witnesses read several of them one after the other;
* user code (constructors, bodies, destructors, handlers, blocking operations) runs
  between the critical sections and may take forever;
* frames of unrelated tasks lie on top of each other on one stack;
* a response, its deadline and the sleep of the I/O thread race each other;
* a child process dies, hangs or leaves descendants at any moment, stop requests
  arrive on a socket and as a signal, and provider calls fail halfway;
* the registry must survive process deaths and power losses between any two of its
  renames and syncs.

The properties that make the parts correct are listed with the runs below; the
places where they could fail are the `hazards` of `PROJECT.json`.

## Modules

### `TaskLifecycle`

Grain: one action is one critical section of a task's result lock, one atomic
read-modify-write of a runtime counter, or one stretch of user code between two.
Consecutive updates of statistics by one thread, which only `task.stats()` reads,
are one step, but for `finish_task_accounting`, each of whose updates is a step of its
own. Every activity has a program counter per task:

| Variable | Code |
| --- | --- |
| `spawn[t]`, `admitted[t]` | how far `spawn_start_deferred` is, and its unit of `producer_gate` |
| `body[t]` | the worker or helper that took the queue node (`task_worker_loop`, `execute`) |
| `comp[t][r]` | the call of `complete_with_status` and `finish_task_accounting` made in role `r`: the builder (`install`), the rejecting submission (`reject`), the claimant that refuses (`refuse`) or ran the body (`body`), the canceller (`cancel`), and the queue node's retirement (`node`) |
| `frame[t]` | who owns the captured closure: the submission, `pending_run`, or a role; a set, so that two owners can be expressed |
| `owner[t]`, `drain[t]` | `release_owner` and the owner drain |
| `shutdown`, `waiting_for`, `todo`, `observed`, `expired` | `cancel_all_and_wait` |
| `status`, `result`, `reason`, `cleanup_deadline`, `submission`, `completion_cleanup_done`, `accounting` | the fields of `TaskState` |
| `producer_count`, `active_tasks`, `states`, `stats`, `queue`, `head`, `queued_tasks` | the fields of `TaskRuntimeInner` and of the queue receiver |

The actions follow the code top to bottom: the submission
(`BeginSpawn` ... `Leave`), completion and accounting (`DestroyFrame`, `Publish`,
`Discard`, `ClaimAccounting`, `Unregister`, `ReleaseActive`, `CountFinished`,
`AckAccounting`), execution
(`Dequeue`, `ReturnCredit`, `ClaimRun`, `FinishBody`, `FinishTaskJob`,
`RetirePrefix`, `CachePrefix`), the handle (`CancelHandle`, `AwaitResult`,
`ReleaseOwner` ... `DrainOwnerResult`) and the shutdown (`BeginShutdown` ...
`PollActive`, `Expire`). A data-dependent failure is an action guarded by the
constant `Faults`.

Left out: poisoned locks, a disconnected channel (the runtime owns both ends), a
full channel behind a credit (`QueueBounded` shows that it cannot happen), a queue
limit of 0 (a rendezvous channel, in tests only), panics of destructors, the
blocking counters (they are `BlockingPool`'s), and which thread a claimant is (that
is `AwaitHelp`'s).

### `TaskContract`

What a task promises, in five variables per task: captured, started, cause,
outcome, retired. Work starts at most once and never after a cancellation, its
outcome is published once and after the work is gone, a published outcome agrees
with the cause, and the runtime gives a task up only after that.
`ImplementsContract` says that `TaskLifecycle` implements it.

### `AwaitHelp`

A thread is a stack of frames of which only the top runs. Awaiting is
`claim_await`, `register_wait` (the wait graph and its depth limit), then a loop of
`poll` and `help`; a helper takes the next queued job, whatever task it is, and runs
it on top. The flat driver and the recursive one push and pop alike and are one
stack here. Bodies start the tasks they create and await the handles they may hold
in any order, each at most once; the instance says who may hold which. Admission,
accounting and retirement are left to `TaskLifecycle`, and so is an owner that empties a
slot while somebody awaits it: `AdmittedGetsResult` is about competing awaiters. The
diagnostic mode of an await (`AwaitMode::Diagnostic`, `await_ticket.rs:395`), which changes
what is reported and not who waits, is left out.

### `BlockingPool`

`run_blocking` on the caller's thread, the pool's workers, the guard
(`BlockingRetirement`) with its three updates, and the part of `cancel_all_and_wait`
that reads the pool's counters one after the other. The order of these updates is
what the module is about. An operation may hang; a caller inside a cancelled task
leaves it behind. A waiting caller may help (`Help`, `HelpedReturns`): it runs the body of
another task on its own stack, and looks at its own cancellation again only when that body
is over. Payloads, panics of operations and thread creation are left out.

### `ScopeExit`

One frame that leaves nested scopes: `ExitState` from collecting the children to
arbitration, the discard of a value that holds tasks, `prepare_finally` and
`finish_finally`, and the interpreter's own termination and handler deadline. A
child is running, terminal or retired, which is what `TaskContract` promises of it.
Time is a small clock, since the property is about which of several deadlines
counts. Left out: the fallback of an interpreter without a runtime handle (`exit.rs:328`),
which no scope with tasks meets; a try statement nested in a protected finally block, hence
the branch of `prepare_finally` for a cleanup that failed already (`cancellation.rs:158`)
and the context of a surrounding protected block as a source of `ScopeCleanupContext`; and
the tasks of the value that replaces an outcome (`discard_flow`, `cancellation.rs:193`),
which are discarded with it in one step.

### `ServiceSupervision`

One coordinator thread: the restart loop (`NextGeneration`, `Launch`, `GrantRestart`,
`RefuseRestart`, `BackoffOver`), one turn of an instance (`ControlTurn`,
`ObserveExit`/`ObserveRunning`, `Health`/`NoHealth`, `StartupTimedOut`/`NextTurn`),
`drain_and_retire` (`BeginDrain`, `DrainControl`, `DrainExit`, `DrainDeadline`) and the
cleanup (`CleanupConfirmed`, `CleanupUnconfirmed`, `MetricsFail`). The environment
exits the child, kills the group, sends signals and posts `/stop`, and lets time pass.
Instants are kept as ages and deadlines as remaining time, so that the model needs no
bounded clock; an age stops at the restart window, where it no longer matters.
`replaced` (the ages of all replacements ever granted) and `killed` are history: the
code does not have them and no guard reads them except `killed`, which is the local
`termination_requested`.

After a failed cleanup the coordinator tries a second one before it returns its error;
both attempts are `CleanupUnconfirmed`, since the command ends either way.
`LaunchFails` is a launch that leaves no process behind. The code also treats as such a
release that failed and whose `terminate` or `cleanup` failed too
(`service_supervision.rs:302`), because an error of the provider carries
`cleanup_confirmed = true` unless it says otherwise
(`process_execution/platform.rs:36`); that second failure is not modelled. Generations
end at `MaxGeneration`, in the code at the largest `u64`: that a program whose every
launch fails comes to an end is the model's bound, that it is tried again each time is
the code's.

### `ProcessExecution`

The coordinator of `ku supervise`: admission against the memory ledger, start with its
failure paths, the scan of running programs, the cleanup of one (kill, wait for the
group, stop and join the readers, settle the reservation, publish the receipt) and the
emergency stop of all. Programs, process groups, reader threads and the clock move
between its steps; every call of the process-group provider may fail, also a kill,
whose error the code drops (`process_execution.rs:570`, `690`, `883`, `linux.rs:226`):
the group is then `missed` instead of `killed`. `Drop for Worker` tries such a group
once more when the command has ended, which is left out. Bytes are counted, not
contents; the JSON of receipts and the options are left out.

### `RegistryStore`

The storage of one package as two trees: what processes see and what survives a
power loss. Every step of publish, yank, lock-free read, recovery, cleanup and the
startup audit that touches a directory is an action; `sync_directory` copies one
directory to the durable tree. A process death loses the workers, a power loss also
everything unsynced, a damage breaks a stored generation, and an operation may fail
or run out of time at every step; the removal of a generation may stop half way
(`DropFails`, `CleanFails`), and an index that cannot be read is taken for a damaged one
(`Misread`). Archives and signatures are their digests. The two limits of an index are
apart: `capacity` is `MAX_REGISTRY_INDEX_VERSIONS`, `fits` says which sets of versions have
at most `MAX_INDEX_ITEMS` items, a version and its dependencies being one each. The
byte limit of an index (`append_index_bytes`) is a failing operation.

### `HttpServer`

The I/O thread and the interpreter's loop. A round of the I/O thread (`Reactor::run`)
is `Top` (the stop flag), `Observe` (one response channel at a time),
`ExpireConnections` (two passes over the slots, `expire_connections` and
`advance_buffered_headers`, with `Promote` between them), `Dispatch` (one request at
a time), `Poll`, and the events: `DrainWake`, `Accept`, `ConnectionEvents`. Steps are
split where the threads share something: response channels, the job channel, the wake
socket, the stop flag. The loop is `LoopTurn`, `NextJob`, `HandlerReturns`, `Publish`,
`Notify`, and at its end `SetStop`, `WakeUp`, `Join` (`Drop for HttpIo`).

The bytes of a connection are pieces of requests; parsing may fail at every piece,
which includes every refusal of the buffer budget (`503`). A slot's generation is its
connection and its last dispatched request. Clients act just before the I/O thread
looks at sockets; at other points of its round the effect would be the same. Left out:
trace and flight diagnostics, the batch limit of `accept`, socket options that cannot
be set, and the branches of `observe_completions` for a foreign token or a lost
sender, which no reply reaches (each response channel belongs to one request). A rejected
connection counts as answered when its stay ends, also if the 503 could not be written.

### `MC...`

The MC modules add symmetry sets, scripts and bounds that are not plain values; all
other constants are in the `.cfg` files.

## Runs

| Run | Question | States |
| --- | --- | --- |
| `lifecycle` | Two tasks, one queue slot, all faults, all owner operations. `FrameDiscipline` (types, one owner of a frame, one completer, no outcome before the frame is gone), `WitnessSound`, `CountersExact` (active units, queue bound, statistics up to the threads between two counters), `OutcomeFinal` | 1,140,105 |
| `shutdown` | A shutdown races two submissions that compete for one active unit, with all faults. `CountersExact`, `ShutdownComplete` (success leaves nothing, `cancel_all` finds every frame), `ImplementsContract` | 775,452 |
| `progress` | One task, everything; a body may never return. `FirstCauseWins`; if bodies return, `TasksFinish`; in any case `CallsEnd` (submission, release and shutdown) | 65,754 |
| `await` | Three tasks, a worker and the root thread, handles that travel, a cancellation, a depth limit of 2. `WaitsSound`, `AdmittedGetsResult`, `AwaitEnds` | 41,972 |
| `pool` | Two calls, inside and outside of a task, one worker, one queue slot, a shutdown. `ShutdownDrained`, `ObligationsCounted`, `CancelledCallReturns`, `JobsRetire` | 108,139 |
| `exits` | Two scopes, the inner one with a finally block, two tasks of which one may be returned; with and without witnesses. `NormalParentNotCancelled`, `SuccessMeansSettled`, `OwnedTasksAsked`, `CauseKept`, `BudgetShared`, `ExitEnds` | 1,128,661 |
| `supervision` | Three generations, one restart per window, all faults, a memory limit. `NoOverlap`, `IntensityBounded`, `UnfinishedReported`, `SignalEnds`, `CrashReplaced` | 355,138 |
| `stop` | Violated: `AcknowledgedStopIsFinal` | |
| `batch` | Two programs at once, one of them with output beyond the limit and a writer outside its group, one failing call. `MemoryCovered`, `ReceiptsSound`, `AbortKills`, `CommandEnds` | 1,519,853 |
| `registry` | Two threads, two versions: a power loss, a process death or a damaged index, with a failing operation or sync, a full package, or two versions that do not fit one index. `IndexTrue`, `StorageSafe`, `AuditAccepts`, `ComesBack` | 1,010,650 |
| `refused` | Violated: `AuditAccepts` after a process death and a later power loss | |
| `http` | One slot, two clients, one failing call or leaving client, in three situations. `ConnectionsKept`, `NoLostWake`, `PublishedWins`, `ConnectionsEnd` | 455,520 |

Bounds. The races of the lifecycle are between threads of *one* task; a second task is
needed where tasks share something: the queue slot and the cached head (`lifecycle`),
the active unit, the registry and the producer count (`shutdown`). A third task adds
only more of the same contention, and the proofs cover any number. Liveness is checked
with one task, because TLC may not use symmetry there; `Deadlines = {1, 2}` in
`progress` is the smallest set in which a deadline can shrink. `await` needs three
tasks for a wait chain longer than the limit and for a frame between two others. In
`supervision` a failure threshold of 2 distinguishes one failed probe from consecutive
ones, a window of 2 ticks lets a restart leave the window, and three generations allow
a second replacement, which is where the limit of one per window bites. In `exits`,
`batch` and `supervision` all timeouts are 1 tick, since only "before" and "after"
matter, and the clock reaches the sum of the deadlines that can follow each other.
`registry` allows three or four requests, enough for publish, yank and a read or a
second publish that overlaps both, and one failure of each kind at any step (two of
operations with two requests); damage meets a process death, since a generation that is
damaged and a recovery that is cut short need each other to do harm. `refused` shows
what a process death and a later power loss add. In `http` one slot and one place in
the queue make every contention happen with two connections: one waits for the slot of
the other (`Kept`), pipelines a second request behind a body (`Body`), or finds no
permit (`Full`). The limit of the pending queue and a rejection that holds a permit
need a third connection; `ConnectionsSafe` proves them, no run reaches them.

`WitnessSound` speaks of tasks that are terminal, because scope exit first waits
for that (`WaitTerminal` in `interpreter/cancellation/exit.rs`). The premise is
needed: for a rejected submission the witness alone can be positive while a
canceller still destroys the frame it took.

Fairness. Each thread that is inside a runtime call takes its next step (the operating
system schedules it, and no step waits for a lock that user code holds); workers take
jobs; `TasksFinish` and `JobsRetire` assume besides that bodies and blocking operations
return, `CallsEnd`, `ExitEnds` and `ConnectionsEnd` do not. `CancelledCallReturns`
assumes nothing of operations, but that a body which the waiting caller helps ends:
`help_one_bounded` (`task.rs:2013`) runs it on the caller's stack, and the property is
false without this assumption. In `BlockingPool` the admission lock is strongly fair:
it is free again and again and a mutex serves its waiters. Nobody has to cancel, await,
release or shut down. In `ServiceSupervision` the coordinator is scheduled, time
passes, and a process that was sent SIGKILL dies; the child may run, hang or exit as it
likes. In `ScopeExit` and `ProcessExecution` only the one thread and the clock are
fair: children, programs, groups and readers owe nothing. In `RegistryStore` threads
run and somebody starts a stopped server. In `HttpServer` both threads run and time
passes; handlers and clients owe nothing.

Deadlock checking is off: all of these systems may come to rest.

### Findings

*A stop that is forgotten* (`stop`). `drain_and_retire` calls
`let _ = service_stop(...)?` (`service_supervision.rs:400`). While an instance that
failed its probes drains, a `POST /stop` is answered with 202 `stopping` and dropped;
after cleanup and backoff a replacement starts. The signal flag is not lost, since it
stays set (`SignalEnds` holds). `deploy/service/README.md:20` documents `POST /stop`
as the request that initiates the stop.

*A recovery that signs too early* (`refused`). Recovery rebuilds the index from the
directory entries it sees (`ensure_signed_index_locked`), syncs the index and removes
the marker, but does not sync the directory whose entry a dead process had not synced.
After a later power loss the index names a version that is gone, nothing marks the
package as pending, and the audit refuses to start. One disaster alone is survived
(`AuditAccepts` holds in `registry`). The run allows every set of versions in an index, so
that the item limit has no part in this refusal.

### Task statistics

`CountersExact` does not say that the statistics balance at every moment:
`finish_task_accounting` gives the unit of `active_tasks` back before it counts the task as
finished, and `task.stats()` reads its fields one by one (`task.rs:909`,
`docs/syntax.md:1632`). It says that the difference is the tasks between the two updates.

### Awaiting: what the model does not promise

Seen while modelling, consistent with the code, stated nowhere as a promise and
therefore not checked as one:

* `AwaitEnds` assumes that callers await only tasks they started. With a handle
  passed to a sibling, the sibling may be run by a helper on top of the frame it waits
  for; the wait graph has no cycle, but neither frame goes on
  (`local_driver.rs:424`).
* The cancellation of a waiting task reaches its target when the waiting frame is
  polled, which is not before the frames above it have returned
  (`await_ticket.rs:569`).
* `register_wait` measures the chain from the target on: chains built from their head
  by several threads can be longer than `MAX_AWAIT_DEPTH` (`task.rs:2145`). They end
  all the same.

### Scope exits

A finally block that outlasts the cleanup budget makes the scope around it report
`task/shutdown_timeout` although it owns no task (`cancellation.rs:335`, `exit.rs:290`):
the budget is shared, as `BudgetShared` says.

### Bounded processes

A reader that found its pipe empty just before the last write, and then sees that its
program has retired, ends without the last bytes (`process_execution.rs:453`). A
completed receipt can therefore carry less output than the program wrote;
`ReceiptsSound` says nothing of completeness.

### Registry

A yank that is retried after its marker's sync failed is confirmed without another
sync (`registry_server.rs:1512`), hence `left.unsynced` in `AckedSafe`. A generation
that a failed cleanup left half-removed makes a later change back to it fail until
another change or a restart.

`publish_request` counts the items of the versions it lists (`registry_server.rs:1702`),
the audit and recovery count those of all stored versions, yanked ones included (`:1945`).
Publishing, yanking and publishing again can therefore leave a storage that every later
start refuses, without any failure. `AuditAccepts` names this as the one cause of a refusal,
and `ComesBack` (`Blocked`) as one of the storages that no start repairs; run `registry`
reaches it. The version limit has no such gap: `ensure_physical_version_capacity` counts
the yanked ones (`StorageSafe`).

There is one more storage that no start repairs, a damaged generation with the name of the
index that is to be rebuilt, when no pointer names it any more or a marker is pending:
`persist_signed_generation` refuses it (`:2231`), and only `discard_broken_cached_index`,
which follows the pointer of a storage without a marker, would remove it. It takes a damage
and a crash before the marker is gone, or a removal in `discard_broken_cached_index` that
stops half way (`:2398`). A read error of an intact index is enough to start such a
removal, since `ensure_signed_index_locked` takes any error for damage (`:1838`).

## Proofs

Eight modules prove theorems for every value of the constants: any set of tasks,
workers, jobs, scopes, connections, threads and versions, any limits, budgets, deadlines
and faults. They state every safety invariant, every action property and the refinement
that the passing runs check.

They assume the named `ASSUME`s of the module they extend, which the runs evaluate:
limits and deadlines are natural numbers (positive where the code rejects zero), the
null values are no members, there is at least one thread and one version, and, in
`ProcessExecution`, the batch is not empty and lists no job twice (`parse_policy`
refuses an empty list, and `prepare_queue` numbers the entries, so that two equal paths
are two jobs). The theorems about `RegistryStore` have one hypothesis on the behaviour,
`LossesSynced`: the power does not fail after a sync was missed. Run `refused` shows
that `AuditAccepts` is false without it; `ApartSafety` discharges it for every choice of
bounds that keeps the two kinds of disaster apart, in particular those of run
`registry`.

| Module | Theorem | States |
| --- | --- | --- |
| `TaskLifecycleProofs` | `TypeCorrect` | `TypeOK` |
| | `OwnerSafety` | `FrameOwnedOnce` |
| | `CompletionSafety` | `OneCompleter` |
| | `OutcomeSafety` | `OutcomeAfterFrame` |
| | `FrameSafety` | `FrameDiscipline`, the conjunction of these four |
| | `OutcomeFinality` | `OutcomeFinal` |
| | `FirstCause` | `FirstCauseWins` |
| | `WitnessSafety` | `WitnessSound` |
| | `RuntimeImplementsContract` | `ImplementsContract` |
| | `CountersSafety` | `CountersExact` |
| | `ShutdownSafety` | `ShutdownComplete` |
| `AwaitHelpProofs` | `WaitsSafety` | `WaitsSound` |
| | `ResultSafety` | `AdmittedGetsResult` |
| `BlockingPoolProofs` | `ObligationsSafety` | `ObligationsCounted` |
| | `DrainedSafety` | `ShutdownDrained` |
| `ScopeExitProofs` | `ScopeTypes` | `TypeOK` |
| | `CauseSafety` | `CauseKept` |
| | `NormalParentSafety` | `NormalParentNotCancelled` |
| | `SettledSafety` | `SuccessMeansSettled` |
| | `BudgetSafety` | `BudgetShared` |
| | `OwnedSafety` | `OwnedTasksAsked` |
| `ServiceSupervisionProofs` | `ReplacementExclusive` | `NoOverlap` |
| | `UnfinishedSafety` | `UnfinishedReported` |
| | `IntensitySafety` | `IntensityBounded` |
| `ProcessExecutionProofs` | `BatchTypes` | `TypeOK` |
| | `AbortSafety` | `AbortKills` |
| | `MemorySafety` | `MemoryCovered` |
| | `ReceiptsSafety` | `ReceiptsSound` |
| `HttpServerProofs` | `HttpInductive` | `HttpInv`, the inductive invariant |
| | `ConnectionsSafe` | `ConnectionsKept` |
| | `WakeSafe` | `NoLostWake` |
| | `EarlyWins` | `PublishedWins` |
| `RegistryStoreProofs` | `StoreInductive` | `StoreInv`, the inductive invariant |
| | `IndexSafety` | `IndexTrue` |
| | `StorageSafety` | `StorageSafe` |
| | `AcceptedSafety` | `AuditAccepts` |
| | `ApartSafety` | these three from `Spec` alone, when power losses are apart from process deaths and failing syncs |

Every proof has the same shape: lemmas say what the operators compute and what each
action leaves alone, one lemma per invariant shows that every action preserves it, and
the theorem combines them with the temporal prover. Each inductive invariant was
checked with TLC before it was proved.

### Task lifecycle

Frame ownership, the single completer and the order of outcome and frame are not
inductive on their own. The invariant `FrameInv` ties them together: `QueueOnce` (a
task has at most one node among the channel and the cached head); `FramePlace(t)`
(where the frame can be, given how far the submission is: a frame in the slot or with
the running body means that nobody completes the task yet, a frame at another role
means that this role is about to destroy it); `CompletionOnce(t)` (at most one role
has left "idle", and only a role past its destructors can have made the task
terminal); and `NodePlace(t)` (a task that still has to meet a rejection or a claimant
has its frame in the slot or was cancelled, and a node exists only after the send).
`FrameStep` shows that every action preserves it, one proof step per action; the
theorems follow by `FrameOwner` and `TerminalFrame`. `OutcomeFinality` uses that
outcomes change only in the steps `OutcomeStep` lists (`OutcomeSteps`), and that a
step which ends a task finds it without an outcome.
`FirstCause` is a property of `RequestCancel` and `Publish` alone, given types.

The other theorems stand on `FrameInv` and three more invariants.

* `LifeInv` joins the records that the code spreads over the producer, the registry
  and the completers: `SubmissionPlace(t)` (what each stage of `spawn_start_deferred`
  says about owner, cancellation, admission, node and registry entry),
  `HolderPlace(t)` (which thread can be destroying the frame) and `AccountingOnce(t)`
  (one role accounts, in the order of `finish_task_accounting`, and only after the outcome,
  its cleanup and the node).
  `WitnessSound` follows from it.
* `CounterInv` says of every counter which tasks it counts, also in the middle of a
  submission or a claim: `queued_tasks` is the channel, the cached head, the
  submissions that reserved and did not send, and the claimants that dequeued and did
  not give the credit back; `active_tasks` counts a task up to the release of its unit, and
  between that and `finished_tasks` it is in transit. Without these in-between sets the
  equations of `CountersExact` are not preserved by any step.
* `ShutdownInv`: once the closed gate was seen without producers there are none, so
  the second read of `cancel_all_and_wait` cannot be stale.

The refinement is proved step by step. The initial states map to initial states of
`TaskContract`; for every action a lemma says which contract action it is (creation,
start, end, retirement) or that it leaves the abstract state alone. It needs `LifeInv`
where the contract has a guard that the code does not test again: that a task which
starts was not cancelled, and that accounting finds a terminal task whose work is gone.

### Awaiting

`AwaitInv` joins what the code keeps in three places: the stacks of frames (a body has
a frame from its claim to its retirement, and only the top frame of a thread does
anything but poll), the tickets (`TicketInv`: a ticket is claimed by one caller, and a
task's edge is its ticket from the registration to the drop of the guard) and the
result slots (`SlotInv`: a missing result was taken by the caller that claimed it).
That the graph stays acyclic needs what the cursor of `register_wait` computes: the
cursor is a recursive function of the step, bounded by the depth limit, and a proof by
induction is out of the prover's reach; `CursorExists`, `FollowCursor` and
`FollowStays` argue instead from a least step at which the claim would fail.
`VerdictAcyclic` then shows that an edge whose walk ended outside the waiter closes no
cycle.

### Blocking pool

`PoolInv` follows a job through the hand-over: what the label of its call says about
its guard (`CallInv`), which calls are producers (`OwnerInv`), that a sent job is in the
channel or with one worker (`PlaceInv`), and whom each counter counts (`CountInv`). The
job that is accepted, run and retired before its caller counts it is the reason why
`Accepted` and `Finished` are sets of their own. `CloseInv` carries what the shutdown
has read from one poll to the next.

### Scope exits

`CauseInv`: the outcome, or the one a discard is about to install, carries the
termination under the cause that was latched first; nothing else does.
`BudgetInv`: the exit works under the tightest deadline met so far, and so does what
replaces the outcome. `SettleInv`: an exit that has not failed took all tasks of its
scope and saw each of them end, or retire. `AskedInv`: a task is let go with the
environment of its scope, or with the value that held it. They rest on `ShapeInv`
(types and contexts with both a cause and a deadline or neither) and on lemmas about
`Join`, which keeps the first cause and the tighter deadline.

### Supervision

`NoOverlap` is inductive by itself; `UnfinishedReported` needs `ReportInv`: while the
coordinator turns or drains it has not killed the child, and an exit observed in a turn
is final, so that the record made before the cleanup is still right after it.
`IntensityBounded` counts all replacements ever granted, the code only those its deque
still holds. `IntensityInv` says that the deque is a suffix of all of them and that what
was popped from its front has left the window (`DequeHolds`); `ExpiredStops` shows
where the `pop_front` loop stops, and that all it popped had expired.

### Bounded processes

`BatchInv` follows one job: it waits in the queue, runs in the list of active programs
or is in the coordinator's hands (`PlaceInv`), and what was given up unconfirmed is a
stray that keeps its reservation (`LedgerInv`: strays, active programs and the job in
hand are covered, exactly until the batch is given up). `KillInv` says that a living group
is active, in hand, killed, or one whose kill failed, and `OverInv` that no good receipt is
written while it lives, whether or not it could be killed. `CleanInv`,
`TruthInv`, `FailedInv` and `CoverInv` say what the cleanup of one job has established,
what its receipt may claim, and that every job waits for its receipt or has one.

### HTTP server

`HttpInv` has two halves. `Kept(net)` says where a connection is: in the one place its
socket names (`Placed`), and what the state of its slot means (`Sound`). It is a
predicate on values of `net`, because one round of the I/O thread composes many
operators before the next state is reached: each operator on one slot leaves it alone,
revises it or vacates it (`Polled`, `ConnectionPolled`), each pass over all slots
`Follows` from what it found, and both preserve `Kept`. A pass is a recursive function
of the slot; as with the cursor above, `WalkExists` and `PassFollows` argue from the
least slot at which the claim would fail. `LimitInv` and `PermitCount` relate the free
list to the number of slots and permits in use.

The other half is what the threads owe each other. `ReplyInv`: a response is there only
for a request that waits for it. `WakeInv`: a published response is still ahead of
`observe_completions` in this round, or there is a byte in the wake socket, or the
handler's thread is about to send one. `EarlyInv`: what was published before the round
is observed before any deadline is looked at. `NoLostWake` at `poll` alone is not
inductive, since the response may be published at any other point of the round.

### Registry

None of the three properties is inductive: whether a reader is told the truth depends
on what every writer, recovery and crash left in the tree before it. `StoreInv` is the
conjunction of

* `TypeInv`, and `LockInv`: one thread holds `PackagePublishLock`, and while the server
  starts only the audit works;
* `DiskInv`, about the tree that processes see: a tree without a pending marker has no
  pointer, or one to the index of its versions and yank markers; what is not yanked is
  within the item limit, and a storage that was refused is not; with or without a
  marker the pointer names stored versions only, and while the server is up it lists
  what was confirmed or shown and hides what was confirmed as yanked;
* `WorkerInv`, what each label of a thread means: `Shape` (which request can be there),
  `Holds` (what the holder of the lock has established, for instance that the generation
  it is about to switch to is the index of the tree once its change is committed) and
  `Honest` (what a reader without the lock has read stays true until it answers, although
  others publish and yank meanwhile);
* `DurableInv`, what a power loss leaves: the durable tree lags behind only in the
  directory that the holder of the lock is about to sync, or in a pointer that was removed
  (`Lags`); what was confirmed, shown or pointed to is durable already, and a removed
  pointer that may come back names the index of the tree unless a marker comes with it
  (`Survives`); if a new pointer is what lags, the marker is durable, or the old one named
  the same index, or there was none (`Keeps`). It is claimed only while no sync is missing.

Generations that are stored, damaged or missing do not occur in it: whether they can be
read decides who recovers, and whether a start succeeds (`ComesBack`), not what is
true. The actions therefore fall into a few kinds with a lemma each: a step that leaves
the tree alone but for generations (`QuietStep`), a write by the holder of the lock
(`WriteStep`), a sync (`SyncStep`), an answer (`HistoryStep`) and the death of the
process (`DiesStep`). `LossExplained` is the heart of the argument: whatever a power
loss keeps of the unsynced writes, entry by entry, a pointer that does not match the
tree keeps its marker.

### Only model-checked

* The liveness properties, `TasksFinish`, `CallsEnd`, `AwaitEnds`,
  `CancelledCallReturns`, `JobsRetire`, `ExitEnds`, `SignalEnds`, `CrashReplaced`,
  `CommandEnds`, `ComesBack` and `ConnectionsEnd`: fairness and `ENABLED` are out of the
  prover's reach.
* `AcknowledgedStopIsFinal` and, in run `refused`, `AuditAccepts`: what the
  documentation says and the code does not do; TLC shows the counterexamples.

## Not modelled

* Front end, IR, code generation, interpreter values, package resolution, command
  line: sequential translations of data. They are by far most of the code; their
  correctness is a matter of what they compute on inputs without bound, not of
  interleavings, and a bounded model would restate them.
* The native task runtime, HTTP, PostgreSQL and database code in C (`backend/c_*`):
  text that the back end emits. The contracts are those of the modules here; models of
  the C text itself are left for later.
* The HTTP listener registry: one map behind one mutex, every operation one critical
  section.
* Of the package registry: the HTTP front, signatures, archive checks and
  administration.
* TLS, editors, deployment files, documentation.

## Plan

1. Done: the modules above, their runs, and proofs of all their safety properties, with
   the refinement of `TaskContract`.
2. Candidates after that: the native task runtime in C against `TaskContract`, and the
   database budget.
