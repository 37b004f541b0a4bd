--------------------------- MODULE TaskLifecycle ---------------------------
(***************************************************************************)
(* The life of an interpreter task in src/src/runtime/task.rs: submission, *)
(* queueing, execution, completion, cancellation, owner release, queue     *)
(* retirement, accounting and the bounded shutdown of the runtime.         *)
(*                                                                         *)
(* Grain of atomicity.  A step is one critical section of a task's result  *)
(* lock, one atomic read-modify-write of a runtime counter, or one run of  *)
(* user code (a body, a constructor, a destructor) between two of them.    *)
(* Every call that several threads can make on the same task has its own   *)
(* program counter, so a producer, the claimant of the queue node, the     *)
(* thread whose cancellation won, the owner and the shutdown interleave    *)
(* freely.  A claimant is a worker or a waiting task that helps; how many  *)
(* there are, and how helpers nest on a stack, does not matter here.       *)
(***************************************************************************)
EXTENDS Integers, Sequences, FiniteSets

CONSTANTS
    Tasks,            \* submissions made in a behaviour, one task each
    NoTask,           \* the empty cached head of the queue receiver
    MaxTasks,         \* max_tasks of the runtime
    TaskQueueLimit,   \* task_queue_limit of the runtime
    TaskWorkers,      \* task_workers started by the runtime
    Faults,           \* bound: which of FaultKinds can happen in a behaviour
    UsedHandles,      \* bound: tasks whose owner cancels, awaits or releases
    Deadlines,        \* absolute cleanup deadlines a context can carry
    MaxShutdowns      \* bound: calls of cancel_all_and_wait, 0 or 1

ASSUME LimitsAssumption ==
    /\ MaxTasks \in Nat
    /\ TaskQueueLimit \in Nat \ {0}   \* 0 is a rendezvous channel, tests only
    /\ TaskWorkers \in Nat
    /\ MaxShutdowns \in {0, 1}

\* What can go wrong inside a submission or a dispatch, all data-dependent.
FaultKinds == {"denied", "build_panic", "header_overflow", "frame_storage"}

ASSUME FaultsAssumption == Faults \subseteq FaultKinds /\ UsedHandles \subseteq Tasks

ASSUME NoTaskAssumption == NoTask \notin Tasks

ASSUME DeadlinesAssumption == Deadlines \subseteq Nat /\ Deadlines # {}

Reasons == {"Cancelled", "TimedOut"}

TerminalStatuses == {"Completed", "Failed", "Cancelled", "Panicked", "TimedOut"}

Statuses == TerminalStatuses
              \cup {"Absent", "Pending", "Running", "Waiting", "Cancelling"}

\* The call sites of TaskState::complete_with_status, and the queue node whose
\* retirement only runs the accounting at the end of it.
Completers == {"install", "reject", "refuse", "body", "cancel"}
Roles == Completers \cup {"node"}

\* Who can own the captured frame of a task: the submission (constructor or
\* built frame), the pending_run slot, or a role that took it out.
Holders == Completers \cup {"spawn", "slot"}

CompletionLabels ==
    {"idle", "destroy", "publish", "discard", "lost",
     "account", "count", "done"}

\* finish_task_accounting: the once-claim, the removal from the registry, the two
\* counters, each an atomic step of its own, and the acknowledgement.
AccountingStages ==
    {"open", "claimed", "unregistered", "released", "counted", "done"}

SpawnLabels ==
    {"none", "admit", "limit", "register", "build", "install", "installing",
     "reserve", "send", "sent", "accepted", "reject", "rejecting", "settle",
     "leave", "returned", "refused"}

BodyLabels ==
    {"none", "dequeued", "claim", "running", "complete", "retire", "done"}

OwnerLabels == {"none", "held", "dropping", "cancel", "await", "publish", "done"}

ShutdownLabels ==
    {"idle", "observed", "closing", "snapshot", "cancelling", "poll",
     "pollActive", "ok", "timeout"}

StatNames ==
    {"total_submissions", "accepted_submissions", "rejected_task_limit",
     "rejected_task_queue", "rejected_task_internal", "finished_tasks",
     "finished_cancelled_tasks", "finished_timed_out_tasks"}

VARIABLES
    (* TaskRuntimeInner *)
    producer_count,   \* producer_gate without its closed bit
    active_tasks,
    states,           \* the registry of live tasks
    stats,            \* cumulative counters
    queue,            \* nodes in the bounded channel
    head,             \* node cached by TaskQueueReceiver, ahead of the channel
    queued_tasks,     \* logical queue credits in use
    (* TaskState *)
    status,
    result,           \* the result slot holds an outcome
    reason,           \* reason of the cancellation context, "none" without one
    cleanup_deadline, \* deadline of the cancellation context
    submission,
    completion_cleanup_done,
    accounting,       \* accounting_finished, and how far it is to accounting_done
    (* control *)
    spawn,            \* spawn_start_deferred
    admitted,         \* this submission holds a unit of producer_gate
    frame,            \* owners of the captured frame
    body,             \* the claimant of the queue node
    comp,             \* complete_with_status and finish_task_accounting
    owner,            \* release_owner
    drain,            \* the owner drain has a detached result to destroy
    (* cancel_all_and_wait *)
    shutdown,
    waiting_for,      \* task whose pending frame it took and destroys
    todo,             \* snapshot of the registry still to cancel
    observed,         \* observed_outstanding
    expired           \* the shutdown deadline has passed

countVars    == <<producer_count, active_tasks, states, stats>>
queueVars    == <<queue, head, queued_tasks>>
outcomeVars  == <<status, result, reason, cleanup_deadline>>
ackVars      == <<submission, completion_cleanup_done, accounting>>
ownerVars    == <<owner, drain>>
controlVars  == <<spawn, admitted, frame, body, comp, owner, drain>>
shutdownVars == <<shutdown, waiting_for, todo, observed, expired>>

vars == <<countVars, queueVars, outcomeVars, ackVars, controlVars, shutdownVars>>

-----------------------------------------------------------------------------
(* Helpers *)

Min2(a, b) == IF a <= b THEN a ELSE b

Terminal(t) == status[t] \in TerminalStatuses

CancelledTask(t) == reason[t] # "none"

\* closing is stored, and then the closed bit of the producer gate, by the
\* first two steps of the shutdown; neither is ever cleared.
Closing == shutdown \notin {"idle", "observed"}
GateClosed == Closing /\ shutdown # "closing"

\* execution_queue_retired is published by finish_task_job.
ExecutionQueueRetired(t) == body[t] = "done"

\* finish_owner_cleanup: owner_call_done and owner_payload_done.
OwnerCleanupDone(t) == owner[t] = "done" /\ ~drain[t]

OwnerReleased(t) == owner[t] \notin {"none", "held"}

\* complete_with_status commits only into an empty, non-terminal task: the slot
\* alone is not enough, because an await may have emptied it.
CanPublish(t) == ~result[t] /\ ~Terminal(t)

\* Seeded fault: the accounting is not claimed once.
CanAccountAgain(t) ==
    ExecutionQueueRetired(t) /\ completion_cleanup_done[t] /\ Terminal(t)

\* The retirement gates of finish_task_accounting and its once-claim.
CanAccount(t) ==
    /\ ExecutionQueueRetired(t)
    /\ completion_cleanup_done[t]
    /\ Terminal(t)
    /\ accounting[t] = "open"

\* Seeded fault: the build does not recheck cancellation.
CanInstallCancelled(t) == CanPublish(t)

\* install_run stores the frame for a worker only while nothing has ended it.
CanInstall(t) == ~CancelledTask(t) /\ CanPublish(t)

\* claim_run hands the frame to the claimant.
CanClaim(t) == ~CancelledTask(t) /\ ~Terminal(t) /\ "slot" \in frame[t]

\* reject_queued leaves completion to a cancellation that took the frame.
CancellationOwnsCompletion(t) == "slot" \notin frame[t] /\ CancelledTask(t)

\* The only queue node cleanup may retire without running its body.
CleanedNode(t) ==
    Terminal(t) /\ CancelledTask(t) /\ completion_cleanup_done[t]

\* Seeded fault: the frame is copied instead of taken.
MoveCopies(t, a, b) ==
    [frame EXCEPT ![t] = IF a \in @ THEN @ \cup {b} ELSE @]

\* Option::take: owner b gets the frame if owner a has it.
Move(t, a, b) ==
    [frame EXCEPT ![t] = IF a \in @ THEN (@ \ {a}) \cup {b} ELSE @]

Goto(t, r, label) == [comp EXCEPT ![t][r] = label]

Bump(names) == [n \in StatNames |-> IF n \in names THEN stats[n] + 1 ELSE stats[n]]

\* Status a cancellation context of reason why gives the outcome.
TerminationStatus(why) == IF why = "Cancelled" THEN "Cancelled" ELSE "TimedOut"

Init ==
    /\ producer_count = 0 /\ active_tasks = 0 /\ states = {}
    /\ stats = [n \in StatNames |-> 0]
    /\ queue = << >> /\ head = NoTask /\ queued_tasks = 0
    /\ status = [t \in Tasks |-> "Absent"]
    /\ result = [t \in Tasks |-> FALSE]
    /\ reason = [t \in Tasks |-> "none"]
    /\ cleanup_deadline = [t \in Tasks |-> 0]
    /\ submission = [t \in Tasks |-> "Pending"]
    /\ completion_cleanup_done = [t \in Tasks |-> FALSE]
    /\ accounting = [t \in Tasks |-> "open"]
    /\ spawn = [t \in Tasks |-> "none"]
    /\ admitted = [t \in Tasks |-> FALSE]
    /\ frame = [t \in Tasks |-> {}]
    /\ body = [t \in Tasks |-> "none"]
    /\ comp = [t \in Tasks |-> [r \in Roles |-> "idle"]]
    /\ owner = [t \in Tasks |-> "none"]
    /\ drain = [t \in Tasks |-> FALSE]
    /\ shutdown = "idle" /\ waiting_for = NoTask /\ todo = {} /\ observed = FALSE /\ expired = FALSE

-----------------------------------------------------------------------------
(* Submission: spawn_start_deferred, one action per stage.                  *)

SpawnStep(t, from, to) ==
    spawn[t] = from /\ spawn' = [spawn EXCEPT ![t] = to]

\* ProducerAdmission::begin.  A closed gate still lets the call run to its
\* rejection, without a unit of the producer count.
BeginSpawn(t) ==
    /\ SpawnStep(t, "none", "admit")
    /\ frame' = [frame EXCEPT ![t] = {"spawn"}]
    /\ admitted' = [admitted EXCEPT ![t] = ~GateClosed]
    /\ producer_count' = IF GateClosed THEN producer_count ELSE producer_count + 1
    /\ UNCHANGED <<active_tasks, states, stats, queueVars, outcomeVars,
                   ackVars, body, comp, ownerVars, shutdownVars>>

\* ensure_task_operations_allowed fails in a cleanup or terminated context: the
\* constructor is dropped and no task exists.
DenySpawn(t) ==
    /\ "denied" \in Faults
    /\ SpawnStep(t, "admit", "leave")
    /\ frame' = [frame EXCEPT ![t] = {}]
    /\ UNCHANGED <<countVars, queueVars, outcomeVars, ackVars, admitted, body,
                   comp, ownerVars, shutdownVars>>

\* A rejection before the frame is installed completes the task with an error
\* value; the early returns differ in counter and in what they roll back.
EarlyReject(t, counters) ==
    /\ stats' = Bump(counters)
    /\ comp' = Goto(t, "reject", "publish")

\* A closed or closing runtime, or one without workers, takes no submission.
Rejecting(t) == ~admitted[t] \/ Closing \/ TaskWorkers = 0

\* The TaskState is created.
CreateTask(t) ==
    /\ ~Rejecting(t)
    /\ SpawnStep(t, "admit", "limit")
    /\ status' = [status EXCEPT ![t] = "Pending"]
    /\ stats' = Bump({"total_submissions"})
    /\ UNCHANGED <<producer_count, active_tasks, states, queueVars, result,
                   reason, cleanup_deadline, ackVars, admitted, frame, body,
                   comp, ownerVars, shutdownVars>>

RejectClosed(t) ==
    /\ Rejecting(t)
    /\ SpawnStep(t, "admit", "rejecting")
    /\ status' = [status EXCEPT ![t] = "Pending"]
    /\ EarlyReject(t, {"total_submissions", "rejected_task_internal"})
    /\ UNCHANGED <<producer_count, active_tasks, states, queueVars, result,
                   reason, cleanup_deadline, ackVars, admitted, frame, body,
                   ownerVars, shutdownVars>>

\* The active-task limit is taken with one compare-and-swap.
TakeActive(t) ==
    /\ active_tasks < MaxTasks
    /\ SpawnStep(t, "limit", "register")
    /\ active_tasks' = active_tasks + 1
    /\ UNCHANGED <<producer_count, states, stats, queueVars, outcomeVars,
                   ackVars, admitted, frame, body, comp, ownerVars, shutdownVars>>

RejectAtLimit(t) ==
    /\ ~(active_tasks < MaxTasks)
    /\ SpawnStep(t, "limit", "rejecting")
    /\ EarlyReject(t, {"rejected_task_limit"})
    /\ UNCHANGED <<producer_count, active_tasks, states, queueVars, outcomeVars,
                   ackVars, admitted, frame, body, ownerVars, shutdownVars>>

\* Seeded fault: a rejected submission keeps its active unit.
RollbackKeepsActive(t) == UNCHANGED active_tasks /\ states' = states \ {t}

\* TaskSubmissionReservation::rollback without a queue credit.
Rollback(t) ==
    /\ active_tasks' = active_tasks - 1
    /\ states' = states \ {t}

\* Registration rechecks closing under the registry lock.
Register(t) ==
    /\ ~Closing
    /\ SpawnStep(t, "register", "build")
    /\ states' = states \cup {t}
    /\ UNCHANGED <<producer_count, active_tasks, stats, queueVars, outcomeVars,
                   ackVars, admitted, frame, body, comp, ownerVars, shutdownVars>>

RejectClosing(t) ==
    /\ Closing
    /\ SpawnStep(t, "register", "rejecting")
    /\ Rollback(t)
    /\ EarlyReject(t, {"rejected_task_internal"})
    /\ UNCHANGED <<producer_count, queueVars, outcomeVars, ackVars, admitted,
                   frame, body, ownerVars, shutdownVars>>

\* The constructor runs without any lock: cancel_all can reach the task now.
Build(t) ==
    /\ SpawnStep(t, "build", "install")
    /\ UNCHANGED <<countVars, queueVars, outcomeVars, ackVars, admitted, frame,
                   body, comp, ownerVars, shutdownVars>>

BuildPanic(t) ==
    /\ "build_panic" \in Faults
    /\ SpawnStep(t, "build", "rejecting")
    /\ frame' = [frame EXCEPT ![t] = {}]
    /\ Rollback(t)
    /\ EarlyReject(t, {"rejected_task_internal"})
    /\ UNCHANGED <<producer_count, queueVars, outcomeVars, ackVars, admitted,
                   body, ownerVars, shutdownVars>>

\* install_run hands the frame to the pending_run slot ...
InstallRun(t) ==
    /\ CanInstall(t)
    /\ SpawnStep(t, "install", "reserve")
    /\ frame' = Move(t, "spawn", "slot")
    /\ UNCHANGED <<countVars, queueVars, outcomeVars, ackVars, admitted, body,
                   comp, ownerVars, shutdownVars>>

\* ... unless a cancellation arrived during the build: then the builder keeps
\* it, destroys it and completes the task.
RefuseInstall(t) ==
    /\ ~CanInstall(t)
    /\ SpawnStep(t, "install", "installing")
    /\ frame' = Move(t, "spawn", "install")
    /\ comp' = Goto(t, "install", "destroy")
    /\ UNCHANGED <<countVars, queueVars, outcomeVars, ackVars, admitted, body,
                   ownerVars, shutdownVars>>

\* Even a frame the builder had to destroy goes on to the queue.
AfterInstall(t) ==
    /\ comp[t]["install"] = "done"
    /\ SpawnStep(t, "installing", "reserve")
    /\ UNCHANGED <<countVars, queueVars, outcomeVars, ackVars, admitted, frame,
                   body, comp, ownerVars, shutdownVars>>

\* A typed runner whose header exceeds the driver's budget is rejected.
HeaderOverflow(t) ==
    /\ "header_overflow" \in Faults
    /\ SpawnStep(t, "reserve", "reject")
    /\ Rollback(t)
    /\ stats' = Bump({"rejected_task_internal"})
    /\ UNCHANGED <<producer_count, queueVars, outcomeVars, ackVars, admitted,
                   frame, body, comp, owner, drain, shutdownVars>>

\* reserve_queue: a credit covers the channel slot and the cached head together.
ReserveQueue(t) ==
    /\ queued_tasks < TaskQueueLimit
    /\ SpawnStep(t, "reserve", "send")
    /\ queued_tasks' = queued_tasks + 1
    /\ UNCHANGED <<countVars, queue, head, outcomeVars, ackVars, admitted,
                   frame, body, comp, ownerVars, shutdownVars>>

RejectAtQueueLimit(t) ==
    /\ ~(queued_tasks < TaskQueueLimit)
    /\ SpawnStep(t, "reserve", "reject")
    /\ Rollback(t)
    /\ stats' = Bump({"rejected_task_queue"})
    /\ UNCHANGED <<producer_count, queueVars, outcomeVars, ackVars, admitted,
                   frame, body, comp, ownerVars, shutdownVars>>

\* try_send.  Its Full outcome is unreachable behind a credit (QueueBounded)
\* and its Disconnected outcome needs the runtime to be gone.
Send(t) ==
    /\ Len(queue) < TaskQueueLimit
    /\ SpawnStep(t, "send", "sent")
    /\ queue' = Append(queue, t)
    /\ UNCHANGED <<countVars, head, queued_tasks, outcomeVars, ackVars,
                   admitted, frame, body, comp, ownerVars, shutdownVars>>

\* The accepted counter follows the hand-over: a worker may already be done.
CountAccepted(t) ==
    /\ SpawnStep(t, "sent", "accepted")
    /\ stats' = Bump({"accepted_submissions"})
    /\ UNCHANGED <<producer_count, active_tasks, states, queueVars,
                   outcomeVars, ackVars, admitted, frame, body, comp,
                   ownerVars, shutdownVars>>

\* reject_queued as called by the submission: it takes the frame and
\* completes the task ...
RejectQueued(t) ==
    /\ ~CancellationOwnsCompletion(t)
    /\ SpawnStep(t, "reject", "rejecting")
    /\ frame' = Move(t, "slot", "reject")
    /\ comp' = Goto(t, "reject", "destroy")
    /\ UNCHANGED <<countVars, queueVars, outcomeVars, ackVars, admitted, body,
                   ownerVars, shutdownVars>>

\* Seeded fault: the submission waits for a completion it left to others.
YieldRejectionWaits(t) ==
    /\ CancellationOwnsCompletion(t)
    /\ SpawnStep(t, "reject", "rejecting")
    /\ UNCHANGED <<countVars, queueVars, outcomeVars, ackVars, admitted, frame,
                   body, comp, ownerVars, shutdownVars>>

\* ... or leaves both to the cancellation, without waiting for it.
YieldRejection(t) ==
    /\ CancellationOwnsCompletion(t)
    /\ SpawnStep(t, "reject", "settle")
    /\ UNCHANGED <<countVars, queueVars, outcomeVars, ackVars, admitted, frame,
                   body, comp, ownerVars, shutdownVars>>

AfterReject(t) ==
    /\ comp[t]["reject"] = "done"
    /\ SpawnStep(t, "rejecting", "settle")
    /\ UNCHANGED <<countVars, queueVars, outcomeVars, ackVars, admitted, frame,
                   body, comp, ownerVars, shutdownVars>>

\* ProducerScope drops first the constructor it never called ...
DropConstructor(t) ==
    /\ spawn[t] = "settle" /\ "spawn" \in frame[t]
    /\ frame' = [frame EXCEPT ![t] = @ \ {"spawn"}]
    /\ UNCHANGED <<countVars, queueVars, outcomeVars, ackVars, spawn, admitted,
                   body, comp, ownerVars, shutdownVars>>

\* ... and then publishes how the submission ended.
Settle(t) ==
    /\ spawn[t] \in {"settle", "accepted"} /\ "spawn" \notin frame[t]
    /\ submission' = [submission EXCEPT ![t] =
          IF spawn[t] = "accepted" THEN "Accepted" ELSE "ProducerRetired"]
    /\ spawn' = [spawn EXCEPT ![t] = "leave"]
    /\ UNCHANGED <<countVars, queueVars, outcomeVars, completion_cleanup_done,
                   accounting, admitted, frame, body, comp, ownerVars,
                   shutdownVars>>

\* ProducerResponsibility is the last guard to drop: the admission ends.
EndAdmission(t) ==
    /\ admitted' = [admitted EXCEPT ![t] = FALSE]
    /\ producer_count' = IF admitted[t] THEN producer_count - 1 ELSE producer_count

\* The caller gets the handle ...
Leave(t) ==
    /\ status[t] # "Absent"
    /\ SpawnStep(t, "leave", "returned")
    /\ EndAdmission(t)
    /\ owner' = [owner EXCEPT ![t] = "held"]
    /\ UNCHANGED <<active_tasks, states, stats, queueVars, outcomeVars,
                   ackVars, frame, body, comp, drain, shutdownVars>>

\* ... or the error of a denied submission, for which no task was created.
LeaveDenied(t) ==
    /\ status[t] = "Absent"
    /\ SpawnStep(t, "leave", "refused")
    /\ EndAdmission(t)
    /\ UNCHANGED <<active_tasks, states, stats, queueVars, outcomeVars,
                   ackVars, frame, body, comp, ownerVars, shutdownVars>>

Submission(t) ==
    \/ BeginSpawn(t) \/ DenySpawn(t) \/ CreateTask(t) \/ RejectClosed(t)
    \/ TakeActive(t) \/ RejectAtLimit(t) \/ Register(t) \/ RejectClosing(t)
    \/ Build(t) \/ BuildPanic(t) \/ InstallRun(t) \/ RefuseInstall(t)
    \/ AfterInstall(t) \/ HeaderOverflow(t) \/ ReserveQueue(t)
    \/ RejectAtQueueLimit(t) \/ Send(t) \/ CountAccepted(t) \/ RejectQueued(t)
    \/ YieldRejection(t) \/ AfterReject(t) \/ DropConstructor(t) \/ Settle(t)
    \/ Leave(t) \/ LeaveDenied(t)

-----------------------------------------------------------------------------
(* Completion: complete_with_status and finish_task_accounting.             *)

\* The role destroys the frame it took before it publishes the outcome.
DestroyFrame(t, r) ==
    /\ comp[t][r] = "destroy"
    /\ frame' = [frame EXCEPT ![t] = @ \ {r}]
    /\ comp' = Goto(t, r, "publish")
    /\ UNCHANGED <<countVars, queueVars, outcomeVars, ackVars, spawn, admitted,
                   body, ownerVars, shutdownVars>>

\* Outcomes a role can bring to completion.
Outcomes(r) ==
    CASE r = "body"   -> {"Completed", "Failed", "Panicked"}
      [] r = "reject" -> {"Completed", "Failed"}
      [] r = "refuse" -> {"Failed"}
      [] OTHER        -> {"Completed"}

\* A body can also end with a termination error, which becomes the context of
\* the task or tightens the one it has.
Terminations(r) == IF r = "body" THEN Reasons \cup {"none"} ELSE {"none"}

\* A call that finds the task completed changes nothing and loses its result.
Commit(t, old, new) == IF CanPublish(t) THEN new ELSE old

Publish(t, r) ==
    /\ comp[t][r] = "publish"
    /\ comp' = Goto(t, r, IF CanPublish(t) THEN "discard" ELSE "lost")
    /\ \E kind \in Outcomes(r), incoming \in Terminations(r), d \in Deadlines :
         LET why == IF CancelledTask(t) THEN reason[t] ELSE incoming
         IN /\ reason' = [reason EXCEPT ![t] = Commit(t, @, why)]
            /\ cleanup_deadline' = [cleanup_deadline EXCEPT ![t] = Commit(t, @,
                  IF incoming = "none" THEN @
                  ELSE IF CancelledTask(t) THEN Min2(@, d) ELSE d)]
            /\ status' = [status EXCEPT ![t] = Commit(t, @,
                  IF why = "none" THEN kind ELSE TerminationStatus(why))]
            /\ result' = [result EXCEPT ![t] = Commit(t, @, ~OwnerReleased(t))]
    /\ UNCHANGED <<countVars, queueVars, ackVars, spawn, admitted, frame, body,
                   ownerVars, shutdownVars>>

\* Losing and abandoned payloads are dropped outside the lock; only the call
\* that published acknowledges completion cleanup.
Discard(t, r) ==
    /\ comp[t][r] \in {"discard", "lost"}
    /\ completion_cleanup_done' = [completion_cleanup_done EXCEPT ![t] =
          @ \/ comp[t][r] = "discard"]
    /\ comp' = Goto(t, r, "account")
    /\ UNCHANGED <<countVars, queueVars, outcomeVars, submission, accounting,
                   spawn, admitted, frame, body, ownerVars, shutdownVars>>

\* finish_task_accounting: the gates and the once-claim ...
ClaimAccounting(t, r) ==
    /\ comp[t][r] = "account"
    /\ accounting' = [accounting EXCEPT ![t] = IF CanAccount(t) THEN "claimed" ELSE @]
    /\ comp' = Goto(t, r, IF CanAccount(t) THEN "count" ELSE "done")
    /\ UNCHANGED <<countVars, queueVars, outcomeVars, submission,
                   completion_cleanup_done, spawn, admitted, frame, body,
                   ownerVars, shutdownVars>>

\* One step of the thread that holds the claim.
Accounts(t, r, from, to) ==
    /\ comp[t][r] = "count" /\ accounting[t] = from
    /\ accounting' = [accounting EXCEPT ![t] = to]

\* ... the registry ...
Unregister(t, r) ==
    /\ Accounts(t, r, "claimed", "unregistered")
    /\ states' = states \ {t}
    /\ UNCHANGED <<producer_count, active_tasks, stats, queueVars, outcomeVars,
                   submission, completion_cleanup_done, controlVars, shutdownVars>>

\* ... active_tasks ...
ReleaseActive(t, r) ==
    /\ Accounts(t, r, "unregistered", "released")
    /\ active_tasks' = active_tasks - 1
    /\ UNCHANGED <<producer_count, states, stats, queueVars, outcomeVars,
                   submission, completion_cleanup_done, controlVars, shutdownVars>>

FinishedCounters(t) ==
    {"finished_tasks"}
      \cup (IF status[t] = "Cancelled" THEN {"finished_cancelled_tasks"} ELSE {})
      \cup (IF status[t] = "TimedOut" THEN {"finished_timed_out_tasks"} ELSE {})

\* ... the cumulative counters (the one of the cause follows finished_tasks; no
\* other step reads either) ...
CountFinished(t, r) ==
    /\ Accounts(t, r, "released", "counted")
    /\ stats' = Bump(FinishedCounters(t))
    /\ UNCHANGED <<producer_count, active_tasks, states, queueVars, outcomeVars,
                   submission, completion_cleanup_done, controlVars, shutdownVars>>

\* ... and the acknowledgement a witness may rely on.
AckAccounting(t, r) ==
    /\ Accounts(t, r, "counted", "done")
    /\ comp' = Goto(t, r, "done")
    /\ UNCHANGED <<countVars, queueVars, outcomeVars, submission,
                   completion_cleanup_done, spawn, admitted, frame, body,
                   ownerVars, shutdownVars>>

Completion(t, r) ==
    \/ DestroyFrame(t, r) \/ Publish(t, r) \/ Discard(t, r)
    \/ ClaimAccounting(t, r) \/ Unregister(t, r) \/ ReleaseActive(t, r)
    \/ CountFinished(t, r) \/ AckAccounting(t, r)

-----------------------------------------------------------------------------
(* Execution: the claimant of a queue node.                                 *)

QueueEmpty == head = NoTask /\ queue = << >>

NextJob == IF head # NoTask THEN head ELSE Head(queue)

\* TaskQueueReceiver::recv and try_recv take the cached head first.
TakeJob ==
    /\ head' = NoTask
    /\ queue' = IF head # NoTask THEN queue ELSE Tail(queue)

\* A worker, or a waiting task that helps, receives a node; its credit is
\* returned only after the receiver lock is gone.
Dequeue ==
    /\ ~QueueEmpty
    /\ TakeJob
    /\ body' = [body EXCEPT ![NextJob] = "dequeued"]
    /\ UNCHANGED <<countVars, queued_tasks, outcomeVars, ackVars, spawn,
                   admitted, frame, comp, ownerVars, shutdownVars>>

ReturnCredit(t) ==
    /\ body[t] = "dequeued"
    /\ queued_tasks' = queued_tasks - 1
    /\ body' = [body EXCEPT ![t] = "claim"]
    /\ UNCHANGED <<countVars, queue, head, outcomeVars, ackVars, spawn,
                   admitted, frame, comp, ownerVars, shutdownVars>>

\* LocalJobFrame::claim ...
ClaimRun(t) ==
    /\ body[t] = "claim" /\ CanClaim(t)
    /\ status' = [status EXCEPT ![t] = "Running"]
    /\ frame' = Move(t, "slot", "body")
    /\ body' = [body EXCEPT ![t] = "running"]
    /\ UNCHANGED <<countVars, queueVars, result, reason, cleanup_deadline,
                   ackVars, spawn, admitted, comp, ownerVars, shutdownVars>>

\* ... without a frame the node goes straight to retirement.
ClaimNothing(t) ==
    /\ body[t] = "claim" /\ ~CanClaim(t)
    /\ body' = [body EXCEPT ![t] = "retire"]
    /\ UNCHANGED <<countVars, queueVars, outcomeVars, ackVars, spawn, admitted,
                   frame, comp, ownerVars, shutdownVars>>

\* The claimant has no local frame storage left: reject_queued on its thread.
RefuseExecution(t) ==
    /\ "frame_storage" \in Faults
    /\ body[t] = "claim" /\ ~CancellationOwnsCompletion(t)
    /\ frame' = Move(t, "slot", "refuse")
    /\ comp' = Goto(t, "refuse", "destroy")
    /\ body' = [body EXCEPT ![t] = "complete"]
    /\ UNCHANGED <<countVars, queueVars, outcomeVars, ackVars, spawn, admitted,
                   ownerVars, shutdownVars>>

YieldRefusal(t) ==
    /\ "frame_storage" \in Faults
    /\ body[t] = "claim" /\ CancellationOwnsCompletion(t)
    /\ body' = [body EXCEPT ![t] = "retire"]
    /\ UNCHANGED <<countVars, queueVars, outcomeVars, ackVars, spawn, admitted,
                   frame, comp, ownerVars, shutdownVars>>

\* set_status around an await, which must not hide a cancellation.
SetStatus(t, from, to) ==
    /\ body[t] = "running" /\ status[t] = from
    /\ ~result[t] /\ ~CancelledTask(t)
    /\ status' = [status EXCEPT ![t] = to]
    /\ UNCHANGED <<countVars, queueVars, result, reason, cleanup_deadline,
                   ackVars, controlVars, shutdownVars>>

\* Seeded fault: the runner outlives the completion.
FinishBodyKeepsRunner(t) ==
    /\ body[t] = "running"
    /\ comp' = Goto(t, "body", "publish")
    /\ body' = [body EXCEPT ![t] = "complete"]
    /\ UNCHANGED <<countVars, queueVars, outcomeVars, ackVars, spawn, admitted,
                   frame, ownerVars, shutdownVars>>

\* The body returns, panics or is terminated; its frame is gone before the
\* completion starts.
FinishBody(t) ==
    /\ body[t] = "running"
    /\ frame' = [frame EXCEPT ![t] = @ \ {"body"}]
    /\ comp' = Goto(t, "body", "publish")
    /\ body' = [body EXCEPT ![t] = "complete"]
    /\ UNCHANGED <<countVars, queueVars, outcomeVars, ackVars, spawn, admitted,
                   ownerVars, shutdownVars>>

AfterComplete(t) ==
    /\ body[t] = "complete"
    /\ "done" \in {comp[t]["body"], comp[t]["refuse"]}
    /\ body' = [body EXCEPT ![t] = "retire"]
    /\ UNCHANGED <<countVars, queueVars, outcomeVars, ackVars, spawn, admitted,
                   frame, comp, ownerVars, shutdownVars>>

\* finish_task_job, after the local frame and the queue node were dropped.
FinishTaskJob(t) ==
    /\ body[t] = "retire"
    /\ comp' = Goto(t, "node", "account")
    /\ body' = [body EXCEPT ![t] = "done"]
    /\ UNCHANGED <<countVars, queueVars, outcomeVars, ackVars, spawn, admitted,
                   frame, ownerVars, shutdownVars>>

\* retire_cancelled_queue_prefix, called by cancel batches, retirement batches
\* and the shutdown, retires a cleaned node and returns its credit ...
RetirePrefix ==
    /\ ~QueueEmpty /\ CleanedNode(NextJob)
    /\ TakeJob
    /\ queued_tasks' = queued_tasks - 1
    /\ body' = [body EXCEPT ![NextJob] = "retire"]
    /\ UNCHANGED <<countVars, outcomeVars, ackVars, spawn, admitted, frame,
                   comp, ownerVars, shutdownVars>>

\* ... and caches a node that is not cleaned, with its credit.
CachePrefix ==
    /\ head = NoTask /\ queue # << >> /\ ~CleanedNode(NextJob)
    /\ head' = NextJob
    /\ queue' = Tail(queue)
    /\ UNCHANGED <<countVars, queued_tasks, outcomeVars, ackVars, controlVars,
                   shutdownVars>>

Execution(t) ==
    \/ ReturnCredit(t) \/ ClaimRun(t) \/ ClaimNothing(t)
    \/ RefuseExecution(t) \/ YieldRefusal(t)
    \/ SetStatus(t, "Running", "Waiting") \/ SetStatus(t, "Waiting", "Running")
    \/ FinishBody(t) \/ AfterComplete(t) \/ FinishTaskJob(t)

-----------------------------------------------------------------------------
(* Cancellation and owner release.                                          *)

\* Seeded fault: an emptied slot counts as a live task.
CanCancelSlotOnly(t) == ~result[t]

CanCancel(t) == ~result[t] /\ ~Terminal(t)

\* The request takes the pending frame, so its thread destroys and completes.
WinsFrame(t) == CanCancel(t) /\ ~CancelledTask(t) /\ "slot" \in frame[t]

\* Seeded fault: the last cause wins.
ReasonAfterLast(t, why) == IF CanCancel(t) THEN why ELSE reason[t]

\* The context's reason after a request.
ReasonAfter(t, why) ==
    IF CanCancel(t) /\ ~CancelledTask(t) THEN why ELSE reason[t]

\* request_cancel_with: the first context fixes the reason, later ones can only
\* shorten the deadline.
RequestCancel(t, why, d) ==
    /\ reason' = [reason EXCEPT ![t] = ReasonAfter(t, why)]
    /\ cleanup_deadline' = [cleanup_deadline EXCEPT ![t] =
          IF ~CanCancel(t) THEN @
          ELSE IF CancelledTask(t) THEN Min2(@, d) ELSE d]
    /\ status' = [status EXCEPT ![t] =
          IF CanCancel(t) /\ ~CancelledTask(t) THEN "Cancelling" ELSE @]
    /\ IF WinsFrame(t)
       THEN frame' = Move(t, "slot", "cancel") /\ comp' = Goto(t, "cancel", "destroy")
       ELSE UNCHANGED <<frame, comp>>

\* TaskHandle::request_cancel, a cancel batch, or a second release that lost.
CancelHandle(t) ==
    /\ t \in UsedHandles /\ owner[t] \notin {"none", "done"}
    /\ \E why \in Reasons, d \in Deadlines : RequestCancel(t, why, d)
    /\ UNCHANGED <<countVars, queueVars, result, ackVars, spawn, admitted,
                   body, ownerVars, shutdownVars>>

\* remember_cleanup_deadline: a destructor run on behalf of the task fed back a
\* shorter deadline.
Cleaning(t) ==
    \/ \E r \in Completers : comp[t][r] \in {"destroy", "publish", "discard", "account"}
    \/ owner[t] \in {"dropping", "cancel", "await", "publish"}

RememberDeadline(t) ==
    /\ CancelledTask(t) /\ Cleaning(t)
    /\ \E d \in Deadlines :
         cleanup_deadline' = [cleanup_deadline EXCEPT ![t] = Min2(@, d)]
    /\ UNCHANGED <<countVars, queueVars, status, result, reason, ackVars,
                   controlVars, shutdownVars>>

\* A consuming await takes the outcome.
AwaitResult(t) ==
    /\ t \in UsedHandles /\ owner[t] = "held" /\ result[t]
    /\ result' = [result EXCEPT ![t] = FALSE]
    /\ UNCHANGED <<countVars, queueVars, status, reason, cleanup_deadline,
                   ackVars, controlVars, shutdownVars>>

\* release_owner: the first release detaches the outcome under the lock ...
ReleaseOwner(t) ==
    /\ t \in UsedHandles /\ owner[t] = "held"
    /\ owner' = [owner EXCEPT ![t] = IF result[t] THEN "dropping" ELSE "cancel"]
    /\ result' = [result EXCEPT ![t] = FALSE]
    /\ UNCHANGED <<countVars, queueVars, status, reason, cleanup_deadline,
                   ackVars, spawn, admitted, frame, body, comp, drain,
                   shutdownVars>>

\* ... drops it, or leaves a result that is one chain down to a task handle to
\* the iterative owner drain ...
DropResult(t) ==
    /\ owner[t] = "dropping"
    /\ owner' = [owner EXCEPT ![t] = "cancel"]
    /\ \E deferred \in {FALSE, status[t] = "Completed"} :
         drain' = [drain EXCEPT ![t] = deferred]
    /\ UNCHANGED <<countVars, queueVars, outcomeVars, ackVars, spawn, admitted,
                   frame, body, comp, shutdownVars>>

\* A request that took the pending frame returns after its destruction.
AfterOwnerRequest(t) == IF WinsFrame(t) THEN "await" ELSE "publish"

\* ... cancels the task, synchronously when it took the pending frame ...
OwnerCancel(t) ==
    /\ owner[t] = "cancel"
    /\ owner' = [owner EXCEPT ![t] = AfterOwnerRequest(t)]
    /\ \E why \in Reasons, d \in Deadlines : RequestCancel(t, why, d)
    /\ UNCHANGED <<countVars, queueVars, result, ackVars, spawn, admitted,
                   body, drain, shutdownVars>>

AfterOwnerCancel(t) ==
    /\ owner[t] = "await" /\ comp[t]["cancel"] = "done"
    /\ owner' = [owner EXCEPT ![t] = "publish"]
    /\ UNCHANGED <<countVars, queueVars, outcomeVars, ackVars, spawn, admitted,
                   frame, body, comp, drain, shutdownVars>>

\* ... and publishes its two obligations; finish_owner_cleanup needs both.
PublishOwner(t) ==
    /\ owner[t] = "publish"
    /\ owner' = [owner EXCEPT ![t] = "done"]
    /\ UNCHANGED <<countVars, queueVars, outcomeVars, ackVars, spawn, admitted,
                   frame, body, comp, drain, shutdownVars>>

\* flush_owner_results: the outermost drain destroyed the detached result.
DrainOwnerResult(t) ==
    /\ drain[t]
    /\ drain' = [drain EXCEPT ![t] = FALSE]
    /\ UNCHANGED <<countVars, queueVars, outcomeVars, ackVars, spawn, admitted,
                   frame, body, comp, owner, shutdownVars>>

Ownership(t) ==
    \/ CancelHandle(t) \/ RememberDeadline(t) \/ AwaitResult(t)
    \/ ReleaseOwner(t) \/ DropResult(t) \/ OwnerCancel(t)
    \/ AfterOwnerCancel(t) \/ PublishOwner(t) \/ DrainOwnerResult(t)

-----------------------------------------------------------------------------
(* Shutdown: cancel_all_and_wait.  Blocking jobs are not counted here.      *)

ShutdownStep(from, to) == shutdown = from /\ shutdown' = to

BeginShutdown ==
    /\ MaxShutdowns > 0
    /\ ShutdownStep("idle", "observed")
    /\ observed' = (producer_count # 0 \/ active_tasks # 0)
    /\ UNCHANGED <<countVars, queueVars, outcomeVars, ackVars, controlVars,
                   todo, waiting_for, expired>>

SetClosing ==
    /\ ShutdownStep("observed", "closing")
    /\ UNCHANGED <<producer_count, active_tasks, states, stats, queueVars,
                   outcomeVars, ackVars, controlVars, todo, waiting_for,
                   observed, expired>>

CloseGate ==
    /\ ShutdownStep("closing", "snapshot")
    /\ observed' = (observed \/ producer_count # 0)
    /\ UNCHANGED <<countVars, queueVars, outcomeVars, ackVars, controlVars,
                   todo, waiting_for, expired>>

\* cancel_all_with copies the registry under its lock ...
Snapshot ==
    /\ ShutdownStep("snapshot", "cancelling")
    /\ todo' = states
    /\ UNCHANGED <<countVars, queueVars, outcomeVars, ackVars, controlVars,
                   waiting_for, observed, expired>>

\* A frame the shutdown took is destroyed and completed on its own thread.
ShutdownFree == waiting_for # NoTask => comp[waiting_for]["cancel"] = "done"

\* ... and cancels one task after the other.
CancelSnapshot(t) ==
    /\ shutdown = "cancelling" /\ t \in todo /\ ShutdownFree
    /\ todo' = todo \ {t}
    /\ waiting_for' = IF WinsFrame(t) THEN t ELSE NoTask
    /\ \E d \in Deadlines : RequestCancel(t, "Cancelled", d)
    /\ UNCHANGED <<countVars, queueVars, result, ackVars, spawn, admitted,
                   body, ownerVars, shutdown, observed, expired>>

EndCancelAll ==
    /\ todo = {} /\ ShutdownFree
    /\ ShutdownStep("cancelling", "poll")
    /\ waiting_for' = NoTask
    /\ UNCHANGED <<countVars, queueVars, outcomeVars, ackVars, controlVars,
                   todo, observed, expired>>

\* What a round that saw something outstanding does next.
AfterOutstanding == IF expired THEN "timeout" ELSE "poll"

StillOutstanding ==
    /\ observed' = TRUE
    /\ shutdown' = AfterOutstanding

\* Seeded fault: only active tasks are awaited.
PollProducersSkipped ==
    /\ ShutdownStep("poll", "pollActive")
    /\ UNCHANGED <<countVars, queueVars, outcomeVars, ackVars, controlVars, todo,
                   waiting_for, observed, expired>>

\* The wait loop reads the producer count before the active tasks: a submission
\* that is over has handed its task to active_tasks or rolled it back.
PollProducers ==
    /\ shutdown = "poll"
    /\ IF producer_count # 0
       THEN StillOutstanding
       ELSE shutdown' = "pollActive" /\ UNCHANGED observed
    /\ UNCHANGED <<countVars, queueVars, outcomeVars, ackVars, controlVars,
                   todo, waiting_for, expired>>

\* Work that was seen outstanding must also have met the deadline.
PollActive ==
    /\ shutdown = "pollActive"
    /\ IF active_tasks # 0
       THEN StillOutstanding
       ELSE /\ shutdown' = IF observed /\ expired THEN "timeout" ELSE "ok"
            /\ UNCHANGED observed
    /\ UNCHANGED <<countVars, queueVars, outcomeVars, ackVars, controlVars,
                   todo, waiting_for, expired>>

\* The absolute deadline of the shutdown passes.
Expire ==
    /\ shutdown # "idle" /\ ~expired
    /\ expired' = TRUE
    /\ UNCHANGED <<countVars, queueVars, outcomeVars, ackVars, controlVars,
                   shutdown, todo, waiting_for, observed>>

Shutdown ==
    \/ BeginShutdown \/ SetClosing \/ CloseGate \/ Snapshot
    \/ (\E t \in Tasks : CancelSnapshot(t))
    \/ EndCancelAll \/ PollProducers \/ PollActive \/ Expire

-----------------------------------------------------------------------------

Next ==
    \/ \E t \in Tasks : Submission(t) \/ Execution(t) \/ Ownership(t)
    \/ \E t \in Tasks, r \in Roles : Completion(t, r)
    \/ Dequeue \/ RetirePrefix \/ CachePrefix \/ Shutdown

\* Every started call runs to its end and a worker serves the queue: threads are
\* scheduled by the operating system, no step waits for a lock that is held
\* across user code, and time passes.  Nobody has to submit, await, cancel,
\* release or shut down.
RuntimeFairness ==
    /\ \A t \in Tasks :
         /\ WF_vars(Submission(t) /\ spawn[t] # "none")
         /\ WF_vars(ReturnCredit(t) \/ ClaimRun(t) \/ ClaimNothing(t)
                      \/ AfterComplete(t) \/ FinishTaskJob(t))
         /\ WF_vars(DropResult(t) \/ OwnerCancel(t) \/ AfterOwnerCancel(t)
                      \/ PublishOwner(t))
         /\ WF_vars(DrainOwnerResult(t))
         /\ \A r \in Roles : WF_vars(Completion(t, r))
    /\ WF_vars(Dequeue)
    /\ WF_vars(Shutdown /\ shutdown # "idle" /\ expired' = expired)
    /\ WF_vars(Expire)

\* Bodies may hang.
HungSpec == Init /\ [][Next]_vars /\ RuntimeFairness

BodiesReturn == \A t \in Tasks : WF_vars(FinishBody(t))

Spec == HungSpec /\ BodiesReturn

-----------------------------------------------------------------------------
(* Properties *)

\* The counters are left in Int: ActiveExact says what active_tasks counts.
TypeOK ==
    /\ producer_count \in Int /\ active_tasks \in Int
    /\ states \subseteq Tasks
    /\ stats \in [StatNames -> Nat]
    /\ queue \in Seq(Tasks) /\ head \in Tasks \cup {NoTask} /\ queued_tasks \in Int
    /\ status \in [Tasks -> Statuses]
    /\ result \in [Tasks -> BOOLEAN]
    /\ reason \in [Tasks -> Reasons \cup {"none"}]
    /\ cleanup_deadline \in [Tasks -> Nat]
    /\ submission \in [Tasks -> {"Pending", "Accepted", "ProducerRetired"}]
    /\ completion_cleanup_done \in [Tasks -> BOOLEAN]
    /\ accounting \in [Tasks -> AccountingStages]
    /\ spawn \in [Tasks -> SpawnLabels]
    /\ admitted \in [Tasks -> BOOLEAN]
    /\ frame \in [Tasks -> SUBSET Holders]
    /\ body \in [Tasks -> BodyLabels]
    /\ comp \in [Tasks -> [Roles -> CompletionLabels]]
    /\ owner \in [Tasks -> OwnerLabels]
    /\ drain \in [Tasks -> BOOLEAN]
    /\ shutdown \in ShutdownLabels
    /\ waiting_for \in Tasks \cup {NoTask}
    /\ todo \subseteq Tasks
    /\ observed \in BOOLEAN /\ expired \in BOOLEAN

\* A captured frame has one owner at a time: the submission, the pending_run
\* slot, or the one thread that took it.  Two owners would run a cancelled body
\* or run its destructors twice.
FrameOwnedOnce == \A t \in Tasks : \A a, b \in frame[t] : a = b

\* Of the builder, the rejecting submission, the claimant and the canceller,
\* exactly the one that ended up with the frame calls complete.
OneCompleter ==
    \A t \in Tasks : \A a, b \in Completers :
        comp[t][a] # "idle" /\ comp[t][b] # "idle" => a = b

\* Nobody can see an outcome while the frame still runs or is being destroyed;
\* a constructor that was never called may outlive its rejection, but not the
\* submission.
OutcomeAfterFrame ==
    \A t \in Tasks : Terminal(t) =>
        /\ frame[t] \subseteq {"spawn"}
        /\ frame[t] # {} => spawn[t] \in {"rejecting", "settle"}

\* A frame has one owner, one thread completes its task, and the outcome comes
\* after the frame is gone, in the states of the type invariant.
FrameDiscipline == TypeOK /\ FrameOwnedOnce /\ OneCompleter /\ OutcomeAfterFrame

\* The accounting has returned the task's unit of active_tasks.
Released(t) == accounting[t] \in {"released", "counted", "done"}

\* The task owns a unit of active_tasks.
Resident(t) ==
    \/ spawn[t] \in {"register", "build", "install", "installing", "reserve", "send"}
    \/ /\ spawn[t] \in {"sent", "accepted"} \/ submission[t] = "Accepted"
       /\ ~Released(t)

\* active_tasks counts every task from its admission to the fetch_sub of its
\* accounting, once, whichever of the completing and the retiring thread comes
\* last, and never exceeds the limit.
ActiveExact ==
    /\ active_tasks = Cardinality({t \in Tasks : Resident(t)})
    /\ active_tasks <= MaxTasks

\* Nodes in the channel, the node cached by a cleanup and granted reservations
\* together respect task_queue_limit, so a try_send behind a reservation never
\* finds the channel full.
QueueBounded ==
    Len(queue) + (IF head = NoTask THEN 0 ELSE 1)
      + Cardinality({t \in Tasks : spawn[t] = "send"}) <= TaskQueueLimit

\* cancel_all finds every task whose frame can still run: the registry loses a
\* task only when it is being rejected or after its frame is gone.
CancelAllReaches ==
    \A t \in Tasks : frame[t] \cap {"slot", "body"} # {} =>
        t \in states \/ spawn[t] = "reject"

\* Seeded fault: the once-claim is taken for the finished accounting.
WitnessRetiredOnClaim(t) ==
    /\ OwnerCleanupDone(t)
    /\ \/ submission[t] = "ProducerRetired"
       \/ /\ submission[t] = "Accepted"
          /\ completion_cleanup_done[t] /\ ExecutionQueueRetired(t)
          /\ accounting[t] # "open"

\* TaskRetirementWitness::observe, without the blocking jobs.
WitnessRetired(t) ==
    /\ OwnerCleanupDone(t)
    /\ \/ submission[t] = "ProducerRetired"
       \/ /\ submission[t] = "Accepted"
          /\ completion_cleanup_done[t] /\ ExecutionQueueRetired(t)
          /\ accounting[t] = "done"

\* Once a scope exit has seen its child terminal, a positive witness means that
\* nothing of the child is left: no frame, no outcome, no queue node, no
\* registry entry, no unit of active_tasks, and no thread that still has to
\* destroy, publish or account (one that lost the race may still drop its own
\* result and find the accounting claimed).
WitnessSound ==
    \A t \in Tasks : WitnessRetired(t) /\ Terminal(t) =>
        /\ frame[t] = {} /\ ~result[t]
        /\ body[t] \in {"none", "done"}
        /\ t # head /\ \A i \in DOMAIN queue : queue[i] # t
        /\ t \notin states /\ ~Resident(t)
        /\ \A r \in Roles : comp[t][r] \notin {"destroy", "publish", "count"}

\* A shutdown that reports success left nothing behind: no body runs, no node is
\* queued, no frame is alive except the constructor of a submission that came
\* after the gate closed and can only be rejected.
ShutdownSound ==
    shutdown = "ok" =>
        /\ QueueEmpty
        /\ \A t \in Tasks :
             /\ body[t] \in {"none", "done"}
             /\ frame[t] # {} => frame[t] = {"spawn"} /\ ~admitted[t]
             /\ ~Resident(t)

\* cancel_all_and_wait reaches every frame, and its success means that nothing
\* is left.
ShutdownComplete == CancelAllReaches /\ ShutdownSound

\* Tasks between the fetch_sub of active_tasks and the fetch_add of
\* finished_tasks: neither active nor finished.
InTransit == {t \in Tasks : accounting[t] = "released"}

\* Whenever no submission is in flight, every submission was accepted or rejected
\* for one reason, and every accepted task is active, finished or with the one
\* thread between the two counters.  The fields of task.stats() are separate
\* observations, so active and finished alone need not add up before that
\* thread is through; they do once every accepted task is acknowledged.
StatsReconcile ==
    (\A t \in Tasks : spawn[t] \in {"none", "returned", "refused"}) =>
        /\ stats["total_submissions"] =
              stats["accepted_submissions"] + stats["rejected_task_limit"]
                + stats["rejected_task_queue"] + stats["rejected_task_internal"]
        /\ stats["accepted_submissions"] =
              stats["finished_tasks"] + active_tasks + Cardinality(InTransit)

\* The counters hold together under all rejections and rollbacks of
\* spawn_start_deferred and all orders of the threads in finish_task_accounting,
\* each of whose updates is a step of its own.
CountersExact == ActiveExact /\ QueueBounded /\ StatsReconcile

\* An outcome is final: no late completion, cancellation or status change
\* replaces it, and it is stored once, for an owner that still exists.
OutcomeFinal ==
    [][\A t \in Tasks :
         /\ Terminal(t) => status'[t] = status[t]
         /\ result'[t] /\ ~result[t] => ~Terminal(t) /\ ~OwnerReleased(t)]_vars

\* The first termination cause is kept; every later one can only shorten the
\* cleanup deadline.
FirstCauseWins ==
    [][\A t \in Tasks : CancelledTask(t) =>
         /\ reason'[t] = reason[t]
         /\ cleanup_deadline'[t] <= cleanup_deadline[t]]_vars

\* What TaskContract sees of the runtime.
Contract == INSTANCE TaskContract WITH
    captured <- [t \in Tasks |-> frame[t] # {}],
    started  <- [t \in Tasks |-> body[t] = "running" \/ comp[t]["body"] # "idle"],
    cause    <- reason,
    outcome  <- [t \in Tasks |-> IF Terminal(t) THEN status[t] ELSE "none"],
    retired  <- [t \in Tasks |-> accounting[t] = "done"]

\* The runtime implements the contract of a task: no interleaving of producer,
\* claimant, canceller, owner and shutdown starts cancelled work, starts it
\* twice, publishes an outcome before the work is gone, or forgets a task that
\* still has work.
ImplementsContract == Contract!Spec

\* Every submission returns to its caller.
SubmissionEnds ==
    \A t \in Tasks : spawn[t] = "admit" ~> spawn[t] \in {"returned", "refused"}

\* Every task that was created reaches an outcome, whoever ends it.
TaskSettles == \A t \in Tasks : status[t] = "Pending" ~> Terminal(t)

\* Every accepted task is accounted: the completing and the retiring thread
\* never both leave it to the other.
AcceptedRetires ==
    \A t \in Tasks : submission[t] = "Accepted" ~> accounting[t] = "done"

\* Every release is acknowledged, also when the drain destroys the result later.
ReleaseAcknowledged ==
    \A t \in Tasks : OwnerReleased(t) ~> OwnerCleanupDone(t)

\* The shutdown is bounded.
ShutdownEnds == shutdown = "observed" ~> shutdown \in {"ok", "timeout"}

\* If bodies return, every created task reaches an outcome and every accepted
\* one is accounted, whichever of complete, release and retirement is last.
TasksFinish == BodiesReturn => TaskSettles /\ AcceptedRetires

\* Although bodies may hang, spawn, release_owner and cancel_all_and_wait end.
CallsEnd == SubmissionEnds /\ ReleaseAcknowledged /\ ShutdownEnds

=============================================================================
