----------------------------- MODULE AwaitHelp -----------------------------
(***************************************************************************)
(* How a task awaits another and what its thread does meanwhile: the await *)
(* ticket (src/src/runtime/task/await_ticket.rs), the wait graph and the   *)
(* helper of src/src/runtime/task.rs and the frame stack of                *)
(* src/src/runtime/task/local_driver.rs.                                   *)
(*                                                                         *)
(* A thread keeps a stack of frames and runs only the top one.  A frame    *)
(* whose await is pending helps: it takes the next queued job, whatever    *)
(* task that is, and runs it on top of itself; it is polled again when the *)
(* frames above it have gone.  The flat driver (runner frames) and the     *)
(* recursive one (callback bodies and the caller outside any task, called  *)
(* Root here, id 0 in the code) push and pop the same way, so one stack    *)
(* stands for both, and the help depth of a frame is its height.           *)
(*                                                                         *)
(* A step is one critical section: of a task's result lock, of wait_edges, *)
(* or of the queue receiver.  Bodies are arbitrary: a body starts the      *)
(* tasks it creates and awaits the handles it may hold in any order.       *)
(* Admission, accounting, payloads and retirement are TaskLifecycle's.     *)
(***************************************************************************)
EXTENDS Integers, Sequences, FiniteSets, SequencesExt

CONSTANTS
    Task,
    Worker,
    Root,              \* the caller with id 0 and the thread it runs on
    NoTask,
    NoThread,
    Creator,           \* the caller whose body starts a task
    MayAwait,          \* the handles the body of a caller may await
    Cancellable,       \* bound: tasks somebody else may cancel
    MAX_AWAIT_DEPTH

Caller == Task \cup {Root}
Thread == Worker \cup {Root}

ASSUME CallersAssumption ==
    /\ Root \notin Task \cup Worker
    /\ NoTask \notin Caller /\ NoThread \notin Thread
    /\ Creator \in [Task -> Caller]
    /\ MayAwait \in [Caller -> SUBSET Task]
    /\ Cancellable \subseteq Task

ASSUME DepthAssumption == MAX_AWAIT_DEPTH \in Nat \ {0}

\* "running" stands for the code's Running, Waiting and Cancelling.
Statuses == {"absent", "pending", "running", "terminal"}

\* Where the body of a caller is.  "off": it has no frame.
Labels == {"off", "body", "register", "poll", "help", "settle", "retire", "end"}

\* What a ready ticket holds: a value or termination of the target, or one of
\* the errors found while polling ("consumed": the target is over and its
\* result is gone; "storage": no frame for a helper).
Outcomes == {"none", "value", "terminated", "await_depth", "consumed", "storage"}

VARIABLES
    status,      \* TaskState::status
    slot,        \* tasks whose result slot holds a payload
    cancelled,   \* tasks whose cancellation was requested
    awaited,     \* TaskState::awaited, set by claim_await
    edges,       \* wait_edges: the task a waiting task waits for
    queue,       \* jobs in the task channel, the cached head first
    receiver,    \* the worker that holds the receiver lock inside recv
    stack,       \* the frames of every thread, the running one last
    pc,
    ticket,      \* the target of a caller's await
    outcome,     \* the outcome a ready ticket holds until it is handed over
    tried        \* bound: the handles a body has awaited, each at most once

vars == <<status, slot, cancelled, awaited, edges, queue, receiver, stack, pc,
          ticket, outcome, tried>>

TypeOK ==
    /\ status \in [Task -> Statuses]
    /\ slot \subseteq Task
    /\ cancelled \subseteq Task
    /\ awaited \subseteq Task
    /\ edges \in [Task -> Task \cup {NoTask}]
    /\ queue \in Seq(Task)
    /\ receiver \in Worker \cup {NoThread}
    /\ stack \in [Thread -> Seq(Caller)]
    /\ pc \in [Caller -> Labels]
    /\ ticket \in [Caller -> Task \cup {NoTask}]
    /\ outcome \in [Caller -> Outcomes]
    /\ tried \in [Caller -> SUBSET Task]

Init ==
    /\ status = [t \in Task |-> "absent"]
    /\ slot = {}
    /\ cancelled = {}
    /\ awaited = {}
    /\ edges = [t \in Task |-> NoTask]
    /\ queue = <<>>
    /\ receiver = NoThread
    /\ stack = [th \in Thread |-> IF th = Root THEN <<Root>> ELSE <<>>]
    /\ pc = [c \in Caller |-> IF c = Root THEN "body" ELSE "off"]
    /\ ticket = [c \in Caller |-> NoTask]
    /\ outcome = [c \in Caller |-> "none"]
    /\ tried = [c \in Caller |-> {}]

-----------------------------------------------------------------------------
(* Frames *)

\* The caller c runs on thread th: only the top frame is ever polled.
Runs(th, c) == stack[th] # <<>> /\ Last(stack[th]) = c

\* AWAIT_HELP_DEPTH while the top frame of th runs.
HelpDepth(th) == Len(stack[th]) - 1

MaxLocalFrames == MAX_AWAIT_DEPTH + 1

\* Frames::reserve_next, by the number of frames; the byte budgets admit
\* MaxLocalFrames frames of the largest header.
CanReserve(th) == Len(stack[th]) + 1 <= MaxLocalFrames

\* LocalJobFrame::claim and claim_run of the job t taken from the queue: the
\* frame runs the body, or retires at once when a cancellation took the body.
\* The labels of the other callers become those of at.
PushFrame(th, t, at) ==
    IF status[t] = "pending"
    THEN /\ status' = [status EXCEPT ![t] = "running"]
         /\ stack' = [stack EXCEPT ![th] = Append(@, t)]
         /\ pc' = [at EXCEPT ![t] = "body"]
    ELSE pc' = at /\ UNCHANGED <<status, stack>>

-----------------------------------------------------------------------------
(* Workers *)

\* An idle worker takes the receiver lock and blocks in recv with it.
WorkerListen(w) ==
    /\ stack[w] = <<>>
    /\ receiver = NoThread
    /\ receiver' = w
    /\ UNCHANGED <<status, slot, cancelled, awaited, edges, queue, stack, pc,
                   ticket, outcome, tried>>

\* recv returns the next job: the lock is released and the job is executed.
WorkerReceive(w) ==
    /\ receiver = w
    /\ queue # <<>>
    /\ receiver' = NoThread
    /\ queue' = Tail(queue)
    /\ PushFrame(w, Head(queue), pc)
    /\ UNCHANGED <<slot, cancelled, awaited, edges, ticket, outcome, tried>>

-----------------------------------------------------------------------------
(* Bodies *)

\* The body of c starts one of its tasks, which is queued.
Start(th, c, t) ==
    /\ Runs(th, c) /\ pc[c] = "body"
    /\ c \notin cancelled
    /\ Creator[t] = c /\ status[t] = "absent"
    /\ status' = [status EXCEPT ![t] = "pending"]
    /\ queue' = Append(queue, t)
    /\ UNCHANGED <<slot, cancelled, awaited, edges, receiver, stack, pc,
                   ticket, outcome, tried>>

\* Seeded fault: claim_await succeeds for every caller.
BeginUnclaimed(th, c, t) ==
    /\ Runs(th, c) /\ pc[c] = "body"
    /\ t \in MayAwait[c] \ tried[c] /\ status[t] # "absent"
    /\ tried' = [tried EXCEPT ![c] = @ \cup {t}]
    /\ awaited' = awaited \cup {t}
    /\ IF c \in cancelled \/ c = t
       THEN UNCHANGED <<pc, ticket>>
       ELSE /\ ticket' = [ticket EXCEPT ![c] = t]
            /\ pc' = [pc EXCEPT ![c] = IF c = Root THEN "poll" ELSE "register"]
    /\ UNCHANGED <<status, slot, cancelled, edges, queue, receiver, stack,
                   outcome>>

\* AwaitCore::admit up to register_wait: a cancelled caller may not await, a
\* task is awaited once, and no task awaits itself; these awaits return their
\* error at once.  Root registers no wait.
Begin(th, c, t) ==
    /\ Runs(th, c) /\ pc[c] = "body"
    /\ t \in MayAwait[c] \ tried[c] /\ status[t] # "absent"
    /\ tried' = [tried EXCEPT ![c] = @ \cup {t}]
    /\ awaited' = IF c \in cancelled THEN awaited ELSE awaited \cup {t}
    /\ IF c \in cancelled \/ t \in awaited \/ c = t
       THEN UNCHANGED <<pc, ticket>>
       ELSE /\ ticket' = [ticket EXCEPT ![c] = t]
            /\ pc' = [pc EXCEPT ![c] = IF c = Root THEN "poll" ELSE "register"]
    /\ UNCHANGED <<status, slot, cancelled, edges, queue, receiver, stack,
                   outcome>>

\* The cursor of register_wait after n edges of e, from t; NoTask past the end.
Follow(e, t, n) ==
    LET cursor[k \in 0..n] ==
          IF k = 0 THEN t
          ELSE IF cursor[k - 1] = NoTask THEN NoTask ELSE e[cursor[k - 1]]
    IN  cursor[n]

\* Seeded fault: a chain longer than the limit is admitted unseen.
VerdictUnbounded(c, e) ==
    IF \E n \in 0..MAX_AWAIT_DEPTH - 1 : Follow(e, e[c], n) = c
    THEN "await_cycle" ELSE "none"

\* register_wait walks at most MAX_AWAIT_DEPTH edges of the graph e, to which
\* the edge of c has been added.
Verdict(c, e) ==
    IF \E n \in 0..MAX_AWAIT_DEPTH - 1 : Follow(e, e[c], n) = c
    THEN "await_cycle"
    ELSE IF Follow(e, e[c], MAX_AWAIT_DEPTH) = NoTask THEN "none"
    ELSE "await_depth"

\* register_wait, one critical section of wait_edges: a rejected edge is
\* removed again before the lock is released.
Register(th, c) ==
    /\ Runs(th, c) /\ pc[c] = "register"
    /\ LET added == [edges EXCEPT ![c] = ticket[c]]
           code  == Verdict(c, added)
       IN  IF code = "none"
           THEN /\ edges' = added
                /\ pc' = [pc EXCEPT ![c] = "poll"]
                /\ UNCHANGED ticket
           ELSE /\ edges' = edges
                /\ pc' = [pc EXCEPT ![c] = "body"]
                /\ ticket' = [ticket EXCEPT ![c] = NoTask]
    /\ UNCHANGED <<status, slot, cancelled, awaited, queue, receiver, stack,
                   outcome, tried>>

\* request_cancel_with: a pending body is taken and completes as cancelled, a
\* running one learns of it at its next check.  (TaskLifecycle has the steps
\* between the two; the node of a cancelled job stays queued.)
RequestCancel(t) ==
    IF t \notin cancelled /\ status[t] \in {"pending", "running"}
    THEN /\ cancelled' = cancelled \cup {t}
         /\ IF status[t] = "pending"
            THEN /\ status' = [status EXCEPT ![t] = "terminal"]
                 /\ slot' = slot \cup {t}
            ELSE UNCHANGED <<status, slot>>
    ELSE UNCHANGED <<cancelled, status, slot>>

\* The await is Ready: the outcome is installed, then the wait is retired.
Settle(c, code) ==
    /\ outcome' = [outcome EXCEPT ![c] = code]
    /\ pc' = [pc EXCEPT ![c] = "settle"]

\* AwaitCore::poll: the caller's own cancellation first, passed on to the
\* target; then the result and the terminal status under one lock.
Poll(th, c) ==
    /\ Runs(th, c) /\ pc[c] = "poll"
    /\ LET t == ticket[c] IN
       \/ /\ c \in cancelled
          /\ RequestCancel(t)
          /\ Settle(c, "terminated")
       \/ /\ c \notin cancelled
          /\ t \in slot
          /\ slot' = slot \ {t}
          /\ Settle(c, "value")
          /\ UNCHANGED <<status, cancelled>>
       \/ /\ c \notin cancelled
          /\ t \notin slot
          /\ IF status[t] = "terminal" THEN Settle(c, "consumed")
             ELSE IF HelpDepth(th) >= MAX_AWAIT_DEPTH THEN Settle(c, "await_depth")
             ELSE pc' = [pc EXCEPT ![c] = "help"] /\ UNCHANGED outcome
          /\ UNCHANGED <<status, slot, cancelled>>
    /\ UNCHANGED <<awaited, edges, queue, receiver, stack, ticket, tried>>

\* take_help and help_one: an idle worker inside recv keeps the receiver lock
\* and will take the job itself; otherwise the first queued job is taken.
TakeHelp == receiver = NoThread /\ queue # <<>>

\* Seeded fault: a waiting frame never helps.
HelpNever(th, c) ==
    /\ Runs(th, c) /\ pc[c] = "help"
    /\ pc' = [pc EXCEPT ![c] = "poll"]
    /\ UNCHANGED <<status, slot, cancelled, awaited, edges, queue, receiver,
                   stack, ticket, outcome, tried>>

\* One round of a pending await: reserve a frame, then try the receiver lock
\* and the queue; with neither, wait at most 2 ms.  The caller polls again.
Help(th, c) ==
    /\ Runs(th, c) /\ pc[c] = "help"
    /\ IF ~CanReserve(th)
       THEN Settle(c, "storage") /\ UNCHANGED <<queue, status, stack>>
       ELSE IF TakeHelp
       THEN /\ queue' = Tail(queue)
            /\ PushFrame(th, Head(queue), [pc EXCEPT ![c] = "poll"])
            /\ UNCHANGED outcome
       ELSE /\ pc' = [pc EXCEPT ![c] = "poll"]
            /\ UNCHANGED <<queue, status, stack, outcome>>
    /\ UNCHANGED <<slot, cancelled, awaited, edges, receiver, ticket, tried>>

\* Drop of TaskWaitGuard: the edge of the caller leaves the wait graph, and
\* the caller goes on with its outcome.
RetireWait(th, c) ==
    /\ Runs(th, c) /\ pc[c] = "settle"
    /\ edges' = IF c = Root THEN edges ELSE [edges EXCEPT ![c] = NoTask]
    /\ pc' = [pc EXCEPT ![c] = "body"]
    /\ ticket' = [ticket EXCEPT ![c] = NoTask]
    /\ outcome' = [outcome EXCEPT ![c] = "none"]
    /\ UNCHANGED <<status, slot, cancelled, awaited, queue, receiver, stack,
                   tried>>

\* Stage::Complete: the body has returned and its result is published.
Complete(th, t) ==
    /\ Runs(th, t) /\ t # Root /\ pc[t] = "body"
    /\ status' = [status EXCEPT ![t] = "terminal"]
    /\ slot' = slot \cup {t}
    /\ pc' = [pc EXCEPT ![t] = "retire"]
    /\ UNCHANGED <<cancelled, awaited, edges, queue, receiver, stack, ticket,
                   outcome, tried>>

\* Stage::Retire: the frame is popped and the frame below runs again.
Retire(th, t) ==
    /\ Runs(th, t) /\ pc[t] = "retire"
    /\ stack' = [stack EXCEPT ![th] = Front(@)]
    /\ pc' = [pc EXCEPT ![t] = "end"]
    /\ UNCHANGED <<status, slot, cancelled, awaited, edges, queue, receiver,
                   ticket, outcome, tried>>

\* The caller outside any task goes on with work of its own.
RootEnds ==
    /\ pc[Root] = "body" /\ Runs(Root, Root)
    /\ pc' = [pc EXCEPT ![Root] = "end"]
    /\ UNCHANGED <<status, slot, cancelled, awaited, edges, queue, receiver,
                   stack, ticket, outcome, tried>>

\* An owner somewhere cancels t: a scope exit, a timeout, a shutdown.
Cancel(t) ==
    /\ t \in Cancellable \ cancelled
    /\ status[t] \in {"pending", "running"}
    /\ RequestCancel(t)
    /\ UNCHANGED <<awaited, edges, queue, receiver, stack, pc, ticket, outcome,
                   tried>>

-----------------------------------------------------------------------------
\* What thread th does next.
Step(th) ==
    \/ th \in Worker /\ (WorkerListen(th) \/ WorkerReceive(th))
    \/ \E c \in Caller :
         \/ \E t \in Task : Start(th, c, t) \/ Begin(th, c, t)
         \/ Register(th, c)
         \/ Poll(th, c)
         \/ Help(th, c)
         \/ RetireWait(th, c)
    \/ \E t \in Task : Complete(th, t) \/ Retire(th, t)
    \/ th = Root /\ RootEnds

Next == (\E th \in Thread : Step(th)) \/ (\E t \in Task : Cancel(t))

\* Every thread keeps running: the operating system schedules it, bodies
\* return and the waits inside a step are bounded.
\* Nobody is obliged to cancel.
Spec == Init /\ [][Next]_vars /\ \A th \in Thread : WF_vars(Step(th))

-----------------------------------------------------------------------------
(* Properties *)

\* Every set of waiting tasks has one that waits outside the set: the wait
\* graph never has a cycle, whichever threads add and clear edges; and a task
\* that is over is no longer a waiter, so a later register_wait never walks
\* through it. (register_wait and TaskWaitGuard, task.rs)
WaitGraphSound ==
    /\ TypeOK
    /\ \A S \in SUBSET Task : S # {} => \E t \in S : edges[t] \notin S
    /\ \A t \in Task : status[t] = "terminal" => edges[t] = NoTask

\* An await that was admitted gets the result of its target: nobody else took
\* it, whoever else tried to await the same task; and the depth check of poll
\* comes before a frame is wanted, so no await fails for want of one.
\* (claim_await, task.rs; reserve_next, local_driver.rs)
AdmittedGetsResult == \A c \in Caller : outcome[c] \notin {"consumed", "storage"}

\* A buried frame is one that waits, and a task has at most one frame.
\* (claim_run, task.rs; the push in execute, local_driver.rs)
BuriedFramesWait ==
    \A th \in Thread : \A i \in 1..Len(stack[th]) :
        /\ i < Len(stack[th]) => pc[stack[th][i]] = "poll"
        /\ \A th2 \in Thread : \A j \in 1..Len(stack[th2]) :
              stack[th][i] = stack[th2][j] => th = th2 /\ i = j

\* The wait graph and the threads' stacks are sound together: what a thread has
\* buried is what the graph may make others wait for.
WaitsSound == WaitGraphSound /\ BuriedFramesWait

\* As long as callers await only the tasks they started, an await that has
\* registered its wait ends, although a thread that helps buries the frames
\* of others. (drive_sync, await_ticket.rs; execute, local_driver.rs)
OwnTasksOnly == \A c \in Caller : ticket[c] # NoTask => Creator[ticket[c]] = c
AwaitEnds ==
    []OwnTasksOnly => \A c \in Caller : (pc[c] = "poll") ~> (pc[c] = "body")

=============================================================================
