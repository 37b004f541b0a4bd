---------------------------- MODULE BlockingPool ----------------------------
(***************************************************************************)
(* The blocking pool of src/src/runtime/task.rs: run_blocking on the       *)
(* caller's thread, the pool's workers, the retirement guard every job     *)
(* carries, and the part of cancel_all_and_wait that waits for the pool.   *)
(*                                                                         *)
(* A step is one atomic read-modify-write, one critical section of the     *)
(* admission lock (the task registry's) or of the channel, or one run of   *)
(* user code.  The order of the counters' updates is the point here: a job *)
(* passes from its caller to a worker while the shutdown reads the         *)
(* counters one after the other.                                           *)
(***************************************************************************)
EXTENDS Integers, Sequences, FiniteSets

CONSTANTS
    Job,            \* calls of run_blocking, one job each
    Worker,
    Task,
    NoJob,
    NoTask,
    QueueLimit      \* blocking_queue_limit

ASSUME PoolAssumption ==
    /\ NoJob \notin Job /\ NoTask \notin Task
    /\ QueueLimit \in Nat \ {0}

CallLabels == {"new", "check", "lock", "pend", "reside", "reserve", "send",
               "count", "accepted", "refused", "release", "wait", "help",
               "credit", "drop", "retire", "reject", "leave", "freed", "done"}

\* Where the retirement guard of a job is: its drop has three updates.
GuardLabels == {"none", "live", "finish", "resident", "pending", "gone"}

WorkerLabels == {"recv", "claim", "dequeue", "start", "body", "send", "idle",
                 "retire"}

ShutdownLabels == {"open", "gate", "cancel", "producers", "queued", "running",
                   "resident", "ok", "timeout"}

Counters == [queued : Nat, running : Nat, resident : Nat,
             accepted : Nat, rejected : Nat, finished : Nat]

VARIABLES
    parent,      \* the task that calls run_blocking, NoTask outside a task
    call,        \* the call of run_blocking that submits a job
    guard,       \* BlockingRetirement of a job
    marked,      \* jobs whose guard says accepted
    capture,     \* jobs whose callback and captures exist
    response,    \* the response channel of a job
    worker,      \* a worker's label and job
    channel,     \* the bounded channel
    lock,        \* the job whose call holds the admission lock
    producers,   \* calls counted by blocking_producer_gate
    gateClosed,  \* the closed bit of blocking_producer_gate
    closing,     \* TaskRuntimeInner::closing
    n,           \* the counters of the pool
    pendingBlocking,   \* TaskState::pending_blocking
    cancelled,   \* cancelled parents
    shut         \* cancel_all_and_wait

vars == <<parent, call, guard, marked, capture, response, worker, channel,
          lock, producers, gateClosed, closing, n, pendingBlocking, cancelled,
          shut>>

\* The counters are naturals: none is ever decremented below zero.
TypeOK ==
    /\ parent \in [Job -> Task \cup {NoTask}]
    /\ call \in [Job -> CallLabels]
    /\ guard \in [Job -> GuardLabels]
    /\ marked \subseteq Job /\ capture \subseteq Job /\ producers \subseteq Job
    /\ response \in [Job -> {"open", "sent", "closed"}]
    /\ worker \in [Worker -> [at : WorkerLabels, job : Job \cup {NoJob}]]
    /\ channel \in Seq(Job) /\ Len(channel) <= QueueLimit
    /\ lock \in Job \cup {NoJob}
    /\ gateClosed \in BOOLEAN /\ closing \in BOOLEAN
    /\ n \in Counters
    /\ pendingBlocking \in [Task -> Nat]
    /\ cancelled \subseteq Task
    /\ shut \in ShutdownLabels

Init ==
    /\ parent \in [Job -> Task \cup {NoTask}]
    /\ call = [j \in Job |-> "new"]
    /\ guard = [j \in Job |-> "none"]
    /\ marked = {} /\ capture = {} /\ producers = {}
    /\ response = [j \in Job |-> "open"]
    /\ worker = [w \in Worker |-> [at |-> "recv", job |-> NoJob]]
    /\ channel = <<>>
    /\ lock = NoJob
    /\ gateClosed = FALSE /\ closing = FALSE
    /\ n = [queued |-> 0, running |-> 0, resident |-> 0,
            accepted |-> 0, rejected |-> 0, finished |-> 0]
    /\ pendingBlocking = [t \in Task |-> 0]
    /\ cancelled = {}
    /\ shut = "open"

ParentCancelled(j) == parent[j] \in cancelled

\* The call of j moves from one label to another.
Goes(j, from, to) == call[j] = from /\ call' = [call EXCEPT ![j] = to]

\* pending_blocking of j's parent changes by d, if it has one.
Pending(j, d) ==
    pendingBlocking' = IF parent[j] = NoTask THEN pendingBlocking
                       ELSE [pendingBlocking EXCEPT ![parent[j]] = @ + d]

-----------------------------------------------------------------------------
(* run_blocking *)

\* ProducerAdmission::begin counts the call unless the gate is closed; a
\* caller that is being cancelled is then denied.
Enter(j) ==
    /\ Goes(j, "new", IF ParentCancelled(j) THEN "leave"
                      ELSE IF gateClosed THEN "reject" ELSE "check")
    /\ capture' = capture \cup {j}
    /\ producers' = IF gateClosed THEN producers ELSE producers \cup {j}
    /\ UNCHANGED <<parent, guard, marked, response, worker, channel, lock,
                   gateClosed, closing, n, pendingBlocking, cancelled, shut>>

\* closing is read without the lock first.
Check(j) ==
    /\ Goes(j, "check", IF closing THEN "reject" ELSE "lock")
    /\ UNCHANGED <<parent, guard, marked, capture, response, worker, channel,
                   lock, producers, gateClosed, closing, n, pendingBlocking,
                   cancelled, shut>>

\* The admission lock is taken and closing read again under it.
Lock(j) ==
    /\ lock = NoJob
    /\ Goes(j, "lock", IF closing THEN "reject" ELSE "pend")
    /\ lock' = IF closing THEN NoJob ELSE j
    /\ UNCHANGED <<parent, guard, marked, capture, response, worker, channel,
                   producers, gateClosed, closing, n, pendingBlocking,
                   cancelled, shut>>

\* BlockingRetirement::new: the parent's obligation first, then resident.
NewGuard(j) ==
    /\ \/ /\ Goes(j, "pend", "reside")
          /\ Pending(j, 1)
          /\ UNCHANGED <<n, guard>>
       \/ /\ Goes(j, "reside", "reserve")
          /\ n' = [n EXCEPT !.resident = @ + 1]
          /\ guard' = [guard EXCEPT ![j] = "live"]
          /\ UNCHANGED pendingBlocking
    /\ UNCHANGED <<parent, marked, capture, response, worker, channel, lock,
                   producers, gateClosed, closing, cancelled, shut>>

\* The queue counter and the mark of the guard, both before try_send.
Reserve(j) ==
    /\ Goes(j, "reserve", "send")
    /\ n' = [n EXCEPT !.queued = @ + 1]
    /\ marked' = marked \cup {j}
    /\ UNCHANGED <<parent, guard, capture, response, worker, channel, lock,
                   producers, gateClosed, closing, pendingBlocking,
                   cancelled, shut>>

\* try_send: from here on a worker may have the job.  A full channel gives the
\* job back and its guard is unmarked.  The receiver lives as long as the
\* runtime, so the channel is never disconnected.
Send(j) ==
    /\ call[j] = "send"
    /\ IF Len(channel) < QueueLimit
       THEN /\ channel' = Append(channel, j)
            /\ call' = [call EXCEPT ![j] = "count"]
            /\ UNCHANGED <<marked, n>>
       ELSE /\ marked' = marked \ {j}
            /\ n' = [n EXCEPT !.rejected = @ + 1]
            /\ call' = [call EXCEPT ![j] = "refused"]
            /\ UNCHANGED channel
    /\ UNCHANGED <<parent, guard, capture, response, worker, lock, producers,
                   gateClosed, closing, pendingBlocking, cancelled, shut>>

\* The job may be over before its acceptance is counted.
CountAccepted(j) ==
    /\ Goes(j, "count", "accepted")
    /\ n' = [n EXCEPT !.accepted = @ + 1]
    /\ UNCHANGED <<parent, guard, marked, capture, response, worker, channel,
                   lock, producers, gateClosed, closing, pendingBlocking,
                   cancelled, shut>>

\* drop(admission), before a rejected job is destroyed.
Unlock(j) ==
    /\ Goes(j, "accepted", "release") \/ Goes(j, "refused", "credit")
    /\ lock' = NoJob
    /\ UNCHANGED <<parent, guard, marked, capture, response, worker, channel,
                   producers, gateClosed, closing, n, pendingBlocking,
                   cancelled, shut>>

\* An accepted call ends its producer's responsibility before it waits.
Release(j) ==
    /\ Goes(j, "release", "wait")
    /\ producers' = producers \ {j}
    /\ UNCHANGED <<parent, guard, marked, capture, response, worker, channel,
                   lock, gateClosed, closing, n, pendingBlocking, cancelled,
                   shut>>

\* Seeded fault: the caller waits for the response alone.
ReturnUninterrupted(j) ==
    /\ response[j] = "sent"
    /\ Goes(j, "wait", "done")
    /\ response' = [response EXCEPT ![j] = "closed"]
    /\ UNCHANGED <<parent, guard, marked, capture, worker, channel, lock,
                   producers, gateClosed, closing, n, pendingBlocking,
                   cancelled, shut>>

\* The caller leaves with the response, or when its task is cancelled; the
\* receiver dies with the call.
Return(j) ==
    /\ ParentCancelled(j) \/ response[j] = "sent"
    /\ Goes(j, "wait", "done")
    /\ response' = [response EXCEPT ![j] = "closed"]
    /\ UNCHANGED <<parent, guard, marked, capture, worker, channel, lock,
                   producers, gateClosed, closing, n, pendingBlocking,
                   cancelled, shut>>

\* help_one_bounded: without a cancellation and without a response, the caller
\* may find a queued task and run its body on its own stack, where neither is
\* looked at until that body is back.
Help(j) ==
    /\ ~ParentCancelled(j) /\ response[j] # "sent"
    /\ Goes(j, "wait", "help")
    /\ UNCHANGED <<parent, guard, marked, capture, response, worker, channel,
                   lock, producers, gateClosed, closing, n, pendingBlocking,
                   cancelled, shut>>

\* The body of the other task ends, if it ever does.
HelpedReturns(j) ==
    /\ Goes(j, "help", "wait")
    /\ UNCHANGED <<parent, guard, marked, capture, response, worker, channel,
                   lock, producers, gateClosed, closing, n, pendingBlocking,
                   cancelled, shut>>

\* The credit of a rejected job goes back before the job is destroyed.
Credit(j) ==
    /\ Goes(j, "credit", "drop")
    /\ n' = [n EXCEPT !.queued = @ - 1]
    /\ UNCHANGED <<parent, guard, marked, capture, response, worker, channel,
                   lock, producers, gateClosed, closing, pendingBlocking,
                   cancelled, shut>>

\* Seeded fault: the guard of a rejected job is dropped before its callback.
DropRejectedGuardFirst(j) ==
    /\ \/ /\ Goes(j, "drop", "retire")
          /\ guard' = [guard EXCEPT ![j] = "finish"]
          /\ UNCHANGED capture
       \/ /\ guard[j] = "gone"
          /\ Goes(j, "retire", "leave")
          /\ UNCHANGED <<capture, guard>>
    /\ UNCHANGED <<parent, marked, response, worker, channel, lock,
                   producers, gateClosed, closing, n, pendingBlocking,
                   cancelled, shut>>

\* drop(job) of a rejected job, field by field: the callback and its captures,
\* then the guard, whose updates are DropGuard's.
DropRejected(j) ==
    /\ \/ /\ Goes(j, "drop", "retire")
          /\ capture' = capture \ {j}
          /\ guard' = [guard EXCEPT ![j] = "finish"]
       \/ /\ guard[j] = "gone"
          /\ Goes(j, "retire", "leave")
          /\ UNCHANGED <<capture, guard>>
    /\ UNCHANGED <<parent, marked, response, worker, channel, lock,
                   producers, gateClosed, closing, n, pendingBlocking,
                   cancelled, shut>>

\* A call that never made a job counts its rejection.
Reject(j) ==
    /\ Goes(j, "reject", "leave")
    /\ n' = [n EXCEPT !.rejected = @ + 1]
    /\ UNCHANGED <<parent, guard, marked, capture, response, worker, channel,
                   lock, producers, gateClosed, closing, pendingBlocking,
                   cancelled, shut>>

\* The end of a call without a response: what is left of the callback is
\* destroyed, and only then the producer's responsibility ends.
Leave(j) ==
    /\ \/ /\ Goes(j, "leave", "freed")
          /\ capture' = capture \ {j}
          /\ UNCHANGED producers
       \/ /\ Goes(j, "freed", "done")
          /\ producers' = producers \ {j}
          /\ UNCHANGED capture
    /\ UNCHANGED <<parent, guard, marked, response, worker, channel, lock,
                   gateClosed, closing, n, pendingBlocking, cancelled, shut>>

-----------------------------------------------------------------------------
(* The guard of a job, dropped by whoever owns the job *)

\* Drop of BlockingRetirement: finished if the job was accepted, resident,
\* and last the parent's obligation.
DropGuard(j) ==
    /\ \/ /\ guard[j] = "finish"
          /\ guard' = [guard EXCEPT ![j] = "resident"]
          /\ n' = [n EXCEPT !.finished = IF j \in marked THEN @ + 1 ELSE @]
          /\ UNCHANGED pendingBlocking
       \/ /\ guard[j] = "resident"
          /\ guard' = [guard EXCEPT ![j] = "pending"]
          /\ n' = [n EXCEPT !.resident = @ - 1]
          /\ UNCHANGED pendingBlocking
       \/ /\ guard[j] = "pending"
          /\ guard' = [guard EXCEPT ![j] = "gone"]
          /\ Pending(j, -1)
          /\ UNCHANGED n
    /\ UNCHANGED <<parent, call, marked, capture, response, worker, channel,
                   lock, producers, gateClosed, closing, cancelled, shut>>

-----------------------------------------------------------------------------
(* blocking_worker_loop *)

\* The worker w moves from one label to another with the same job.
WorkerGoes(w, from, to) ==
    worker[w].at = from /\ worker' = [worker EXCEPT ![w].at = to]

Receive(w) ==
    /\ worker[w].at = "recv" /\ channel # <<>>
    /\ worker' = [worker EXCEPT ![w] = [at |-> "claim", job |-> Head(channel)]]
    /\ channel' = Tail(channel)
    /\ UNCHANGED <<parent, call, guard, marked, capture, response, lock,
                   producers, gateClosed, closing, n, pendingBlocking,
                   cancelled, shut>>

\* Seeded fault: a turn ends without the drop of its job.
CountTurnLeaks(w) ==
    /\ \/ /\ WorkerGoes(w, "claim", "dequeue")
          /\ n' = [n EXCEPT !.running = @ + 1]
       \/ /\ WorkerGoes(w, "dequeue", "start")
          /\ n' = [n EXCEPT !.queued = @ - 1]
       \/ /\ WorkerGoes(w, "idle", "recv")
          /\ n' = [n EXCEPT !.running = @ - 1]
    /\ UNCHANGED <<parent, call, guard, marked, capture, response, channel,
                   lock, producers, gateClosed, closing, pendingBlocking,
                   cancelled, shut>>

\* running is published before the queue is decremented, and withdrawn at the
\* end of the turn, before the guard is dropped.
CountTurn(w) ==
    /\ \/ /\ WorkerGoes(w, "claim", "dequeue")
          /\ n' = [n EXCEPT !.running = @ + 1]
          /\ UNCHANGED guard
       \/ /\ WorkerGoes(w, "dequeue", "start")
          /\ n' = [n EXCEPT !.queued = @ - 1]
          /\ UNCHANGED guard
       \/ /\ WorkerGoes(w, "idle", "retire")
          /\ n' = [n EXCEPT !.running = @ - 1]
          /\ guard' = [guard EXCEPT ![worker[w].job] = "finish"]
    /\ UNCHANGED <<parent, call, marked, capture, response, channel, lock,
                   producers, gateClosed, closing, pendingBlocking,
                   cancelled, shut>>

\* A job whose parent is cancelled by now is destroyed unexecuted.
Execute(w) ==
    /\ LET j == worker[w].job IN
       \/ /\ WorkerGoes(w, "start", "body")
          /\ ~ParentCancelled(j)
          /\ UNCHANGED capture
       \/ /\ WorkerGoes(w, "start", "send")
          /\ ParentCancelled(j)
          /\ capture' = capture \ {j}
    /\ UNCHANGED <<parent, call, guard, marked, response, channel, lock,
                   producers, gateClosed, closing, n, pendingBlocking,
                   cancelled, shut>>

\* The callback, which cannot be interrupted, returns or panics.
OperationReturns(w) ==
    /\ WorkerGoes(w, "body", "send")
    /\ capture' = capture \ {worker[w].job}
    /\ UNCHANGED <<parent, call, guard, marked, response, channel, lock,
                   producers, gateClosed, closing, n, pendingBlocking,
                   cancelled, shut>>

\* send_blocking_result: the result is sent, or destroyed when the caller has
\* already left.
Respond(w) ==
    /\ WorkerGoes(w, "send", "idle")
    /\ response' = [response EXCEPT ![worker[w].job] =
                      IF @ = "open" THEN "sent" ELSE @]
    /\ UNCHANGED <<parent, call, guard, marked, capture, channel, lock,
                   producers, gateClosed, closing, n, pendingBlocking,
                   cancelled, shut>>

\* The next turn begins when the job is gone.
EndTurn(w) ==
    /\ worker[w].at = "retire" /\ guard[worker[w].job] = "gone"
    /\ worker' = [worker EXCEPT ![w] = [at |-> "recv", job |-> NoJob]]
    /\ UNCHANGED <<parent, call, guard, marked, capture, response, channel,
                   lock, producers, gateClosed, closing, n, pendingBlocking,
                   cancelled, shut>>

-----------------------------------------------------------------------------
(* cancel_all_and_wait and other cancellations *)

\* closing, then the gate, then the registry snapshot (under the admission
\* lock) whose tasks are cancelled.
Close ==
    /\ \/ /\ shut = "open" /\ shut' = "gate"
          /\ closing' = TRUE
          /\ UNCHANGED <<gateClosed, cancelled>>
       \/ /\ shut = "gate" /\ shut' = "cancel"
          /\ gateClosed' = TRUE
          /\ UNCHANGED <<closing, cancelled>>
       \/ /\ shut = "cancel" /\ shut' = "producers"
          /\ lock = NoJob
          /\ cancelled' = Task
          /\ UNCHANGED <<closing, gateClosed>>
    /\ UNCHANGED <<parent, call, guard, marked, capture, response, worker,
                   channel, lock, producers, n, pendingBlocking>>

\* Seeded fault: the loop trusts the queue and the running jobs.
AfterReadNoResident(s) ==
    CASE s = "producers" -> IF producers = {} THEN "queued" ELSE "producers"
      [] s = "queued"    -> IF n.queued = 0 THEN "running" ELSE "producers"
      [] s = "running"   -> IF n.running = 0 THEN "ok" ELSE "producers"
      [] s = "resident"  -> "ok"

\* The loop reads the counters in this order; one that is not zero means
\* another round.
AfterRead(s) ==
    CASE s = "producers" -> IF producers = {} THEN "queued" ELSE "producers"
      [] s = "queued"    -> IF n.queued = 0 THEN "running" ELSE "producers"
      [] s = "running"   -> IF n.running = 0 THEN "resident" ELSE "producers"
      [] s = "resident"  -> IF n.resident = 0 THEN "ok" ELSE "producers"

PollCounters ==
    /\ shut \in {"producers", "queued", "running", "resident"}
    /\ shut' = AfterRead(shut)
    /\ UNCHANGED <<parent, call, guard, marked, capture, response, worker,
                   channel, lock, producers, gateClosed, closing, n,
                   pendingBlocking, cancelled>>

\* The deadline passes at the end of a round.
ShutdownTimeout ==
    /\ shut \in {"producers", "queued", "running", "resident"}
    /\ shut' = "timeout"
    /\ UNCHANGED <<parent, call, guard, marked, capture, response, worker,
                   channel, lock, producers, gateClosed, closing, n,
                   pendingBlocking, cancelled>>

\* Somebody cancels the calling task.
CancelParent(t) ==
    /\ t \notin cancelled
    /\ cancelled' = cancelled \cup {t}
    /\ UNCHANGED <<parent, call, guard, marked, capture, response, worker,
                   channel, lock, producers, gateClosed, closing, n,
                   pendingBlocking, shut>>

-----------------------------------------------------------------------------
CallStep(j) ==
    \/ Check(j) \/ Lock(j) \/ NewGuard(j) \/ Reserve(j) \/ Send(j)
    \/ CountAccepted(j) \/ Unlock(j) \/ Release(j)
    \/ Return(j) \/ Credit(j) \/ DropRejected(j) \/ Reject(j) \/ Leave(j)

WorkerStep(w) ==
    Receive(w) \/ CountTurn(w) \/ Execute(w) \/ Respond(w) \/ EndTurn(w)

Next ==
    \/ \E j \in Job : \/ Enter(j) \/ CallStep(j) \/ DropGuard(j)
                     \/ Help(j) \/ HelpedReturns(j)
    \/ \E w \in Worker : WorkerStep(w) \/ OperationReturns(w)
    \/ Close \/ PollCounters \/ ShutdownTimeout
    \/ \E t \in Task : CancelParent(t)

\* Threads keep running; an operation may hang, and so may the body a waiting
\* caller helps.  Whether run_blocking is called, a task cancelled or the runtime
\* shut down is up to the program.  The admission lock is free again and again,
\* and a mutex serves its waiters.
Spec ==
    /\ Init /\ [][Next]_vars
    /\ \A j \in Job : WF_vars(CallStep(j)) /\ SF_vars(Lock(j)) /\ WF_vars(DropGuard(j))
    /\ \A w \in Worker : WF_vars(WorkerStep(w))

-----------------------------------------------------------------------------
(* Properties *)

\* A successful shutdown leaves no callback of a call it counted (the ones
\* still there belong to calls that found the gate closed) and every accepted
\* job is finished. (cancel_all_and_wait)
ShutdownDrained ==
    shut = "ok" =>
        /\ \A j \in capture : guard[j] = "none" /\ j \notin producers
        /\ n.accepted = n.finished

\* A parent without blocking obligations has no callback left in the pool (its
\* retirement witness reads pending_blocking), and between submissions, with
\* no resident job, the totals agree: a job that was over before its caller
\* counted it is not lost; no counter goes below zero. (BlockingRetirement, run_blocking)
ObligationsCounted ==
    /\ TypeOK
    /\ \A j \in capture :
         guard[j] # "none" /\ parent[j] # NoTask => pendingBlocking[parent[j]] > 0
    /\ producers = {} /\ n.resident = 0 => n.accepted = n.finished

\* A call whose task is cancelled returns, even if its operation hangs in the
\* pool, provided the bodies it helped on its own stack are over: a cancellation
\* does not reach through a helped body. (the wait loop of run_blocking)
CancelledCallReturns ==
    (\A j \in Job : WF_vars(HelpedReturns(j))) =>
        \A j \in Job :
            (ParentCancelled(j) /\ call[j] # "new") ~> (call[j] = "done")

\* If operations return, every job leaves the pool, whoever owns it at the end.
\* (blocking_worker_loop, Drop for BlockingRetirement)
JobsRetire ==
    (\A w \in Worker : WF_vars(OperationReturns(w))) =>
        \A j \in Job : (guard[j] = "live") ~> (guard[j] = "gone")

=============================================================================
