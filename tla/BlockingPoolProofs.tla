-------------------------- MODULE BlockingPoolProofs --------------------------
(***************************************************************************)
(* Safety of the blocking pool for every number of calls, workers, tasks   *)
(* and every queue limit.  The argument says of every counter which jobs   *)
(* (or workers) it counts at each moment of the hand-over from a caller to *)
(* a worker, so that no decrement meets a zero and a zero means nobody is  *)
(* left.                                                                   *)
(***************************************************************************)
EXTENDS BlockingPool, FiniteSetTheorems, TLAPS

Held(j) == \E w \in Worker : worker[w].job = j
InChannel(j) == \E i \in 1..Len(channel) : channel[i] = j

\* try_send has succeeded for the job.
Sent(j) == j \in marked /\ call[j] # "send"

\* What the label of a call says of its job.
CallInv ==
    \A j \in Job :
      /\ call[j] \in {"new", "check", "lock", "pend", "reside", "reject"} =>
           guard[j] = "none" /\ j \notin marked
      /\ call[j] \in {"reserve", "refused", "credit", "drop"} =>
           guard[j] = "live" /\ j \notin marked
      /\ call[j] = "send" => guard[j] = "live" /\ j \in marked
      /\ call[j] = "retire" =>
           guard[j] \in {"finish", "resident", "pending", "gone"} /\ j \notin marked
      /\ call[j] \in {"leave", "freed"} => guard[j] \in {"none", "gone"} /\ j \notin marked
      /\ call[j] \in {"count", "accepted", "release", "wait", "help"} => j \in marked
      /\ call[j] = "done" => j \in marked \/ guard[j] \in {"none", "gone"}
      /\ j \in marked => guard[j] # "none"

\* A call that may still add to the pool is a producer, and a callback exists
\* only before its guard is dropped.
OwnerInv ==
    \A j \in Job :
      /\ call[j] \in {"check", "lock", "pend", "reside", "reserve", "send", "count",
                      "accepted", "refused", "release", "credit", "drop", "retire"}
         => j \in producers
      /\ j \in capture => guard[j] \in {"none", "live"}

\* A job that was sent is in one place.
PlaceInv ==
    /\ \A i, k \in 1..Len(channel) : channel[i] = channel[k] => i = k
    /\ \A i \in 1..Len(channel) : Sent(channel[i]) /\ guard[channel[i]] = "live"
    /\ \A w \in Worker : worker[w].at = "recv" <=> worker[w].job = NoJob
    /\ \A v, w \in Worker : worker[v].job = worker[w].job /\ worker[w].job # NoJob => v = w
    /\ \A w \in Worker : worker[w].job # NoJob =>
         /\ Sent(worker[w].job) /\ ~InChannel(worker[w].job)
         /\ worker[w].at # "retire" => guard[worker[w].job] = "live"
         /\ worker[w].at = "retire" =>
              guard[worker[w].job] \in {"finish", "resident", "pending", "gone"}
         /\ worker[w].at \in {"send", "idle", "retire"} => worker[w].job \notin capture

\* Whom the counters count.
Queued == {j \in Job : \/ call[j] \in {"send", "refused", "credit"} \/ InChannel(j)
                       \/ \E w \in Worker : /\ worker[w].job = j
                                            /\ worker[w].at \in {"claim", "dequeue"}}
Running == {w \in Worker : worker[w].at \in {"dequeue", "start", "body", "send", "idle"}}
Resident == {j \in Job : guard[j] \in {"live", "finish", "resident"}}
Accepted == {j \in marked :
                call[j] \in {"accepted", "release", "wait", "help", "done"}}
Finished == {j \in marked : guard[j] \in {"resident", "pending", "gone"}}
Owing(t) == {j \in Job : /\ parent[j] = t
                         /\ \/ call[j] = "reside"
                            \/ guard[j] \in {"live", "finish", "resident", "pending"}}

Counts(S, k) == IsFiniteSet(S) /\ k = Cardinality(S)

CountInv ==
    /\ Counts(Queued, n.queued) /\ Counts(Running, n.running)
    /\ Counts(Resident, n.resident)
    /\ Counts(Accepted, n.accepted) /\ Counts(Finished, n.finished)
    /\ \A t \in Task : Counts(Owing(t), pendingBlocking[t])

\* What the shutdown has read stays true: nobody can enter any more.
CloseInv ==
    /\ shut \notin {"open", "gate"} => gateClosed
    /\ shut \in {"queued", "running", "resident", "ok"} => producers = {}
    /\ shut = "ok" => n.resident = 0

Totals ==
    /\ n \in [queued : Int, running : Int, resident : Int,
              accepted : Int, rejected : Int, finished : Int]
    /\ n.rejected \in Nat
    /\ pendingBlocking \in [Task -> Int]

\* The types; that the counters are naturals takes CountInv.
ShapeInv ==
    /\ parent \in [Job -> Task \cup {NoTask}]
    /\ call \in [Job -> CallLabels]
    /\ guard \in [Job -> GuardLabels]
    /\ marked \subseteq Job /\ capture \subseteq Job /\ producers \subseteq Job
    /\ response \in [Job -> {"open", "sent", "closed"}]
    /\ worker \in [Worker -> [at : WorkerLabels, job : Job \cup {NoJob}]]
    /\ channel \in Seq(Job) /\ Len(channel) <= QueueLimit
    /\ lock \in Job \cup {NoJob}
    /\ gateClosed \in BOOLEAN /\ closing \in BOOLEAN
    /\ cancelled \subseteq Task
    /\ shut \in ShutdownLabels
    /\ Totals

-----------------------------------------------------------------------------
(* What the steps do *)

\* A call enters.
LEMMA EnterFacts ==
    ASSUME ShapeInv, NEW j \in Job, Enter(j)
    PROVE  /\ call[j] = "new"
           /\ call'[j] \in {"leave", "reject", "check"}
           /\ \A k \in Job : k # j => call'[k] = call[k]
           /\ capture' = capture \cup {j}
           /\ producers' = IF gateClosed THEN producers ELSE producers \cup {j}
           /\ (call'[j] = "check" => ~gateClosed)
           /\ UNCHANGED <<guard, marked, worker, channel, n, pendingBlocking, parent,
                          gateClosed, shut>>
  BY PoolAssumption DEF ShapeInv, Totals, Enter, Goes

\* closing is read.
LEMMA CheckFacts ==
    ASSUME ShapeInv, NEW j \in Job, Check(j)
    PROVE  /\ call[j] = "check"
           /\ call'[j] \in {"reject", "lock"} /\ \A k \in Job : k # j => call'[k] = call[k]
           /\ UNCHANGED <<guard, marked, capture, worker, channel, producers, n,
                          pendingBlocking, parent, gateClosed, shut>>
  BY PoolAssumption DEF ShapeInv, Totals, Check, Goes

\* closing is read again.
LEMMA LockFacts ==
    ASSUME ShapeInv, NEW j \in Job, Lock(j)
    PROVE  /\ call[j] = "lock"
           /\ call'[j] \in {"reject", "pend"} /\ \A k \in Job : k # j => call'[k] = call[k]
           /\ UNCHANGED <<guard, marked, capture, worker, channel, producers, n,
                          pendingBlocking, parent, gateClosed, shut>>
  BY PoolAssumption DEF ShapeInv, Totals, Lock, Goes

\* The parent owes.
LEMMA PendFacts ==
    ASSUME ShapeInv, NEW j \in Job, NewGuard(j), call[j] = "pend"
    PROVE  /\ call'[j] = "reside" /\ \A k \in Job : k # j => call'[k] = call[k]
           /\ \A t \in Task : pendingBlocking'[t] =
                 IF t = parent[j] THEN pendingBlocking[t] + 1 ELSE pendingBlocking[t]
           /\ UNCHANGED <<guard, marked, capture, worker, channel, producers, n, parent,
                          gateClosed, shut>>
  BY PoolAssumption DEF ShapeInv, Totals, NewGuard, Goes, Pending

\* The guard exists.
LEMMA ResideFacts ==
    ASSUME ShapeInv, NEW j \in Job, NewGuard(j), call[j] = "reside"
    PROVE  /\ call'[j] = "reserve" /\ \A k \in Job : k # j => call'[k] = call[k]
           /\ guard'[j] = "live" /\ \A k \in Job : k # j => guard'[k] = guard[k]
           /\ n'.queued = n.queued /\ n'.running = n.running /\ n'.resident = n.resident + 1
           /\ n'.accepted = n.accepted /\ n'.finished = n.finished
           /\ UNCHANGED <<marked, capture, worker, channel, producers, pendingBlocking,
                          parent, gateClosed, shut>>
  BY PoolAssumption DEF ShapeInv, Totals, NewGuard, Goes

\* The queue is counted before the job is sent.
LEMMA ReserveFacts ==
    ASSUME ShapeInv, NEW j \in Job, Reserve(j)
    PROVE  /\ call[j] = "reserve"
           /\ call'[j] = "send" /\ \A k \in Job : k # j => call'[k] = call[k]
           /\ marked' = marked \cup {j}
           /\ n'.queued = n.queued + 1 /\ n'.running = n.running /\ n'.resident = n.resident
           /\ n'.accepted = n.accepted /\ n'.finished = n.finished
           /\ UNCHANGED <<guard, capture, worker, channel, producers, pendingBlocking,
                          parent, gateClosed, shut>>
  BY PoolAssumption DEF ShapeInv, Totals, Reserve, Goes

\* The job is in the channel.
LEMMA SendFitsFacts ==
    ASSUME ShapeInv, NEW j \in Job, Send(j), Len(channel) < QueueLimit
    PROVE  /\ call[j] = "send"
           /\ Len(channel) < QueueLimit
           /\ call'[j] = "count" /\ \A k \in Job : k # j => call'[k] = call[k]
           /\ channel' = Append(channel, j)
           /\ UNCHANGED <<guard, marked, capture, worker, producers, n, pendingBlocking,
                          parent, gateClosed, shut>>
  BY PoolAssumption DEF ShapeInv, Totals, Send

\* The job comes back.
LEMMA SendFullFacts ==
    ASSUME ShapeInv, NEW j \in Job, Send(j), ~(Len(channel) < QueueLimit)
    PROVE  /\ call[j] = "send"
           /\ call'[j] = "refused" /\ \A k \in Job : k # j => call'[k] = call[k]
           /\ marked' = marked \ {j}
           /\ n'.queued = n.queued /\ n'.running = n.running /\ n'.resident = n.resident
           /\ n'.accepted = n.accepted /\ n'.finished = n.finished
           /\ UNCHANGED <<guard, capture, worker, channel, producers, pendingBlocking,
                          parent, gateClosed, shut>>
  BY PoolAssumption DEF ShapeInv, Totals, Send

\* The acceptance is counted.
LEMMA CountAcceptedFacts ==
    ASSUME ShapeInv, NEW j \in Job, CountAccepted(j)
    PROVE  /\ call[j] = "count"
           /\ call'[j] = "accepted" /\ \A k \in Job : k # j => call'[k] = call[k]
           /\ n'.queued = n.queued /\ n'.running = n.running /\ n'.resident = n.resident
           /\ n'.accepted = n.accepted + 1 /\ n'.finished = n.finished
           /\ UNCHANGED <<guard, marked, capture, worker, channel, producers,
                          pendingBlocking, parent, gateClosed, shut>>
  BY PoolAssumption DEF ShapeInv, Totals, CountAccepted, Goes

\* The lock is given up after an acceptance.
LEMMA UnlockAcceptedFacts ==
    ASSUME ShapeInv, NEW j \in Job, Unlock(j), call[j] = "accepted"
    PROVE  /\ call'[j] = "release" /\ \A k \in Job : k # j => call'[k] = call[k]
           /\ UNCHANGED <<guard, marked, capture, worker, channel, producers, n,
                          pendingBlocking, parent, gateClosed, shut>>
  BY PoolAssumption DEF ShapeInv, Totals, Unlock, Goes

\* The lock is given up after a refusal.
LEMMA UnlockRefusedFacts ==
    ASSUME ShapeInv, NEW j \in Job, Unlock(j), call[j] = "refused"
    PROVE  /\ call'[j] = "credit" /\ \A k \in Job : k # j => call'[k] = call[k]
           /\ UNCHANGED <<guard, marked, capture, worker, channel, producers, n,
                          pendingBlocking, parent, gateClosed, shut>>
  BY PoolAssumption DEF ShapeInv, Totals, Unlock, Goes

\* The call is no producer any more.
LEMMA ReleaseFacts ==
    ASSUME ShapeInv, NEW j \in Job, Release(j)
    PROVE  /\ call[j] = "release"
           /\ call'[j] = "wait" /\ \A k \in Job : k # j => call'[k] = call[k]
           /\ producers' = producers \ {j}
           /\ UNCHANGED <<guard, marked, capture, worker, channel, n, pendingBlocking,
                          parent, gateClosed, shut>>
  BY PoolAssumption DEF ShapeInv, Totals, Release, Goes

\* The call returns.
LEMMA ReturnFacts ==
    ASSUME ShapeInv, NEW j \in Job, Return(j)
    PROVE  /\ call[j] = "wait"
           /\ call'[j] = "done" /\ \A k \in Job : k # j => call'[k] = call[k]
           /\ UNCHANGED <<guard, marked, capture, worker, channel, producers, n,
                          pendingBlocking, parent, gateClosed, shut>>
  BY PoolAssumption DEF ShapeInv, Totals, Return, Goes

\* The caller runs the body of another task, or is back from it.
LEMMA HelpFacts ==
    ASSUME ShapeInv, NEW j \in Job, Help(j) \/ HelpedReturns(j)
    PROVE  /\ call[j] \in {"wait", "help"}
           /\ call'[j] \in {"wait", "help"} /\ \A k \in Job : k # j => call'[k] = call[k]
           /\ UNCHANGED <<guard, marked, capture, worker, channel, producers, n,
                          pendingBlocking, parent, gateClosed, shut>>
  BY PoolAssumption DEF ShapeInv, Totals, Help, HelpedReturns, Goes

\* The queue credit goes back.
LEMMA CreditFacts ==
    ASSUME ShapeInv, NEW j \in Job, Credit(j)
    PROVE  /\ call[j] = "credit"
           /\ call'[j] = "drop" /\ \A k \in Job : k # j => call'[k] = call[k]
           /\ n'.queued = n.queued - 1 /\ n'.running = n.running /\ n'.resident = n.resident
           /\ n'.accepted = n.accepted /\ n'.finished = n.finished
           /\ UNCHANGED <<guard, marked, capture, worker, channel, producers,
                          pendingBlocking, parent, gateClosed, shut>>
  BY PoolAssumption DEF ShapeInv, Totals, Credit, Goes

\* The refused callback is destroyed.
LEMMA DropFacts ==
    ASSUME ShapeInv, NEW j \in Job, DropRejected(j), call[j] = "drop"
    PROVE  /\ call'[j] = "retire" /\ \A k \in Job : k # j => call'[k] = call[k]
           /\ guard'[j] = "finish" /\ \A k \in Job : k # j => guard'[k] = guard[k]
           /\ capture' = capture \ {j}
           /\ UNCHANGED <<marked, worker, channel, producers, n, pendingBlocking, parent,
                          gateClosed, shut>>
  BY PoolAssumption DEF ShapeInv, Totals, DropRejected, Goes

\* The refused job is gone.
LEMMA DroppedFacts ==
    ASSUME ShapeInv, NEW j \in Job, DropRejected(j), call[j] = "retire"
    PROVE  /\ guard[j] = "gone"
           /\ call'[j] = "leave" /\ \A k \in Job : k # j => call'[k] = call[k]
           /\ UNCHANGED <<guard, marked, capture, worker, channel, producers, n,
                          pendingBlocking, parent, gateClosed, shut>>
  BY PoolAssumption DEF ShapeInv, Totals, DropRejected, Goes

\* The rejection is counted.
LEMMA RejectFacts ==
    ASSUME ShapeInv, NEW j \in Job, Reject(j)
    PROVE  /\ call[j] = "reject"
           /\ call'[j] = "leave" /\ \A k \in Job : k # j => call'[k] = call[k]
           /\ n'.queued = n.queued /\ n'.running = n.running /\ n'.resident = n.resident
           /\ n'.accepted = n.accepted /\ n'.finished = n.finished
           /\ UNCHANGED <<guard, marked, capture, worker, channel, producers,
                          pendingBlocking, parent, gateClosed, shut>>
  BY PoolAssumption DEF ShapeInv, Totals, Reject, Goes

\* The rest of the callback is destroyed.
LEMMA FreeFacts ==
    ASSUME ShapeInv, NEW j \in Job, Leave(j), call[j] = "leave"
    PROVE  /\ call'[j] = "freed" /\ \A k \in Job : k # j => call'[k] = call[k]
           /\ capture' = capture \ {j}
           /\ UNCHANGED <<guard, marked, worker, channel, producers, n, pendingBlocking,
                          parent, gateClosed, shut>>
  BY PoolAssumption DEF ShapeInv, Totals, Leave, Goes

\* The call ends.
LEMMA FreedFacts ==
    ASSUME ShapeInv, NEW j \in Job, Leave(j), call[j] = "freed"
    PROVE  /\ call'[j] = "done" /\ \A k \in Job : k # j => call'[k] = call[k]
           /\ producers' = producers \ {j}
           /\ UNCHANGED <<guard, marked, capture, worker, channel, n, pendingBlocking,
                          parent, gateClosed, shut>>
  BY PoolAssumption DEF ShapeInv, Totals, Leave, Goes

\* First update of the guard's drop.
LEMMA GuardFinishFacts ==
    ASSUME ShapeInv, NEW j \in Job, DropGuard(j), guard[j] = "finish"
    PROVE  /\ guard'[j] = "resident" /\ \A k \in Job : k # j => guard'[k] = guard[k]
           /\ n'.queued = n.queued /\ n'.running = n.running /\ n'.resident = n.resident
           /\ n'.accepted = n.accepted
           /\ n'.finished = IF j \in marked THEN n.finished + 1 ELSE n.finished
           /\ UNCHANGED <<call, marked, capture, worker, channel, producers,
                          pendingBlocking, parent, gateClosed, shut>>
  BY PoolAssumption DEF ShapeInv, Totals, DropGuard

\* Second update of the guard's drop.
LEMMA GuardResidentFacts ==
    ASSUME ShapeInv, NEW j \in Job, DropGuard(j), guard[j] = "resident"
    PROVE  /\ guard'[j] = "pending" /\ \A k \in Job : k # j => guard'[k] = guard[k]
           /\ n'.queued = n.queued /\ n'.running = n.running /\ n'.resident = n.resident - 1
           /\ n'.accepted = n.accepted /\ n'.finished = n.finished
           /\ UNCHANGED <<call, marked, capture, worker, channel, producers,
                          pendingBlocking, parent, gateClosed, shut>>
  BY PoolAssumption DEF ShapeInv, Totals, DropGuard

\* Last update of the guard's drop.
LEMMA GuardPendingFacts ==
    ASSUME ShapeInv, NEW j \in Job, DropGuard(j), guard[j] = "pending"
    PROVE  /\ guard'[j] = "gone" /\ \A k \in Job : k # j => guard'[k] = guard[k]
           /\ \A t \in Task : pendingBlocking'[t] =
                 IF t = parent[j] THEN pendingBlocking[t] - 1 ELSE pendingBlocking[t]
           /\ UNCHANGED <<call, marked, capture, worker, channel, producers, n, parent,
                          gateClosed, shut>>
  BY PoolAssumption DEF ShapeInv, Totals, DropGuard, Pending

\* A worker takes the first job.
LEMMA ReceiveFacts ==
    ASSUME ShapeInv, NEW w \in Worker, Receive(w)
    PROVE  /\ worker[w].at = "recv"
           /\ channel # <<>>
           /\ channel' = Tail(channel)
           /\ worker'[w].at = "claim" /\ worker'[w].job = Head(channel)
           /\ \A v \in Worker : v # w => worker'[v] = worker[v]
           /\ UNCHANGED <<call, guard, marked, capture, producers, n, pendingBlocking,
                          parent, gateClosed, shut>>
  BY PoolAssumption DEF ShapeInv, Totals, Receive

\* The turn is counted.
LEMMA ClaimFacts ==
    ASSUME ShapeInv, NEW w \in Worker, CountTurn(w), worker[w].at = "claim"
    PROVE  /\ worker'[w].at = "dequeue" /\ worker'[w].job = worker[w].job
           /\ \A v \in Worker : v # w => worker'[v] = worker[v]
           /\ n'.queued = n.queued /\ n'.running = n.running + 1 /\ n'.resident = n.resident
           /\ n'.accepted = n.accepted /\ n'.finished = n.finished
           /\ UNCHANGED <<call, guard, marked, capture, channel, producers, pendingBlocking,
                          parent, gateClosed, shut>>
  BY PoolAssumption DEF ShapeInv, Totals, CountTurn, WorkerGoes

\* The queue is decremented.
LEMMA DequeueFacts ==
    ASSUME ShapeInv, NEW w \in Worker, CountTurn(w), worker[w].at = "dequeue"
    PROVE  /\ worker'[w].at = "start" /\ worker'[w].job = worker[w].job
           /\ \A v \in Worker : v # w => worker'[v] = worker[v]
           /\ n'.queued = n.queued - 1 /\ n'.running = n.running /\ n'.resident = n.resident
           /\ n'.accepted = n.accepted /\ n'.finished = n.finished
           /\ UNCHANGED <<call, guard, marked, capture, channel, producers, pendingBlocking,
                          parent, gateClosed, shut>>
  BY PoolAssumption DEF ShapeInv, Totals, CountTurn, WorkerGoes

\* The turn ends and the guard is dropped.
LEMMA IdleFacts ==
    ASSUME ShapeInv, NEW w \in Worker, CountTurn(w), worker[w].at = "idle"
    PROVE  /\ worker'[w].at = "retire" /\ worker'[w].job = worker[w].job
           /\ \A v \in Worker : v # w => worker'[v] = worker[v]
           /\ n'.queued = n.queued /\ n'.running = n.running - 1 /\ n'.resident = n.resident
           /\ n'.accepted = n.accepted /\ n'.finished = n.finished
           /\ worker[w].job \in Job => guard'[worker[w].job] = "finish"
           /\ \A k \in Job : k # worker[w].job => guard'[k] = guard[k]
           /\ UNCHANGED <<call, marked, capture, channel, producers, pendingBlocking,
                          parent, gateClosed, shut>>
  BY PoolAssumption DEF ShapeInv, Totals, CountTurn, WorkerGoes

\* The callback is run or destroyed.
LEMMA ExecuteFacts ==
    ASSUME ShapeInv, NEW w \in Worker, Execute(w)
    PROVE  /\ worker[w].at = "start"
           /\ worker'[w].at \in {"body", "send"} /\ worker'[w].job = worker[w].job
           /\ \A v \in Worker : v # w => worker'[v] = worker[v]
           /\ capture' \subseteq capture
           /\ (worker'[w].at = "send" => worker[w].job \notin capture')
           /\ UNCHANGED <<call, guard, marked, channel, producers, n, pendingBlocking,
                          parent, gateClosed, shut>>
  BY PoolAssumption DEF ShapeInv, Totals, Execute, WorkerGoes

\* The callback is over.
LEMMA OperationReturnsFacts ==
    ASSUME ShapeInv, NEW w \in Worker, OperationReturns(w)
    PROVE  /\ worker[w].at = "body"
           /\ worker'[w].at = "send" /\ worker'[w].job = worker[w].job
           /\ \A v \in Worker : v # w => worker'[v] = worker[v]
           /\ capture' = capture \ {worker[w].job}
           /\ UNCHANGED <<call, guard, marked, channel, producers, n, pendingBlocking,
                          parent, gateClosed, shut>>
  BY PoolAssumption DEF ShapeInv, Totals, OperationReturns, WorkerGoes

\* The result is sent.
LEMMA RespondFacts ==
    ASSUME ShapeInv, NEW w \in Worker, Respond(w)
    PROVE  /\ worker[w].at = "send"
           /\ worker'[w].at = "idle" /\ worker'[w].job = worker[w].job
           /\ \A v \in Worker : v # w => worker'[v] = worker[v]
           /\ UNCHANGED <<call, guard, marked, capture, channel, producers, n,
                          pendingBlocking, parent, gateClosed, shut>>
  BY PoolAssumption DEF ShapeInv, Totals, Respond, WorkerGoes

\* The worker is free.
LEMMA EndTurnFacts ==
    ASSUME ShapeInv, NEW w \in Worker, EndTurn(w)
    PROVE  /\ worker[w].at = "retire"
           /\ guard[worker[w].job] = "gone"
           /\ worker'[w].at = "recv" /\ worker'[w].job = NoJob
           /\ \A v \in Worker : v # w => worker'[v] = worker[v]
           /\ UNCHANGED <<call, guard, marked, capture, channel, producers, n,
                          pendingBlocking, parent, gateClosed, shut>>
  BY PoolAssumption DEF ShapeInv, Totals, EndTurn

\* The shutdown and the cancellations move no job.
Quiet == Close \/ PollCounters \/ ShutdownTimeout \/ \E t \in Task : CancelParent(t)

\* What they leave alone.
LEMMA QuietFacts ==
    ASSUME Quiet
    PROVE  UNCHANGED <<parent, call, guard, marked, capture, worker, channel, producers, n,
                       pendingBlocking>>
  BY DEF Quiet, Close, PollCounters, ShutdownTimeout, CancelParent

\* Actions with several updates, by the label they start from.
LEMMA Starts ==
    /\ \A j \in Job : NewGuard(j) => call[j] = "pend" \/ call[j] = "reside"
    /\ \A j \in Job : Unlock(j) => call[j] = "accepted" \/ call[j] = "refused"
    /\ \A j \in Job : DropRejected(j) => call[j] = "drop" \/ call[j] = "retire"
    /\ \A j \in Job : Leave(j) => call[j] = "leave" \/ call[j] = "freed"
    /\ \A j \in Job : DropGuard(j) =>
         guard[j] = "finish" \/ guard[j] = "resident" \/ guard[j] = "pending"
    /\ \A w \in Worker : CountTurn(w) =>
         worker[w].at = "claim" \/ worker[w].at = "dequeue" \/ worker[w].at = "idle"
  BY DEF NewGuard, Unlock, DropRejected, Leave, DropGuard, CountTurn, Goes, WorkerGoes

-----------------------------------------------------------------------------
(* Labels and places *)

\* Every step keeps the types.
LEMMA ShapeStep ==
    ASSUME ShapeInv, [Next]_vars
    PROVE  ShapeInv'
  <1>a. Totals /\ parent \in [Job -> Task \cup {NoTask}]
    BY DEF ShapeInv
  <1>b. \A j \in Job : call[j] \in CallLabels
    BY DEF ShapeInv
  <1>1. ASSUME NEW j \in Job, Enter(j) PROVE ShapeInv'
    <2>1. Totals'
      BY <1>1, <1>a DEF Totals, Enter, Goes
    <2> QED
      BY <1>1, <2>1, <1>b, PoolAssumption
      DEF Enter, Goes, ShapeInv, CallLabels, GuardLabels, WorkerLabels
  <1>2. ASSUME NEW j \in Job, Check(j) PROVE ShapeInv'
    <2>1. Totals'
      BY <1>2, <1>a DEF Totals, Check, Goes
    <2> QED
      BY <1>2, <2>1, <1>b, PoolAssumption
      DEF Check, Goes, ShapeInv, CallLabels, GuardLabels, WorkerLabels
  <1>3. ASSUME NEW j \in Job, Lock(j) PROVE ShapeInv'
    <2>1. Totals'
      BY <1>3, <1>a DEF Totals, Lock, Goes
    <2> QED
      BY <1>3, <2>1, <1>b, PoolAssumption
      DEF Lock, Goes, ShapeInv, CallLabels, GuardLabels, WorkerLabels
  <1>4. ASSUME NEW j \in Job, NewGuard(j), call[j] = "pend" PROVE ShapeInv'
    <2>1. Totals'
      BY <1>4, <1>a DEF Totals, NewGuard, Goes, Pending
    <2> QED
      BY <1>4, <2>1, <1>b, PoolAssumption
      DEF NewGuard, Goes, Pending, ShapeInv, CallLabels, GuardLabels, WorkerLabels
  <1>5. ASSUME NEW j \in Job, NewGuard(j), call[j] = "reside" PROVE ShapeInv'
    <2>1. Totals'
      BY <1>5, <1>a DEF Totals, NewGuard, Goes
    <2> QED
      BY <1>5, <2>1, <1>b, PoolAssumption, SMTT(30)
      DEF NewGuard, Goes, ShapeInv, CallLabels, GuardLabels, WorkerLabels
  <1>6. ASSUME NEW j \in Job, Reserve(j) PROVE ShapeInv'
    <2>1. Totals'
      BY <1>6, <1>a DEF Totals, Reserve, Goes
    <2> QED
      BY <1>6, <2>1, <1>b, PoolAssumption
      DEF Reserve, Goes, ShapeInv, CallLabels, GuardLabels, WorkerLabels
  <1>7. ASSUME NEW j \in Job, Send(j), Len(channel) < QueueLimit PROVE ShapeInv'
    <2>1. Totals'
      BY <1>7, <1>a DEF Totals, Send
    <2> QED
      BY <1>7, <2>1, <1>b, PoolAssumption, SMTT(30)
      DEF Send, ShapeInv, CallLabels, GuardLabels, WorkerLabels
  <1>8. ASSUME NEW j \in Job, Send(j), ~(Len(channel) < QueueLimit) PROVE ShapeInv'
    <2>1. Totals'
      BY <1>8, <1>a DEF Totals, Send
    <2> QED
      BY <1>8, <2>1, <1>b, PoolAssumption
      DEF Send, ShapeInv, CallLabels, GuardLabels, WorkerLabels
  <1>9. ASSUME NEW j \in Job, CountAccepted(j) PROVE ShapeInv'
    <2>1. Totals'
      BY <1>9, <1>a DEF Totals, CountAccepted, Goes
    <2> QED
      BY <1>9, <2>1, <1>b, PoolAssumption
      DEF CountAccepted, Goes, ShapeInv, CallLabels, GuardLabels, WorkerLabels
  <1>10. ASSUME NEW j \in Job, Unlock(j), call[j] = "accepted" PROVE ShapeInv'
    <2>1. Totals'
      BY <1>10, <1>a DEF Totals, Unlock, Goes
    <2> QED
      BY <1>10, <2>1, <1>b, PoolAssumption
      DEF Unlock, Goes, ShapeInv, CallLabels, GuardLabels, WorkerLabels
  <1>11. ASSUME NEW j \in Job, Unlock(j), call[j] = "refused" PROVE ShapeInv'
    <2>1. Totals'
      BY <1>11, <1>a DEF Totals, Unlock, Goes
    <2> QED
      BY <1>11, <2>1, <1>b, PoolAssumption
      DEF Unlock, Goes, ShapeInv, CallLabels, GuardLabels, WorkerLabels
  <1>12. ASSUME NEW j \in Job, Release(j) PROVE ShapeInv'
    <2>1. Totals'
      BY <1>12, <1>a DEF Totals, Release, Goes
    <2> QED
      BY <1>12, <2>1, <1>b, PoolAssumption
      DEF Release, Goes, ShapeInv, CallLabels, GuardLabels, WorkerLabels
  <1>13. ASSUME NEW j \in Job, Return(j) PROVE ShapeInv'
    <2>1. Totals'
      BY <1>13, <1>a DEF Totals, Return, Goes
    <2> QED
      BY <1>13, <2>1, <1>b, PoolAssumption
      DEF Return, Goes, ShapeInv, CallLabels, GuardLabels, WorkerLabels
  <1>14. ASSUME NEW j \in Job, Credit(j) PROVE ShapeInv'
    <2>1. Totals'
      BY <1>14, <1>a DEF Totals, Credit, Goes
    <2> QED
      BY <1>14, <2>1, <1>b, PoolAssumption
      DEF Credit, Goes, ShapeInv, CallLabels, GuardLabels, WorkerLabels
  <1>15. ASSUME NEW j \in Job, DropRejected(j), call[j] = "drop" PROVE ShapeInv'
    <2>1. Totals'
      BY <1>15, <1>a DEF Totals, DropRejected, Goes
    <2> QED
      BY <1>15, <2>1, <1>b, PoolAssumption
      DEF DropRejected, Goes, ShapeInv, CallLabels, GuardLabels, WorkerLabels
  <1>16. ASSUME NEW j \in Job, DropRejected(j), call[j] = "retire" PROVE ShapeInv'
    <2>1. Totals'
      BY <1>16, <1>a DEF Totals, DropRejected, Goes
    <2> QED
      BY <1>16, <2>1, <1>b, PoolAssumption
      DEF DropRejected, Goes, ShapeInv, CallLabels, GuardLabels, WorkerLabels
  <1>17. ASSUME NEW j \in Job, Reject(j) PROVE ShapeInv'
    <2>1. Totals'
      BY <1>17, <1>a DEF Totals, Reject, Goes
    <2> QED
      BY <1>17, <2>1, <1>b, PoolAssumption
      DEF Reject, Goes, ShapeInv, CallLabels, GuardLabels, WorkerLabels
  <1>18. ASSUME NEW j \in Job, Leave(j), call[j] = "leave" PROVE ShapeInv'
    <2>1. Totals'
      BY <1>18, <1>a DEF Totals, Leave, Goes
    <2> QED
      BY <1>18, <2>1, <1>b, PoolAssumption
      DEF Leave, Goes, ShapeInv, CallLabels, GuardLabels, WorkerLabels
  <1>19. ASSUME NEW j \in Job, Leave(j), call[j] = "freed" PROVE ShapeInv'
    <2>1. Totals'
      BY <1>19, <1>a DEF Totals, Leave, Goes
    <2> QED
      BY <1>19, <2>1, <1>b, PoolAssumption
      DEF Leave, Goes, ShapeInv, CallLabels, GuardLabels, WorkerLabels
  <1>20. ASSUME NEW j \in Job, DropGuard(j), guard[j] = "finish" PROVE ShapeInv'
    <2>1. Totals'
      BY <1>20, <1>a DEF Totals, DropGuard
    <2> QED
      BY <1>20, <2>1, <1>b, PoolAssumption
      DEF DropGuard, ShapeInv, CallLabels, GuardLabels, WorkerLabels
  <1>21. ASSUME NEW j \in Job, DropGuard(j), guard[j] = "resident" PROVE ShapeInv'
    <2>1. Totals'
      BY <1>21, <1>a DEF Totals, DropGuard
    <2> QED
      BY <1>21, <2>1, <1>b, PoolAssumption
      DEF DropGuard, ShapeInv, CallLabels, GuardLabels, WorkerLabels
  <1>22. ASSUME NEW j \in Job, DropGuard(j), guard[j] = "pending" PROVE ShapeInv'
    <2>1. Totals'
      BY <1>22, <1>a DEF Totals, DropGuard, Pending
    <2> QED
      BY <1>22, <2>1, <1>b, PoolAssumption
      DEF DropGuard, Pending, ShapeInv, CallLabels, GuardLabels, WorkerLabels
  <1>23. ASSUME NEW w \in Worker, Receive(w) PROVE ShapeInv'
    <2>1. Totals'
      BY <1>23, <1>a DEF Totals, Receive
    <2> QED
      BY <1>23, <2>1, <1>b, PoolAssumption
      DEF Receive, ShapeInv, CallLabels, GuardLabels, WorkerLabels
  <1>24. ASSUME NEW w \in Worker, CountTurn(w), worker[w].at = "claim" PROVE ShapeInv'
    <2>1. Totals'
      BY <1>24, <1>a DEF Totals, CountTurn, WorkerGoes
    <2> QED
      BY <1>24, <2>1, <1>b, PoolAssumption
      DEF CountTurn, WorkerGoes, ShapeInv, CallLabels, GuardLabels, WorkerLabels
  <1>25. ASSUME NEW w \in Worker, CountTurn(w), worker[w].at = "dequeue" PROVE ShapeInv'
    <2>1. Totals'
      BY <1>25, <1>a DEF Totals, CountTurn, WorkerGoes
    <2> QED
      BY <1>25, <2>1, <1>b, PoolAssumption
      DEF CountTurn, WorkerGoes, ShapeInv, CallLabels, GuardLabels, WorkerLabels
  <1>26. ASSUME NEW w \in Worker, CountTurn(w), worker[w].at = "idle" PROVE ShapeInv'
    <2>1. Totals'
      BY <1>26, <1>a DEF Totals, CountTurn, WorkerGoes
    <2> QED
      BY <1>26, <2>1, <1>b, PoolAssumption, SMTT(90)
      DEF CountTurn, WorkerGoes, ShapeInv, CallLabels, GuardLabels, WorkerLabels
  <1>27. ASSUME NEW w \in Worker, Execute(w) PROVE ShapeInv'
    <2>1. Totals'
      BY <1>27, <1>a DEF Totals, Execute, WorkerGoes
    <2> QED
      BY <1>27, <2>1, <1>b, PoolAssumption
      DEF Execute, WorkerGoes, ShapeInv, CallLabels, GuardLabels, WorkerLabels
  <1>28. ASSUME NEW w \in Worker, OperationReturns(w) PROVE ShapeInv'
    <2>1. Totals'
      BY <1>28, <1>a DEF Totals, OperationReturns, WorkerGoes
    <2> QED
      BY <1>28, <2>1, <1>b, PoolAssumption
      DEF OperationReturns, WorkerGoes, ShapeInv, CallLabels, GuardLabels, WorkerLabels
  <1>29. ASSUME NEW w \in Worker, Respond(w) PROVE ShapeInv'
    <2>1. Totals'
      BY <1>29, <1>a DEF Totals, Respond, WorkerGoes
    <2> QED
      BY <1>29, <2>1, <1>b, PoolAssumption, ZenonT(30)
      DEF Respond, WorkerGoes, ShapeInv, CallLabels, GuardLabels, WorkerLabels
  <1>30. ASSUME NEW w \in Worker, EndTurn(w) PROVE ShapeInv'
    <2>1. Totals'
      BY <1>30, <1>a DEF Totals, EndTurn
    <2> QED
      BY <1>30, <2>1, <1>b, PoolAssumption
      DEF EndTurn, ShapeInv, CallLabels, GuardLabels, WorkerLabels
  <1>31. CASE Quiet
    BY <1>31
    DEF Quiet, Close, PollCounters, ShutdownTimeout, CancelParent, AfterRead, ShapeInv,
        Totals, ShutdownLabels
  <1>33. ASSUME NEW j \in Job, Help(j) \/ HelpedReturns(j) PROVE ShapeInv'
    <2>1. Totals'
      BY <1>33, <1>a DEF Totals, Help, HelpedReturns, Goes
    <2> QED
      BY <1>33, <2>1, <1>b, PoolAssumption
      DEF Help, HelpedReturns, Goes, ShapeInv, CallLabels, GuardLabels, WorkerLabels
  <1>32. CASE UNCHANGED vars
    BY <1>32 DEF ShapeInv, Totals, vars
  <1> QED
    BY Starts, <1>1, <1>2, <1>3, <1>4, <1>5, <1>6, <1>7, <1>8, <1>9, <1>10, <1>11,
       <1>12, <1>13, <1>14, <1>15, <1>16, <1>17, <1>18, <1>19, <1>20, <1>21, <1>22,
       <1>23, <1>24, <1>25, <1>26, <1>27, <1>28, <1>29, <1>30, <1>31, <1>32, <1>33
    DEF Next, CallStep, WorkerStep, Quiet

\* The label of a call and its guard stay in step.
LEMMA CallStepInv ==
    ASSUME ShapeInv, PlaceInv, CallInv, [Next]_vars
    PROVE  CallInv'
  <1>a. call \in [Job -> CallLabels] /\ guard \in [Job -> GuardLabels]
    BY DEF ShapeInv
  <1>1. ASSUME NEW j \in Job, Enter(j) PROVE CallInv'
    BY <1>1, <1>a, EnterFacts DEF CallInv
  <1>2. ASSUME NEW j \in Job, Check(j) PROVE CallInv'
    BY <1>2, <1>a, CheckFacts DEF CallInv
  <1>3. ASSUME NEW j \in Job, Lock(j) PROVE CallInv'
    BY <1>3, <1>a, LockFacts DEF CallInv
  <1>4. ASSUME NEW j \in Job, NewGuard(j), call[j] = "pend" PROVE CallInv'
    BY <1>4, <1>a, PendFacts DEF CallInv
  <1>5. ASSUME NEW j \in Job, NewGuard(j), call[j] = "reside" PROVE CallInv'
    BY <1>5, <1>a, ResideFacts DEF CallInv
  <1>6. ASSUME NEW j \in Job, Reserve(j) PROVE CallInv'
    BY <1>6, <1>a, ReserveFacts DEF CallInv
  <1>7. ASSUME NEW j \in Job, Send(j), Len(channel) < QueueLimit PROVE CallInv'
    BY <1>7, <1>a, SendFitsFacts DEF CallInv
  <1>8. ASSUME NEW j \in Job, Send(j), ~(Len(channel) < QueueLimit) PROVE CallInv'
    BY <1>8, <1>a, SendFullFacts DEF CallInv
  <1>9. ASSUME NEW j \in Job, CountAccepted(j) PROVE CallInv'
    BY <1>9, <1>a, CountAcceptedFacts DEF CallInv
  <1>10. ASSUME NEW j \in Job, Unlock(j), call[j] = "accepted" PROVE CallInv'
    BY <1>10, <1>a, UnlockAcceptedFacts DEF CallInv
  <1>11. ASSUME NEW j \in Job, Unlock(j), call[j] = "refused" PROVE CallInv'
    BY <1>11, <1>a, UnlockRefusedFacts DEF CallInv
  <1>12. ASSUME NEW j \in Job, Release(j) PROVE CallInv'
    BY <1>12, <1>a, ReleaseFacts DEF CallInv
  <1>13. ASSUME NEW j \in Job, Return(j) PROVE CallInv'
    BY <1>13, <1>a, ReturnFacts DEF CallInv
  <1>14. ASSUME NEW j \in Job, Credit(j) PROVE CallInv'
    BY <1>14, <1>a, CreditFacts DEF CallInv
  <1>15. ASSUME NEW j \in Job, DropRejected(j), call[j] = "drop" PROVE CallInv'
    BY <1>15, <1>a, DropFacts DEF CallInv
  <1>16. ASSUME NEW j \in Job, DropRejected(j), call[j] = "retire" PROVE CallInv'
    BY <1>16, <1>a, DroppedFacts DEF CallInv
  <1>17. ASSUME NEW j \in Job, Reject(j) PROVE CallInv'
    BY <1>17, <1>a, RejectFacts DEF CallInv
  <1>18. ASSUME NEW j \in Job, Leave(j), call[j] = "leave" PROVE CallInv'
    BY <1>18, <1>a, FreeFacts DEF CallInv
  <1>19. ASSUME NEW j \in Job, Leave(j), call[j] = "freed" PROVE CallInv'
    BY <1>19, <1>a, FreedFacts DEF CallInv
  <1>20. ASSUME NEW j \in Job, DropGuard(j), guard[j] = "finish" PROVE CallInv'
    BY <1>20, <1>a, GuardFinishFacts DEF CallInv
  <1>21. ASSUME NEW j \in Job, DropGuard(j), guard[j] = "resident" PROVE CallInv'
    BY <1>21, <1>a, GuardResidentFacts DEF CallInv
  <1>22. ASSUME NEW j \in Job, DropGuard(j), guard[j] = "pending" PROVE CallInv'
    BY <1>22, <1>a, GuardPendingFacts DEF CallInv
  <1>23. ASSUME NEW w \in Worker, Receive(w) PROVE CallInv'
    BY <1>23, <1>a, ReceiveFacts DEF CallInv
  <1>24. ASSUME NEW w \in Worker, CountTurn(w), worker[w].at = "claim" PROVE CallInv'
    BY <1>24, <1>a, ClaimFacts DEF CallInv
  <1>25. ASSUME NEW w \in Worker, CountTurn(w), worker[w].at = "dequeue" PROVE CallInv'
    BY <1>25, <1>a, DequeueFacts DEF CallInv
  <1>26. ASSUME NEW w \in Worker, CountTurn(w), worker[w].at = "idle" PROVE CallInv'
    <2>1. worker[w].job \in Job /\ Sent(worker[w].job) /\ guard[worker[w].job] = "live"
      BY <1>26, PoolAssumption DEF PlaceInv, ShapeInv
    <2> QED
      BY <1>26, <1>a, <2>1, IdleFacts DEF CallInv, Sent
  <1>27. ASSUME NEW w \in Worker, Execute(w) PROVE CallInv'
    BY <1>27, <1>a, ExecuteFacts DEF CallInv
  <1>28. ASSUME NEW w \in Worker, OperationReturns(w) PROVE CallInv'
    BY <1>28, <1>a, OperationReturnsFacts DEF CallInv
  <1>29. ASSUME NEW w \in Worker, Respond(w) PROVE CallInv'
    BY <1>29, <1>a, RespondFacts DEF CallInv
  <1>30. ASSUME NEW w \in Worker, EndTurn(w) PROVE CallInv'
    BY <1>30, <1>a, EndTurnFacts DEF CallInv
  <1>31. CASE Quiet
    BY <1>31, QuietFacts DEF CallInv
  <1>33. ASSUME NEW j \in Job, Help(j) \/ HelpedReturns(j) PROVE CallInv'
    BY <1>33, <1>a, HelpFacts DEF CallInv
  <1>32. CASE UNCHANGED vars
    BY <1>32 DEF CallInv, vars
  <1> QED
    BY Starts, <1>1, <1>2, <1>3, <1>4, <1>5, <1>6, <1>7, <1>8, <1>9, <1>10, <1>11,
       <1>12, <1>13, <1>14, <1>15, <1>16, <1>17, <1>18, <1>19, <1>20, <1>21, <1>22,
       <1>23, <1>24, <1>25, <1>26, <1>27, <1>28, <1>29, <1>30, <1>31, <1>32, <1>33
    DEF Next, CallStep, WorkerStep, Quiet

\* Producers stay counted, and callbacks die before their guards.
LEMMA OwnerStep ==
    ASSUME ShapeInv, PlaceInv, CallInv, OwnerInv, [Next]_vars
    PROVE  OwnerInv'
  <1>a. call \in [Job -> CallLabels] /\ guard \in [Job -> GuardLabels]
    BY DEF ShapeInv
  <1>1. ASSUME NEW j \in Job, Enter(j) PROVE OwnerInv'
    BY <1>1, <1>a, EnterFacts DEF OwnerInv, CallInv
  <1>2. ASSUME NEW j \in Job, Check(j) PROVE OwnerInv'
    BY <1>2, <1>a, CheckFacts DEF OwnerInv
  <1>3. ASSUME NEW j \in Job, Lock(j) PROVE OwnerInv'
    BY <1>3, <1>a, LockFacts DEF OwnerInv
  <1>4. ASSUME NEW j \in Job, NewGuard(j), call[j] = "pend" PROVE OwnerInv'
    BY <1>4, <1>a, PendFacts DEF OwnerInv
  <1>5. ASSUME NEW j \in Job, NewGuard(j), call[j] = "reside" PROVE OwnerInv'
    BY <1>5, <1>a, ResideFacts DEF OwnerInv
  <1>6. ASSUME NEW j \in Job, Reserve(j) PROVE OwnerInv'
    BY <1>6, <1>a, ReserveFacts DEF OwnerInv
  <1>7. ASSUME NEW j \in Job, Send(j), Len(channel) < QueueLimit PROVE OwnerInv'
    BY <1>7, <1>a, SendFitsFacts DEF OwnerInv
  <1>8. ASSUME NEW j \in Job, Send(j), ~(Len(channel) < QueueLimit) PROVE OwnerInv'
    BY <1>8, <1>a, SendFullFacts DEF OwnerInv
  <1>9. ASSUME NEW j \in Job, CountAccepted(j) PROVE OwnerInv'
    BY <1>9, <1>a, CountAcceptedFacts DEF OwnerInv
  <1>10. ASSUME NEW j \in Job, Unlock(j), call[j] = "accepted" PROVE OwnerInv'
    BY <1>10, <1>a, UnlockAcceptedFacts DEF OwnerInv
  <1>11. ASSUME NEW j \in Job, Unlock(j), call[j] = "refused" PROVE OwnerInv'
    BY <1>11, <1>a, UnlockRefusedFacts DEF OwnerInv
  <1>12. ASSUME NEW j \in Job, Release(j) PROVE OwnerInv'
    BY <1>12, <1>a, ReleaseFacts DEF OwnerInv
  <1>13. ASSUME NEW j \in Job, Return(j) PROVE OwnerInv'
    BY <1>13, <1>a, ReturnFacts DEF OwnerInv
  <1>14. ASSUME NEW j \in Job, Credit(j) PROVE OwnerInv'
    BY <1>14, <1>a, CreditFacts DEF OwnerInv
  <1>15. ASSUME NEW j \in Job, DropRejected(j), call[j] = "drop" PROVE OwnerInv'
    BY <1>15, <1>a, DropFacts DEF OwnerInv
  <1>16. ASSUME NEW j \in Job, DropRejected(j), call[j] = "retire" PROVE OwnerInv'
    BY <1>16, <1>a, DroppedFacts DEF OwnerInv
  <1>17. ASSUME NEW j \in Job, Reject(j) PROVE OwnerInv'
    BY <1>17, <1>a, RejectFacts DEF OwnerInv
  <1>18. ASSUME NEW j \in Job, Leave(j), call[j] = "leave" PROVE OwnerInv'
    BY <1>18, <1>a, FreeFacts DEF OwnerInv
  <1>19. ASSUME NEW j \in Job, Leave(j), call[j] = "freed" PROVE OwnerInv'
    BY <1>19, <1>a, FreedFacts DEF OwnerInv
  <1>20. ASSUME NEW j \in Job, DropGuard(j), guard[j] = "finish" PROVE OwnerInv'
    BY <1>20, <1>a, GuardFinishFacts DEF OwnerInv
  <1>21. ASSUME NEW j \in Job, DropGuard(j), guard[j] = "resident" PROVE OwnerInv'
    BY <1>21, <1>a, GuardResidentFacts DEF OwnerInv
  <1>22. ASSUME NEW j \in Job, DropGuard(j), guard[j] = "pending" PROVE OwnerInv'
    BY <1>22, <1>a, GuardPendingFacts DEF OwnerInv
  <1>23. ASSUME NEW w \in Worker, Receive(w) PROVE OwnerInv'
    BY <1>23, <1>a, ReceiveFacts DEF OwnerInv
  <1>24. ASSUME NEW w \in Worker, CountTurn(w), worker[w].at = "claim" PROVE OwnerInv'
    BY <1>24, <1>a, ClaimFacts DEF OwnerInv
  <1>25. ASSUME NEW w \in Worker, CountTurn(w), worker[w].at = "dequeue" PROVE OwnerInv'
    BY <1>25, <1>a, DequeueFacts DEF OwnerInv
  <1>26. ASSUME NEW w \in Worker, CountTurn(w), worker[w].at = "idle" PROVE OwnerInv'
    <2>1. worker[w].job \in Job /\ worker[w].job \notin capture
      BY <1>26, PoolAssumption DEF PlaceInv, ShapeInv
    <2> QED
      BY <1>26, <1>a, <2>1, IdleFacts DEF OwnerInv
  <1>27. ASSUME NEW w \in Worker, Execute(w) PROVE OwnerInv'
    BY <1>27, <1>a, ExecuteFacts DEF OwnerInv
  <1>28. ASSUME NEW w \in Worker, OperationReturns(w) PROVE OwnerInv'
    BY <1>28, <1>a, OperationReturnsFacts DEF OwnerInv
  <1>29. ASSUME NEW w \in Worker, Respond(w) PROVE OwnerInv'
    BY <1>29, <1>a, RespondFacts DEF OwnerInv
  <1>30. ASSUME NEW w \in Worker, EndTurn(w) PROVE OwnerInv'
    BY <1>30, <1>a, EndTurnFacts DEF OwnerInv
  <1>31. CASE Quiet
    BY <1>31, QuietFacts DEF OwnerInv
  <1>33. ASSUME NEW j \in Job, Help(j) \/ HelpedReturns(j) PROVE OwnerInv'
    BY <1>33, <1>a, HelpFacts DEF OwnerInv
  <1>32. CASE UNCHANGED vars
    BY <1>32 DEF OwnerInv, vars
  <1> QED
    BY Starts, <1>1, <1>2, <1>3, <1>4, <1>5, <1>6, <1>7, <1>8, <1>9, <1>10, <1>11,
       <1>12, <1>13, <1>14, <1>15, <1>16, <1>17, <1>18, <1>19, <1>20, <1>21, <1>22,
       <1>23, <1>24, <1>25, <1>26, <1>27, <1>28, <1>29, <1>30, <1>31, <1>32, <1>33
    DEF Next, CallStep, WorkerStep, Quiet

\* A job moves from its call to the channel to one worker.
LEMMA PlaceStep ==
    ASSUME ShapeInv, CallInv, PlaceInv, [Next]_vars
    PROVE  PlaceInv'
  <1>a. /\ channel \in Seq(Job) /\ Len(channel) \in Nat
        /\ \A i \in 1..Len(channel) : channel[i] \in Job
        /\ \A w \in Worker : worker[w].job \in Job \cup {NoJob}
        /\ NoJob \notin Job
    BY PoolAssumption DEF ShapeInv
  <1>b. /\ \A i \in 1..Len(channel) : /\ channel[i] \in marked /\ call[channel[i]] # "send"
                                      /\ guard[channel[i]] = "live"
        /\ \A w \in Worker : worker[w].job # NoJob =>
             worker[w].job \in Job /\ worker[w].job \in marked /\ call[worker[w].job] # "send"
    BY <1>a DEF PlaceInv, Sent
  <1>1. ASSUME NEW j \in Job, Enter(j) PROVE PlaceInv'
    BY <1>1, <1>a, <1>b, EnterFacts DEF PlaceInv, Sent, InChannel, CallInv
  <1>2. ASSUME NEW j \in Job, Check(j) PROVE PlaceInv'
    BY <1>2, <1>a, <1>b, CheckFacts DEF PlaceInv, Sent, InChannel, CallInv
  <1>3. ASSUME NEW j \in Job, Lock(j) PROVE PlaceInv'
    BY <1>3, <1>a, <1>b, LockFacts DEF PlaceInv, Sent, InChannel, CallInv
  <1>4. ASSUME NEW j \in Job, NewGuard(j), call[j] = "pend" PROVE PlaceInv'
    BY <1>4, <1>a, <1>b, PendFacts DEF PlaceInv, Sent, InChannel, CallInv
  <1>5. ASSUME NEW j \in Job, NewGuard(j), call[j] = "reside" PROVE PlaceInv'
    BY <1>5, <1>a, <1>b, ResideFacts DEF PlaceInv, Sent, InChannel, CallInv
  <1>6. ASSUME NEW j \in Job, Reserve(j) PROVE PlaceInv'
    BY <1>6, <1>a, <1>b, ReserveFacts DEF PlaceInv, Sent, InChannel, CallInv
  <1>7. ASSUME NEW j \in Job, Send(j), Len(channel) < QueueLimit PROVE PlaceInv'
    <2>1. /\ channel' = Append(channel, j) /\ j \in marked /\ guard[j] = "live" /\ call[j] = "send"
          /\ call'[j] = "count" /\ \A k \in Job : k # j => call'[k] = call[k]
          /\ UNCHANGED <<guard, marked, capture, worker>>
      BY <1>7, SendFitsFacts DEF CallInv
    <2>2. /\ Len(channel') = Len(channel) + 1 /\ channel'[Len(channel) + 1] = j
          /\ \A i \in 1..Len(channel) : channel'[i] = channel[i]
      BY <1>a, <2>1
    <2>3. \A i \in 1..Len(channel') : i \in 1..Len(channel) \/ i = Len(channel) + 1
      BY <1>a, <2>2
    <2>4. \A i \in 1..Len(channel) : channel[i] # j
      BY <1>b, <2>1
    <2>5. \A w \in Worker : worker[w].job # j
      BY <1>a, <1>b, <2>1
    <2>6. \A i, k \in 1..Len(channel') : channel'[i] = channel'[k] => i = k
      BY <2>2, <2>3, <2>4 DEF PlaceInv
    <2>7. \A k \in Job : Sent(k) => Sent(k)'
      BY <2>1 DEF Sent
    <2>8. Sent(j)'
      BY <2>1 DEF Sent
    <2>9. (\A i \in 1..Len(channel) : Sent(channel[i]) /\ guard[channel[i]] = "live")'
      BY <1>a, <2>1, <2>2, <2>3, <2>7, <2>8 DEF PlaceInv
    <2>10. \A k \in Job : k # j /\ ~InChannel(k) => ~InChannel(k)'
      BY <2>2, <2>3 DEF InChannel
    <2> QED
      BY <1>a, <1>b, <2>1, <2>5, <2>6, <2>7, <2>9, <2>10 DEF PlaceInv
  <1>8. ASSUME NEW j \in Job, Send(j), ~(Len(channel) < QueueLimit) PROVE PlaceInv'
    BY <1>8, <1>a, <1>b, SendFullFacts DEF PlaceInv, Sent, InChannel, CallInv
  <1>9. ASSUME NEW j \in Job, CountAccepted(j) PROVE PlaceInv'
    BY <1>9, <1>a, <1>b, CountAcceptedFacts DEF PlaceInv, Sent, InChannel, CallInv
  <1>10. ASSUME NEW j \in Job, Unlock(j), call[j] = "accepted" PROVE PlaceInv'
    BY <1>10, <1>a, <1>b, UnlockAcceptedFacts DEF PlaceInv, Sent, InChannel, CallInv
  <1>11. ASSUME NEW j \in Job, Unlock(j), call[j] = "refused" PROVE PlaceInv'
    BY <1>11, <1>a, <1>b, UnlockRefusedFacts DEF PlaceInv, Sent, InChannel, CallInv
  <1>12. ASSUME NEW j \in Job, Release(j) PROVE PlaceInv'
    BY <1>12, <1>a, <1>b, ReleaseFacts DEF PlaceInv, Sent, InChannel, CallInv
  <1>13. ASSUME NEW j \in Job, Return(j) PROVE PlaceInv'
    BY <1>13, <1>a, <1>b, ReturnFacts DEF PlaceInv, Sent, InChannel, CallInv
  <1>14. ASSUME NEW j \in Job, Credit(j) PROVE PlaceInv'
    BY <1>14, <1>a, <1>b, CreditFacts DEF PlaceInv, Sent, InChannel, CallInv
  <1>15. ASSUME NEW j \in Job, DropRejected(j), call[j] = "drop" PROVE PlaceInv'
    BY <1>15, <1>a, <1>b, DropFacts DEF PlaceInv, Sent, InChannel, CallInv
  <1>16. ASSUME NEW j \in Job, DropRejected(j), call[j] = "retire" PROVE PlaceInv'
    BY <1>16, <1>a, <1>b, DroppedFacts DEF PlaceInv, Sent, InChannel, CallInv
  <1>17. ASSUME NEW j \in Job, Reject(j) PROVE PlaceInv'
    BY <1>17, <1>a, <1>b, RejectFacts DEF PlaceInv, Sent, InChannel, CallInv
  <1>18. ASSUME NEW j \in Job, Leave(j), call[j] = "leave" PROVE PlaceInv'
    BY <1>18, <1>a, <1>b, FreeFacts DEF PlaceInv, Sent, InChannel, CallInv
  <1>19. ASSUME NEW j \in Job, Leave(j), call[j] = "freed" PROVE PlaceInv'
    BY <1>19, <1>a, <1>b, FreedFacts DEF PlaceInv, Sent, InChannel, CallInv
  <1>20. ASSUME NEW j \in Job, DropGuard(j), guard[j] = "finish" PROVE PlaceInv'
    BY <1>20, <1>a, <1>b, GuardFinishFacts DEF PlaceInv, Sent, InChannel, CallInv
  <1>21. ASSUME NEW j \in Job, DropGuard(j), guard[j] = "resident" PROVE PlaceInv'
    BY <1>21, <1>a, <1>b, GuardResidentFacts DEF PlaceInv, Sent, InChannel, CallInv
  <1>22. ASSUME NEW j \in Job, DropGuard(j), guard[j] = "pending" PROVE PlaceInv'
    BY <1>22, <1>a, <1>b, GuardPendingFacts DEF PlaceInv, Sent, InChannel, CallInv
  <1>23. ASSUME NEW w \in Worker, Receive(w) PROVE PlaceInv'
    <2>1. /\ channel # <<>> /\ channel' = Tail(channel) /\ worker[w].at = "recv"
          /\ worker'[w].at = "claim" /\ worker'[w].job = Head(channel)
          /\ \A v \in Worker : v # w => worker'[v] = worker[v]
          /\ UNCHANGED <<call, guard, marked, capture>>
      BY <1>23, ReceiveFacts
    <2>2. /\ Len(channel') = Len(channel) - 1 /\ Head(channel) = channel[1] /\ 1 \in 1..Len(channel)
          /\ \A i \in 1..Len(channel') : channel'[i] = channel[i + 1] /\ i + 1 \in 1..Len(channel)
          /\ Len(channel') \in Nat
      BY <1>a, <2>1
    <2>3. \A i, k \in 1..Len(channel') : channel'[i] = channel'[k] => i = k
      <3>1. \A i, k \in 1..Len(channel') : channel[i + 1] = channel[k + 1] => i + 1 = k + 1
        BY <2>2 DEF PlaceInv
      <3> QED
        BY <2>2, <3>1
    <2>4. \A i \in 1..Len(channel') : channel'[i] # channel[1]
      <3>1. \A i \in 1..Len(channel') : i + 1 # 1
        BY <2>2
      <3> QED
        BY <2>2, <3>1 DEF PlaceInv
    <2>5. \A v \in Worker : v # w => worker[v].job # channel[1]
      BY <1>a, <2>2 DEF PlaceInv, InChannel
    <2>6. channel[1] \in Job /\ Sent(channel[1]) /\ guard[channel[1]] = "live" /\ channel[1] # NoJob
      BY <1>a, <2>2 DEF PlaceInv
    <2>7. \A k : Sent(k)' <=> Sent(k)
      BY <2>1 DEF Sent
    <2>8. (\A i \in 1..Len(channel) : Sent(channel[i]) /\ guard[channel[i]] = "live")'
      BY <2>1, <2>2, <2>7 DEF PlaceInv
    <2>9. /\ \A k : ~InChannel(k) => ~InChannel(k)'
          /\ \A i \in 1..Len(channel') : channel'[i] # channel[1]
      BY <2>2, <2>4 DEF InChannel
    <2>10. \A v \in Worker : worker'[v].at = "recv" <=> worker'[v].job = NoJob
      BY <2>1, <2>2, <2>6 DEF PlaceInv
    <2>11. \A v, u \in Worker : worker'[v].job = worker'[u].job /\ worker'[u].job # NoJob => v = u
      BY <2>1, <2>2, <2>5 DEF PlaceInv
    <2>12. (\A v \in Worker : worker[v].job # NoJob =>
             /\ Sent(worker[v].job) /\ ~InChannel(worker[v].job)
             /\ worker[v].at # "retire" => guard[worker[v].job] = "live"
             /\ worker[v].at = "retire" =>
                  guard[worker[v].job] \in {"finish", "resident", "pending", "gone"}
             /\ worker[v].at \in {"send", "idle", "retire"} => worker[v].job \notin capture)'
      <3> SUFFICES ASSUME NEW v \in Worker, worker'[v].job # NoJob
                   PROVE  (/\ Sent(worker[v].job) /\ ~InChannel(worker[v].job)
                           /\ worker[v].at # "retire" => guard[worker[v].job] = "live"
                           /\ worker[v].at = "retire" =>
                                guard[worker[v].job] \in {"finish", "resident", "pending", "gone"}
                           /\ worker[v].at \in {"send", "idle", "retire"} =>
                                worker[v].job \notin capture)'
        OBVIOUS
      <3>1. CASE v = w
        BY <2>1, <2>2, <2>6, <2>9, <3>1 DEF Sent, InChannel
      <3>2. CASE v # w
        <4>1. worker'[v] = worker[v]
          BY <2>1, <3>2
        <4>2. ~InChannel(worker[v].job)'
          BY <2>9, <4>1 DEF PlaceInv, InChannel
        <4> QED
          BY <2>1, <4>1, <4>2 DEF PlaceInv, Sent
      <3> QED
        BY <3>1, <3>2
    <2> QED
      BY <2>3, <2>8, <2>10, <2>11, <2>12 DEF PlaceInv
  <1>24. ASSUME NEW w \in Worker, CountTurn(w), worker[w].at = "claim" PROVE PlaceInv'
    BY <1>24, <1>a, <1>b, ClaimFacts DEF PlaceInv, Sent, InChannel
  <1>25. ASSUME NEW w \in Worker, CountTurn(w), worker[w].at = "dequeue" PROVE PlaceInv'
    BY <1>25, <1>a, <1>b, DequeueFacts DEF PlaceInv, Sent, InChannel
  <1>26. ASSUME NEW w \in Worker, CountTurn(w), worker[w].at = "idle" PROVE PlaceInv'
    BY <1>26, <1>a, <1>b, IdleFacts DEF PlaceInv, Sent, InChannel
  <1>27. ASSUME NEW w \in Worker, Execute(w) PROVE PlaceInv'
    BY <1>27, <1>a, <1>b, ExecuteFacts DEF PlaceInv, Sent, InChannel
  <1>28. ASSUME NEW w \in Worker, OperationReturns(w) PROVE PlaceInv'
    BY <1>28, <1>a, <1>b, OperationReturnsFacts DEF PlaceInv, Sent, InChannel
  <1>29. ASSUME NEW w \in Worker, Respond(w) PROVE PlaceInv'
    BY <1>29, <1>a, <1>b, RespondFacts DEF PlaceInv, Sent, InChannel
  <1>30. ASSUME NEW w \in Worker, EndTurn(w) PROVE PlaceInv'
    BY <1>30, <1>a, <1>b, EndTurnFacts DEF PlaceInv, Sent, InChannel
  <1>31. CASE Quiet
    BY <1>31, QuietFacts DEF PlaceInv, Sent, InChannel
  <1>33. ASSUME NEW j \in Job, Help(j) \/ HelpedReturns(j) PROVE PlaceInv'
    BY <1>33, <1>a, <1>b, HelpFacts DEF PlaceInv, Sent, InChannel, CallInv
  <1>32. CASE UNCHANGED vars
    BY <1>32 DEF vars, PlaceInv, Sent, InChannel
  <1> QED
    BY Starts, <1>1, <1>2, <1>3, <1>4, <1>5, <1>6, <1>7, <1>8, <1>9, <1>10, <1>11,
       <1>12, <1>13, <1>14, <1>15, <1>16, <1>17, <1>18, <1>19, <1>20, <1>21, <1>22,
       <1>23, <1>24, <1>25, <1>26, <1>27, <1>28, <1>29, <1>30, <1>31, <1>32, <1>33
    DEF Next, CallStep, WorkerStep, Quiet

-----------------------------------------------------------------------------
(* The counters *)

\* One more.
LEMMA Gain ==
    ASSUME NEW S, NEW k, NEW x, Counts(S, k), x \notin S
    PROVE  Counts(S \cup {x}, k + 1)
  BY FS_AddElement, FS_CardinalityType DEF Counts

\* One less, and not below zero.
LEMMA Lose ==
    ASSUME NEW S, NEW k, NEW x, Counts(S, k), x \in S
    PROVE  Counts(S \ {x}, k - 1)
  BY FS_RemoveElement, FS_CardinalityType DEF Counts

\* A count is zero when there is nobody.
LEMMA CountZero ==
    ASSUME NEW S, NEW k, Counts(S, k)
    PROVE  k \in Nat /\ (k = 0 <=> S = {}) /\ (S # {} => k > 0)
  BY FS_EmptySet, FS_CardinalityType DEF Counts

\* Every update of a counter goes with a move of a job or a worker.
LEMMA CountStep ==
    ASSUME ShapeInv, CallInv, PlaceInv, CountInv, [Next]_vars
    PROVE  CountInv'
  <1>a. /\ channel \in Seq(Job) /\ Len(channel) \in Nat
        /\ \A w \in Worker : worker[w].job \in Job \cup {NoJob}
        /\ NoJob \notin Job /\ marked \subseteq Job
        /\ parent \in [Job -> Task \cup {NoTask}] /\ NoTask \notin Task
    BY PoolAssumption DEF ShapeInv
  <1>b. \A j \in Job : ~Sent(j) => ~InChannel(j) /\ \A w \in Worker : worker[w].job # j
    BY <1>a DEF PlaceInv, InChannel
  <1>1. ASSUME NEW j \in Job, Enter(j) PROVE CountInv'
    <2>0. ~Sent(j) => ~InChannel(j) /\ \A w \in Worker : worker[w].job # j
      BY <1>b
    <2>1. Queued' = Queued
      BY <1>1, <1>a, <2>0, EnterFacts DEF Queued, InChannel, CallInv, Sent
    <2>2. Running' = Running
      BY <1>1, EnterFacts DEF Running
    <2>3. Resident' = Resident
      BY <1>1, EnterFacts DEF Resident
    <2>4. Accepted' = Accepted
      BY <1>1, <1>a, <2>0, EnterFacts DEF Accepted, CallInv, Sent
    <2>5. Finished' = Finished
      BY <1>1, EnterFacts DEF Finished
    <2>6. \A t \in Task : Owing(t)' = Owing(t) /\ pendingBlocking'[t] = pendingBlocking[t]
      BY <1>1, <1>a, <2>0, EnterFacts DEF Owing, CallInv, Sent
    <2>7. \A t \in Task : Counts(Owing(t)', pendingBlocking'[t])
      BY <2>6 DEF CountInv
    <2>8. n' = n
      BY <1>1, EnterFacts
    <2> QED
      BY <2>1, <2>2, <2>3, <2>4, <2>5, <2>7, <2>8 DEF CountInv, Counts
  <1>2. ASSUME NEW j \in Job, Check(j) PROVE CountInv'
    <2>0. ~Sent(j) => ~InChannel(j) /\ \A w \in Worker : worker[w].job # j
      BY <1>b
    <2>1. Queued' = Queued
      BY <1>2, <1>a, <2>0, CheckFacts DEF Queued, InChannel, CallInv, Sent
    <2>2. Running' = Running
      BY <1>2, CheckFacts DEF Running
    <2>3. Resident' = Resident
      BY <1>2, CheckFacts DEF Resident
    <2>4. Accepted' = Accepted
      BY <1>2, <1>a, <2>0, CheckFacts DEF Accepted, CallInv, Sent
    <2>5. Finished' = Finished
      BY <1>2, CheckFacts DEF Finished
    <2>6. \A t \in Task : Owing(t)' = Owing(t) /\ pendingBlocking'[t] = pendingBlocking[t]
      BY <1>2, <1>a, <2>0, CheckFacts DEF Owing, CallInv, Sent
    <2>7. \A t \in Task : Counts(Owing(t)', pendingBlocking'[t])
      BY <2>6 DEF CountInv
    <2>8. n' = n
      BY <1>2, CheckFacts
    <2> QED
      BY <2>1, <2>2, <2>3, <2>4, <2>5, <2>7, <2>8 DEF CountInv, Counts
  <1>3. ASSUME NEW j \in Job, Lock(j) PROVE CountInv'
    <2>0. ~Sent(j) => ~InChannel(j) /\ \A w \in Worker : worker[w].job # j
      BY <1>b
    <2>1. Queued' = Queued
      BY <1>3, <1>a, <2>0, LockFacts DEF Queued, InChannel, CallInv, Sent
    <2>2. Running' = Running
      BY <1>3, LockFacts DEF Running
    <2>3. Resident' = Resident
      BY <1>3, LockFacts DEF Resident
    <2>4. Accepted' = Accepted
      BY <1>3, <1>a, <2>0, LockFacts DEF Accepted, CallInv, Sent
    <2>5. Finished' = Finished
      BY <1>3, LockFacts DEF Finished
    <2>6. \A t \in Task : Owing(t)' = Owing(t) /\ pendingBlocking'[t] = pendingBlocking[t]
      BY <1>3, <1>a, <2>0, LockFacts DEF Owing, CallInv, Sent
    <2>7. \A t \in Task : Counts(Owing(t)', pendingBlocking'[t])
      BY <2>6 DEF CountInv
    <2>8. n' = n
      BY <1>3, LockFacts
    <2> QED
      BY <2>1, <2>2, <2>3, <2>4, <2>5, <2>7, <2>8 DEF CountInv, Counts
  <1>4. ASSUME NEW j \in Job, NewGuard(j), call[j] = "pend" PROVE CountInv'
    <2>0. ~Sent(j) => ~InChannel(j) /\ \A w \in Worker : worker[w].job # j
      BY <1>b
    <2>1. Queued' = Queued
      BY <1>4, <1>a, <2>0, PendFacts DEF Queued, InChannel, CallInv, Sent
    <2>2. Running' = Running
      BY <1>4, PendFacts DEF Running
    <2>3. Resident' = Resident
      BY <1>4, PendFacts DEF Resident
    <2>4. Accepted' = Accepted
      BY <1>4, <1>a, <2>0, PendFacts DEF Accepted, CallInv, Sent
    <2>5. Finished' = Finished
      BY <1>4, PendFacts DEF Finished
    <2>7. ASSUME NEW t \in Task PROVE Counts(Owing(t)', pendingBlocking'[t])
      <3>0. Counts(Owing(t), pendingBlocking[t])
        BY DEF CountInv
      <3>1. CASE t = parent[j]
        <4>1. j \notin Owing(t) /\ Owing(t)' = Owing(t) \cup {j}
          BY <1>4, <1>a, <3>1, PendFacts DEF Owing, CallInv
        <4>2. pendingBlocking'[t] = pendingBlocking[t] + 1
          BY <1>4, <3>1, PendFacts
        <4> QED
          BY <3>0, <4>1, <4>2, Gain
      <3>2. CASE t # parent[j]
        <4>1. Owing(t)' = Owing(t) /\ pendingBlocking'[t] = pendingBlocking[t]
          BY <1>4, <1>a, <3>2, PendFacts DEF Owing
        <4> QED
          BY <3>0, <4>1
      <3> QED
        BY <3>1, <3>2
    <2>8. n' = n
      BY <1>4, PendFacts
    <2> QED
      BY <2>1, <2>2, <2>3, <2>4, <2>5, <2>7, <2>8 DEF CountInv, Counts
  <1>5. ASSUME NEW j \in Job, NewGuard(j), call[j] = "reside" PROVE CountInv'
    <2>0. ~Sent(j) => ~InChannel(j) /\ \A w \in Worker : worker[w].job # j
      BY <1>b
    <2>1. Queued' = Queued
      BY <1>5, <1>a, <2>0, ResideFacts DEF Queued, InChannel, CallInv, Sent
    <2>2. Running' = Running
      BY <1>5, ResideFacts DEF Running
    <2>3. Counts(Resident', n'.resident)
      <3>1. j \notin Resident /\ Resident' = Resident \cup {j}
        BY <1>5, <1>a, <2>0, ResideFacts DEF Resident, CallInv, Sent
      <3>2. Counts(Resident, n.resident) /\ n'.resident = n.resident + 1
        BY <1>5, ResideFacts DEF CountInv
      <3> QED
        BY <3>1, <3>2, Gain
    <2>4. Accepted' = Accepted
      BY <1>5, <1>a, <2>0, ResideFacts DEF Accepted, CallInv, Sent
    <2>5. Finished' = Finished
      BY <1>5, <1>a, <2>0, ResideFacts DEF Finished, CallInv, Sent
    <2>6. \A t \in Task : Owing(t)' = Owing(t) /\ pendingBlocking'[t] = pendingBlocking[t]
      BY <1>5, <1>a, <2>0, ResideFacts DEF Owing, CallInv, Sent
    <2>7. \A t \in Task : Counts(Owing(t)', pendingBlocking'[t])
      BY <2>6 DEF CountInv
    <2>8. /\ n'.queued = n.queued /\ n'.running = n.running /\ n'.accepted = n.accepted
          /\ n'.finished = n.finished
      BY <1>5, ResideFacts
    <2> QED
      BY <2>1, <2>2, <2>3, <2>4, <2>5, <2>7, <2>8 DEF CountInv, Counts
  <1>6. ASSUME NEW j \in Job, Reserve(j) PROVE CountInv'
    <2>0. ~Sent(j) => ~InChannel(j) /\ \A w \in Worker : worker[w].job # j
      BY <1>b
    <2>1. Counts(Queued', n'.queued)
      <3>1. j \notin Queued /\ Queued' = Queued \cup {j}
        BY <1>6, <1>a, <2>0, ReserveFacts DEF Queued, InChannel, CallInv, Sent
      <3>2. Counts(Queued, n.queued) /\ n'.queued = n.queued + 1
        BY <1>6, ReserveFacts DEF CountInv
      <3> QED
        BY <3>1, <3>2, Gain
    <2>2. Running' = Running
      BY <1>6, ReserveFacts DEF Running
    <2>3. Resident' = Resident
      BY <1>6, ReserveFacts DEF Resident
    <2>4. Accepted' = Accepted
      BY <1>6, <1>a, <2>0, ReserveFacts DEF Accepted, CallInv, Sent
    <2>5. Finished' = Finished
      BY <1>6, <1>a, <2>0, ReserveFacts DEF Finished, CallInv, Sent
    <2>6. \A t \in Task : Owing(t)' = Owing(t) /\ pendingBlocking'[t] = pendingBlocking[t]
      BY <1>6, <1>a, <2>0, ReserveFacts DEF Owing, CallInv, Sent
    <2>7. \A t \in Task : Counts(Owing(t)', pendingBlocking'[t])
      BY <2>6 DEF CountInv
    <2>8. /\ n'.running = n.running /\ n'.resident = n.resident
          /\ n'.accepted = n.accepted /\ n'.finished = n.finished
      BY <1>6, ReserveFacts
    <2> QED
      BY <2>1, <2>2, <2>3, <2>4, <2>5, <2>7, <2>8 DEF CountInv, Counts
  <1>7. ASSUME NEW j \in Job, Send(j), Len(channel) < QueueLimit PROVE CountInv'
    <2>0. ~Sent(j) => ~InChannel(j) /\ \A w \in Worker : worker[w].job # j
      BY <1>b
    <2>1. Queued' = Queued
      <3>1. call[j] = "send" /\ j \in Queued
        BY <1>7, SendFitsFacts DEF Queued
      <3>2. InChannel(j)'
        BY <1>7, SendFitsFacts DEF InChannel
      <3>3. \A k \in Job : k # j => (InChannel(k)' <=> InChannel(k)) /\ call'[k] = call[k]
        BY <1>7, SendFitsFacts DEF InChannel
      <3>4. worker' = worker
        BY <1>7, SendFitsFacts
      <3> QED
        BY <3>1, <3>2, <3>3, <3>4 DEF Queued
    <2>2. Running' = Running
      BY <1>7, SendFitsFacts DEF Running
    <2>3. Resident' = Resident
      BY <1>7, SendFitsFacts DEF Resident
    <2>4. Accepted' = Accepted
      BY <1>7, <1>a, <2>0, SendFitsFacts DEF Accepted, CallInv, Sent
    <2>5. Finished' = Finished
      BY <1>7, SendFitsFacts DEF Finished
    <2>6. \A t \in Task : Owing(t)' = Owing(t) /\ pendingBlocking'[t] = pendingBlocking[t]
      BY <1>7, <1>a, <2>0, SendFitsFacts DEF Owing, CallInv, Sent
    <2>7. \A t \in Task : Counts(Owing(t)', pendingBlocking'[t])
      BY <2>6 DEF CountInv
    <2>8. n' = n
      BY <1>7, SendFitsFacts
    <2> QED
      BY <2>1, <2>2, <2>3, <2>4, <2>5, <2>7, <2>8 DEF CountInv, Counts
  <1>8. ASSUME NEW j \in Job, Send(j), ~(Len(channel) < QueueLimit) PROVE CountInv'
    <2>0. ~Sent(j) => ~InChannel(j) /\ \A w \in Worker : worker[w].job # j
      BY <1>b
    <2>1. Queued' = Queued
      BY <1>8, <1>a, <2>0, SendFullFacts DEF Queued, InChannel, CallInv, Sent
    <2>2. Running' = Running
      BY <1>8, SendFullFacts DEF Running
    <2>3. Resident' = Resident
      BY <1>8, SendFullFacts DEF Resident
    <2>4. Accepted' = Accepted
      BY <1>8, <1>a, <2>0, SendFullFacts DEF Accepted, CallInv, Sent
    <2>5. Finished' = Finished
      BY <1>8, <1>a, <2>0, SendFullFacts DEF Finished, CallInv, Sent
    <2>6. \A t \in Task : Owing(t)' = Owing(t) /\ pendingBlocking'[t] = pendingBlocking[t]
      BY <1>8, <1>a, <2>0, SendFullFacts, SMTT(60) DEF Owing, CallInv, Sent
    <2>7. \A t \in Task : Counts(Owing(t)', pendingBlocking'[t])
      BY <2>6 DEF CountInv
    <2>8. /\ n'.queued = n.queued /\ n'.running = n.running /\ n'.resident = n.resident
          /\ n'.accepted = n.accepted /\ n'.finished = n.finished
      BY <1>8, SendFullFacts
    <2> QED
      BY <2>1, <2>2, <2>3, <2>4, <2>5, <2>7, <2>8 DEF CountInv, Counts
  <1>9. ASSUME NEW j \in Job, CountAccepted(j) PROVE CountInv'
    <2>0. ~Sent(j) => ~InChannel(j) /\ \A w \in Worker : worker[w].job # j
      BY <1>b
    <2>1. Queued' = Queued
      BY <1>9, <1>a, <2>0, CountAcceptedFacts DEF Queued, InChannel, CallInv, Sent
    <2>2. Running' = Running
      BY <1>9, CountAcceptedFacts DEF Running
    <2>3. Resident' = Resident
      BY <1>9, CountAcceptedFacts DEF Resident
    <2>4. Counts(Accepted', n'.accepted)
      <3>1. j \notin Accepted /\ Accepted' = Accepted \cup {j}
        BY <1>9, <1>a, <2>0, CountAcceptedFacts DEF Accepted, CallInv, Sent
      <3>2. Counts(Accepted, n.accepted) /\ n'.accepted = n.accepted + 1
        BY <1>9, CountAcceptedFacts DEF CountInv
      <3> QED
        BY <3>1, <3>2, Gain
    <2>5. Finished' = Finished
      BY <1>9, CountAcceptedFacts DEF Finished
    <2>6. \A t \in Task : Owing(t)' = Owing(t) /\ pendingBlocking'[t] = pendingBlocking[t]
      BY <1>9, <1>a, <2>0, CountAcceptedFacts DEF Owing, CallInv, Sent
    <2>7. \A t \in Task : Counts(Owing(t)', pendingBlocking'[t])
      BY <2>6 DEF CountInv
    <2>8. /\ n'.queued = n.queued /\ n'.running = n.running /\ n'.resident = n.resident
          /\ n'.finished = n.finished
      BY <1>9, CountAcceptedFacts
    <2> QED
      BY <2>1, <2>2, <2>3, <2>4, <2>5, <2>7, <2>8 DEF CountInv, Counts
  <1>10. ASSUME NEW j \in Job, Unlock(j), call[j] = "accepted" PROVE CountInv'
    <2>0. ~Sent(j) => ~InChannel(j) /\ \A w \in Worker : worker[w].job # j
      BY <1>b
    <2>1. Queued' = Queued
      BY <1>10, <1>a, <2>0, UnlockAcceptedFacts DEF Queued, InChannel, CallInv, Sent
    <2>2. Running' = Running
      BY <1>10, UnlockAcceptedFacts DEF Running
    <2>3. Resident' = Resident
      BY <1>10, UnlockAcceptedFacts DEF Resident
    <2>4. Accepted' = Accepted
      BY <1>10, <1>a, <2>0, UnlockAcceptedFacts DEF Accepted, CallInv, Sent
    <2>5. Finished' = Finished
      BY <1>10, UnlockAcceptedFacts DEF Finished
    <2>6. \A t \in Task : Owing(t)' = Owing(t) /\ pendingBlocking'[t] = pendingBlocking[t]
      BY <1>10, <1>a, <2>0, UnlockAcceptedFacts DEF Owing, CallInv, Sent
    <2>7. \A t \in Task : Counts(Owing(t)', pendingBlocking'[t])
      BY <2>6 DEF CountInv
    <2>8. n' = n
      BY <1>10, UnlockAcceptedFacts
    <2> QED
      BY <2>1, <2>2, <2>3, <2>4, <2>5, <2>7, <2>8 DEF CountInv, Counts
  <1>11. ASSUME NEW j \in Job, Unlock(j), call[j] = "refused" PROVE CountInv'
    <2>0. ~Sent(j) => ~InChannel(j) /\ \A w \in Worker : worker[w].job # j
      BY <1>b
    <2>1. Queued' = Queued
      BY <1>11, <1>a, <2>0, UnlockRefusedFacts DEF Queued, InChannel, CallInv, Sent
    <2>2. Running' = Running
      BY <1>11, UnlockRefusedFacts DEF Running
    <2>3. Resident' = Resident
      BY <1>11, UnlockRefusedFacts DEF Resident
    <2>4. Accepted' = Accepted
      BY <1>11, <1>a, <2>0, UnlockRefusedFacts DEF Accepted, CallInv, Sent
    <2>5. Finished' = Finished
      BY <1>11, UnlockRefusedFacts DEF Finished
    <2>6. \A t \in Task : Owing(t)' = Owing(t) /\ pendingBlocking'[t] = pendingBlocking[t]
      BY <1>11, <1>a, <2>0, UnlockRefusedFacts DEF Owing, CallInv, Sent
    <2>7. \A t \in Task : Counts(Owing(t)', pendingBlocking'[t])
      BY <2>6 DEF CountInv
    <2>8. n' = n
      BY <1>11, UnlockRefusedFacts
    <2> QED
      BY <2>1, <2>2, <2>3, <2>4, <2>5, <2>7, <2>8 DEF CountInv, Counts
  <1>12. ASSUME NEW j \in Job, Release(j) PROVE CountInv'
    <2>0. ~Sent(j) => ~InChannel(j) /\ \A w \in Worker : worker[w].job # j
      BY <1>b
    <2>1. Queued' = Queued
      BY <1>12, <1>a, <2>0, ReleaseFacts DEF Queued, InChannel, CallInv, Sent
    <2>2. Running' = Running
      BY <1>12, ReleaseFacts DEF Running
    <2>3. Resident' = Resident
      BY <1>12, ReleaseFacts DEF Resident
    <2>4. Accepted' = Accepted
      BY <1>12, <1>a, <2>0, ReleaseFacts DEF Accepted, CallInv, Sent
    <2>5. Finished' = Finished
      BY <1>12, ReleaseFacts DEF Finished
    <2>6. \A t \in Task : Owing(t)' = Owing(t) /\ pendingBlocking'[t] = pendingBlocking[t]
      BY <1>12, <1>a, <2>0, ReleaseFacts DEF Owing, CallInv, Sent
    <2>7. \A t \in Task : Counts(Owing(t)', pendingBlocking'[t])
      BY <2>6 DEF CountInv
    <2>8. n' = n
      BY <1>12, ReleaseFacts
    <2> QED
      BY <2>1, <2>2, <2>3, <2>4, <2>5, <2>7, <2>8 DEF CountInv, Counts
  <1>13. ASSUME NEW j \in Job, Return(j) PROVE CountInv'
    <2>0. ~Sent(j) => ~InChannel(j) /\ \A w \in Worker : worker[w].job # j
      BY <1>b
    <2>1. Queued' = Queued
      BY <1>13, <1>a, <2>0, ReturnFacts DEF Queued, InChannel, CallInv, Sent
    <2>2. Running' = Running
      BY <1>13, ReturnFacts DEF Running
    <2>3. Resident' = Resident
      BY <1>13, ReturnFacts DEF Resident
    <2>4. Accepted' = Accepted
      BY <1>13, <1>a, <2>0, ReturnFacts DEF Accepted, CallInv, Sent
    <2>5. Finished' = Finished
      BY <1>13, ReturnFacts DEF Finished
    <2>6. \A t \in Task : Owing(t)' = Owing(t) /\ pendingBlocking'[t] = pendingBlocking[t]
      BY <1>13, <1>a, <2>0, ReturnFacts DEF Owing, CallInv, Sent
    <2>7. \A t \in Task : Counts(Owing(t)', pendingBlocking'[t])
      BY <2>6 DEF CountInv
    <2>8. n' = n
      BY <1>13, ReturnFacts
    <2> QED
      BY <2>1, <2>2, <2>3, <2>4, <2>5, <2>7, <2>8 DEF CountInv, Counts
  <1>14. ASSUME NEW j \in Job, Credit(j) PROVE CountInv'
    <2>0. ~Sent(j) => ~InChannel(j) /\ \A w \in Worker : worker[w].job # j
      BY <1>b
    <2>1. Counts(Queued', n'.queued)
      <3>1. j \in Queued /\ Queued' = Queued \ {j}
        BY <1>14, <1>a, <2>0, CreditFacts DEF Queued, InChannel, CallInv, Sent
      <3>2. Counts(Queued, n.queued) /\ n'.queued = n.queued - 1
        BY <1>14, CreditFacts DEF CountInv
      <3> QED
        BY <3>1, <3>2, Lose
    <2>2. Running' = Running
      BY <1>14, CreditFacts DEF Running
    <2>3. Resident' = Resident
      BY <1>14, CreditFacts DEF Resident
    <2>4. Accepted' = Accepted
      BY <1>14, <1>a, <2>0, CreditFacts DEF Accepted, CallInv, Sent
    <2>5. Finished' = Finished
      BY <1>14, CreditFacts DEF Finished
    <2>6. \A t \in Task : Owing(t)' = Owing(t) /\ pendingBlocking'[t] = pendingBlocking[t]
      BY <1>14, <1>a, <2>0, CreditFacts DEF Owing, CallInv, Sent
    <2>7. \A t \in Task : Counts(Owing(t)', pendingBlocking'[t])
      BY <2>6 DEF CountInv
    <2>8. /\ n'.running = n.running /\ n'.resident = n.resident
          /\ n'.accepted = n.accepted /\ n'.finished = n.finished
      BY <1>14, CreditFacts
    <2> QED
      BY <2>1, <2>2, <2>3, <2>4, <2>5, <2>7, <2>8 DEF CountInv, Counts
  <1>15. ASSUME NEW j \in Job, DropRejected(j), call[j] = "drop" PROVE CountInv'
    <2>0. ~Sent(j) => ~InChannel(j) /\ \A w \in Worker : worker[w].job # j
      BY <1>b
    <2>1. Queued' = Queued
      BY <1>15, <1>a, <2>0, DropFacts DEF Queued, InChannel, CallInv, Sent
    <2>2. Running' = Running
      BY <1>15, DropFacts DEF Running
    <2>3. Resident' = Resident
      BY <1>15, <1>a, <2>0, DropFacts DEF Resident, CallInv, Sent
    <2>4. Accepted' = Accepted
      BY <1>15, <1>a, <2>0, DropFacts DEF Accepted, CallInv, Sent
    <2>5. Finished' = Finished
      BY <1>15, <1>a, <2>0, DropFacts DEF Finished, CallInv, Sent
    <2>6. \A t \in Task : Owing(t)' = Owing(t) /\ pendingBlocking'[t] = pendingBlocking[t]
      BY <1>15, <1>a, <2>0, DropFacts DEF Owing, CallInv, Sent
    <2>7. \A t \in Task : Counts(Owing(t)', pendingBlocking'[t])
      BY <2>6 DEF CountInv
    <2>8. n' = n
      BY <1>15, DropFacts
    <2> QED
      BY <2>1, <2>2, <2>3, <2>4, <2>5, <2>7, <2>8 DEF CountInv, Counts
  <1>16. ASSUME NEW j \in Job, DropRejected(j), call[j] = "retire" PROVE CountInv'
    <2>0. ~Sent(j) => ~InChannel(j) /\ \A w \in Worker : worker[w].job # j
      BY <1>b
    <2>1. Queued' = Queued
      BY <1>16, <1>a, <2>0, DroppedFacts DEF Queued, InChannel, CallInv, Sent
    <2>2. Running' = Running
      BY <1>16, DroppedFacts DEF Running
    <2>3. Resident' = Resident
      BY <1>16, DroppedFacts DEF Resident
    <2>4. Accepted' = Accepted
      BY <1>16, <1>a, <2>0, DroppedFacts DEF Accepted, CallInv, Sent
    <2>5. Finished' = Finished
      BY <1>16, DroppedFacts DEF Finished
    <2>6. \A t \in Task : Owing(t)' = Owing(t) /\ pendingBlocking'[t] = pendingBlocking[t]
      BY <1>16, <1>a, <2>0, DroppedFacts DEF Owing, CallInv, Sent
    <2>7. \A t \in Task : Counts(Owing(t)', pendingBlocking'[t])
      BY <2>6 DEF CountInv
    <2>8. n' = n
      BY <1>16, DroppedFacts
    <2> QED
      BY <2>1, <2>2, <2>3, <2>4, <2>5, <2>7, <2>8 DEF CountInv, Counts
  <1>17. ASSUME NEW j \in Job, Reject(j) PROVE CountInv'
    <2>0. ~Sent(j) => ~InChannel(j) /\ \A w \in Worker : worker[w].job # j
      BY <1>b
    <2>1. Queued' = Queued
      BY <1>17, <1>a, <2>0, RejectFacts DEF Queued, InChannel, CallInv, Sent
    <2>2. Running' = Running
      BY <1>17, RejectFacts DEF Running
    <2>3. Resident' = Resident
      BY <1>17, RejectFacts DEF Resident
    <2>4. Accepted' = Accepted
      BY <1>17, <1>a, <2>0, RejectFacts DEF Accepted, CallInv, Sent
    <2>5. Finished' = Finished
      BY <1>17, RejectFacts DEF Finished
    <2>6. \A t \in Task : Owing(t)' = Owing(t) /\ pendingBlocking'[t] = pendingBlocking[t]
      BY <1>17, <1>a, <2>0, RejectFacts DEF Owing, CallInv, Sent
    <2>7. \A t \in Task : Counts(Owing(t)', pendingBlocking'[t])
      BY <2>6 DEF CountInv
    <2>8. /\ n'.queued = n.queued /\ n'.running = n.running /\ n'.resident = n.resident
          /\ n'.accepted = n.accepted /\ n'.finished = n.finished
      BY <1>17, RejectFacts
    <2> QED
      BY <2>1, <2>2, <2>3, <2>4, <2>5, <2>7, <2>8 DEF CountInv, Counts
  <1>18. ASSUME NEW j \in Job, Leave(j), call[j] = "leave" PROVE CountInv'
    <2>0. ~Sent(j) => ~InChannel(j) /\ \A w \in Worker : worker[w].job # j
      BY <1>b
    <2>1. Queued' = Queued
      BY <1>18, <1>a, <2>0, FreeFacts DEF Queued, InChannel, CallInv, Sent
    <2>2. Running' = Running
      BY <1>18, FreeFacts DEF Running
    <2>3. Resident' = Resident
      BY <1>18, FreeFacts DEF Resident
    <2>4. Accepted' = Accepted
      BY <1>18, <1>a, <2>0, FreeFacts DEF Accepted, CallInv, Sent
    <2>5. Finished' = Finished
      BY <1>18, FreeFacts DEF Finished
    <2>6. \A t \in Task : Owing(t)' = Owing(t) /\ pendingBlocking'[t] = pendingBlocking[t]
      BY <1>18, <1>a, <2>0, FreeFacts DEF Owing, CallInv, Sent
    <2>7. \A t \in Task : Counts(Owing(t)', pendingBlocking'[t])
      BY <2>6 DEF CountInv
    <2>8. n' = n
      BY <1>18, FreeFacts
    <2> QED
      BY <2>1, <2>2, <2>3, <2>4, <2>5, <2>7, <2>8 DEF CountInv, Counts
  <1>19. ASSUME NEW j \in Job, Leave(j), call[j] = "freed" PROVE CountInv'
    <2>0. ~Sent(j) => ~InChannel(j) /\ \A w \in Worker : worker[w].job # j
      BY <1>b
    <2>1. Queued' = Queued
      BY <1>19, <1>a, <2>0, FreedFacts DEF Queued, InChannel, CallInv, Sent
    <2>2. Running' = Running
      BY <1>19, FreedFacts DEF Running
    <2>3. Resident' = Resident
      BY <1>19, FreedFacts DEF Resident
    <2>4. Accepted' = Accepted
      BY <1>19, <1>a, <2>0, FreedFacts DEF Accepted, CallInv, Sent
    <2>5. Finished' = Finished
      BY <1>19, FreedFacts DEF Finished
    <2>6. \A t \in Task : Owing(t)' = Owing(t) /\ pendingBlocking'[t] = pendingBlocking[t]
      BY <1>19, <1>a, <2>0, FreedFacts DEF Owing, CallInv, Sent
    <2>7. \A t \in Task : Counts(Owing(t)', pendingBlocking'[t])
      BY <2>6 DEF CountInv
    <2>8. n' = n
      BY <1>19, FreedFacts
    <2> QED
      BY <2>1, <2>2, <2>3, <2>4, <2>5, <2>7, <2>8 DEF CountInv, Counts
  <1>20. ASSUME NEW j \in Job, DropGuard(j), guard[j] = "finish" PROVE CountInv'
    <2>0. ~Sent(j) => ~InChannel(j) /\ \A w \in Worker : worker[w].job # j
      BY <1>b
    <2>1. Queued' = Queued
      BY <1>20, GuardFinishFacts DEF Queued, InChannel
    <2>2. Running' = Running
      BY <1>20, GuardFinishFacts DEF Running
    <2>3. Resident' = Resident
      BY <1>20, <1>a, <2>0, GuardFinishFacts DEF Resident, CallInv, Sent
    <2>4. Accepted' = Accepted
      BY <1>20, GuardFinishFacts DEF Accepted
    <2>5. Counts(Finished', n'.finished)
      <3>0. Counts(Finished, n.finished)
        BY DEF CountInv
      <3>1. CASE j \in marked
        <4>1. j \notin Finished /\ Finished' = Finished \cup {j} /\ n'.finished = n.finished + 1
          BY <1>20, <1>a, <2>0, GuardFinishFacts, <3>1 DEF Finished
        <4> QED
          BY <3>0, <4>1, Gain
      <3>2. CASE j \notin marked
        <4>1. Finished' = Finished /\ n'.finished = n.finished
          BY <1>20, <1>a, <2>0, GuardFinishFacts, <3>2 DEF Finished
        <4> QED
          BY <3>0, <4>1
      <3> QED
        BY <3>1, <3>2
    <2>6. \A t \in Task : Owing(t)' = Owing(t) /\ pendingBlocking'[t] = pendingBlocking[t]
      BY <1>20, <1>a, <2>0, GuardFinishFacts DEF Owing, CallInv, Sent
    <2>7. \A t \in Task : Counts(Owing(t)', pendingBlocking'[t])
      BY <2>6 DEF CountInv
    <2>8. /\ n'.queued = n.queued /\ n'.running = n.running /\ n'.resident = n.resident
          /\ n'.accepted = n.accepted
      BY <1>20, GuardFinishFacts
    <2> QED
      BY <2>1, <2>2, <2>3, <2>4, <2>5, <2>7, <2>8 DEF CountInv, Counts
  <1>21. ASSUME NEW j \in Job, DropGuard(j), guard[j] = "resident" PROVE CountInv'
    <2>0. ~Sent(j) => ~InChannel(j) /\ \A w \in Worker : worker[w].job # j
      BY <1>b
    <2>1. Queued' = Queued
      BY <1>21, GuardResidentFacts DEF Queued, InChannel
    <2>2. Running' = Running
      BY <1>21, GuardResidentFacts DEF Running
    <2>3. Counts(Resident', n'.resident)
      <3>1. j \in Resident /\ Resident' = Resident \ {j}
        BY <1>21, <1>a, <2>0, GuardResidentFacts DEF Resident, CallInv, Sent
      <3>2. Counts(Resident, n.resident) /\ n'.resident = n.resident - 1
        BY <1>21, GuardResidentFacts DEF CountInv
      <3> QED
        BY <3>1, <3>2, Lose
    <2>4. Accepted' = Accepted
      BY <1>21, GuardResidentFacts DEF Accepted
    <2>5. Finished' = Finished
      BY <1>21, <1>a, <2>0, GuardResidentFacts DEF Finished, CallInv, Sent
    <2>6. \A t \in Task : Owing(t)' = Owing(t) /\ pendingBlocking'[t] = pendingBlocking[t]
      BY <1>21, <1>a, <2>0, GuardResidentFacts DEF Owing, CallInv, Sent
    <2>7. \A t \in Task : Counts(Owing(t)', pendingBlocking'[t])
      BY <2>6 DEF CountInv
    <2>8. /\ n'.queued = n.queued /\ n'.running = n.running /\ n'.accepted = n.accepted
          /\ n'.finished = n.finished
      BY <1>21, GuardResidentFacts
    <2> QED
      BY <2>1, <2>2, <2>3, <2>4, <2>5, <2>7, <2>8 DEF CountInv, Counts
  <1>22. ASSUME NEW j \in Job, DropGuard(j), guard[j] = "pending" PROVE CountInv'
    <2>0. ~Sent(j) => ~InChannel(j) /\ \A w \in Worker : worker[w].job # j
      BY <1>b
    <2>1. Queued' = Queued
      BY <1>22, GuardPendingFacts DEF Queued, InChannel
    <2>2. Running' = Running
      BY <1>22, GuardPendingFacts DEF Running
    <2>3. Resident' = Resident
      BY <1>22, <1>a, <2>0, GuardPendingFacts DEF Resident, CallInv, Sent
    <2>4. Accepted' = Accepted
      BY <1>22, GuardPendingFacts DEF Accepted
    <2>5. Finished' = Finished
      BY <1>22, <1>a, <2>0, GuardPendingFacts DEF Finished, CallInv, Sent
    <2>7. ASSUME NEW t \in Task PROVE Counts(Owing(t)', pendingBlocking'[t])
      <3>0. Counts(Owing(t), pendingBlocking[t])
        BY DEF CountInv
      <3>1. CASE t = parent[j]
        <4>1. j \in Owing(t) /\ Owing(t)' = Owing(t) \ {j}
          BY <1>22, <1>a, <3>1, GuardPendingFacts DEF Owing, CallInv
        <4>2. pendingBlocking'[t] = pendingBlocking[t] - 1
          BY <1>22, <3>1, GuardPendingFacts
        <4> QED
          BY <3>0, <4>1, <4>2, Lose
      <3>2. CASE t # parent[j]
        <4>1. Owing(t)' = Owing(t) /\ pendingBlocking'[t] = pendingBlocking[t]
          BY <1>22, <1>a, <3>2, GuardPendingFacts DEF Owing
        <4> QED
          BY <3>0, <4>1
      <3> QED
        BY <3>1, <3>2
    <2>8. n' = n
      BY <1>22, GuardPendingFacts
    <2> QED
      BY <2>1, <2>2, <2>3, <2>4, <2>5, <2>7, <2>8 DEF CountInv, Counts
  <1>23. ASSUME NEW w \in Worker, Receive(w) PROVE CountInv'
    <2>0. worker[w].at # "recv" => /\ worker[w].job \in Job /\ Sent(worker[w].job)
                                   /\ ~InChannel(worker[w].job)
                                   /\ \A v \in Worker : v # w => worker[v].job # worker[w].job
                                   /\ worker[w].at # "retire" => guard[worker[w].job] = "live"
      BY <1>a DEF PlaceInv
    <2>1. Queued' = Queued
      <3>1. /\ channel # <<>> /\ channel' = Tail(channel) /\ worker[w].at = "recv"
            /\ worker'[w].at = "claim" /\ worker'[w].job = Head(channel)
            /\ \A v \in Worker : v # w => worker'[v] = worker[v]
            /\ UNCHANGED call
        BY <1>23, ReceiveFacts
      <3>2. /\ Len(channel') = Len(channel) - 1 /\ Head(channel) = channel[1]
            /\ 1 \in 1..Len(channel)
            /\ \A i \in 1..Len(channel') : channel'[i] = channel[i + 1] /\ i + 1 \in 1..Len(channel)
            /\ Len(channel') \in Nat
        BY <1>a, <3>1
      <3>3. \A i \in 1..Len(channel) : i # 1 =>
              i - 1 \in 1..Len(channel') /\ channel'[i - 1] = channel[i]
        BY <1>a, <3>2
      <3>4. \A k \in Job : InChannel(k) <=> InChannel(k)' \/ k = channel[1]
        BY <3>2, <3>3, ZenonT(30) DEF InChannel
      <3>5. \A k \in Job : k \in Queued' <=> k \in Queued
        BY <3>1, <3>2, <3>4 DEF Queued
      <3> QED
        BY <3>5 DEF Queued
    <2>2. Running' = Running
      BY <1>23, <1>a, <2>0, ReceiveFacts DEF Running, CallInv, Sent
    <2>3. Resident' = Resident
      BY <1>23, ReceiveFacts DEF Resident
    <2>4. Accepted' = Accepted
      BY <1>23, ReceiveFacts DEF Accepted
    <2>5. Finished' = Finished
      BY <1>23, ReceiveFacts DEF Finished
    <2>6. \A t \in Task : Owing(t)' = Owing(t) /\ pendingBlocking'[t] = pendingBlocking[t]
      BY <1>23, <1>a, <2>0, ReceiveFacts DEF Owing, CallInv, Sent
    <2>7. \A t \in Task : Counts(Owing(t)', pendingBlocking'[t])
      BY <2>6 DEF CountInv
    <2>8. n' = n
      BY <1>23, ReceiveFacts
    <2> QED
      BY <2>1, <2>2, <2>3, <2>4, <2>5, <2>7, <2>8 DEF CountInv, Counts
  <1>24. ASSUME NEW w \in Worker, CountTurn(w), worker[w].at = "claim" PROVE CountInv'
    <2>0. worker[w].at # "recv" => /\ worker[w].job \in Job /\ Sent(worker[w].job)
                                   /\ ~InChannel(worker[w].job)
                                   /\ \A v \in Worker : v # w => worker[v].job # worker[w].job
                                   /\ worker[w].at # "retire" => guard[worker[w].job] = "live"
      BY <1>a DEF PlaceInv
    <2>1. Queued' = Queued
      BY <1>24, <1>a, <2>0, ClaimFacts DEF Queued, InChannel, CallInv, Sent
    <2>2. Counts(Running', n'.running)
      <3>1. w \notin Running /\ Running' = Running \cup {w}
        BY <1>24, <1>a, <2>0, ClaimFacts DEF Running, CallInv, Sent
      <3>2. Counts(Running, n.running) /\ n'.running = n.running + 1
        BY <1>24, ClaimFacts DEF CountInv
      <3> QED
        BY <3>1, <3>2, Gain
    <2>3. Resident' = Resident
      BY <1>24, ClaimFacts DEF Resident
    <2>4. Accepted' = Accepted
      BY <1>24, ClaimFacts DEF Accepted
    <2>5. Finished' = Finished
      BY <1>24, ClaimFacts DEF Finished
    <2>6. \A t \in Task : Owing(t)' = Owing(t) /\ pendingBlocking'[t] = pendingBlocking[t]
      BY <1>24, <1>a, <2>0, ClaimFacts DEF Owing, CallInv, Sent
    <2>7. \A t \in Task : Counts(Owing(t)', pendingBlocking'[t])
      BY <2>6 DEF CountInv
    <2>8. /\ n'.queued = n.queued /\ n'.resident = n.resident
          /\ n'.accepted = n.accepted /\ n'.finished = n.finished
      BY <1>24, ClaimFacts
    <2> QED
      BY <2>1, <2>2, <2>3, <2>4, <2>5, <2>7, <2>8 DEF CountInv, Counts
  <1>25. ASSUME NEW w \in Worker, CountTurn(w), worker[w].at = "dequeue" PROVE CountInv'
    <2>0. worker[w].at # "recv" => /\ worker[w].job \in Job /\ Sent(worker[w].job)
                                   /\ ~InChannel(worker[w].job)
                                   /\ \A v \in Worker : v # w => worker[v].job # worker[w].job
                                   /\ worker[w].at # "retire" => guard[worker[w].job] = "live"
      BY <1>a DEF PlaceInv
    <2>1. Counts(Queued', n'.queued)
      <3>1. worker[w].job \in Queued /\ Queued' = Queued \ {worker[w].job}
        <4>1. /\ worker[w].job \in Job /\ ~InChannel(worker[w].job)
              /\ \A v \in Worker : v # w => worker[v].job # worker[w].job
              /\ call[worker[w].job] \notin {"send", "refused", "credit"}
          BY <1>25, <2>0, DequeueFacts DEF Sent, CallInv
        <4>2. /\ worker[w].at = "dequeue" /\ worker'[w].at = "start"
              /\ worker'[w].job = worker[w].job
              /\ \A v \in Worker : v # w => worker'[v] = worker[v]
              /\ UNCHANGED <<call, channel>>
          BY <1>25, DequeueFacts
        <4>3. \A k \in Job : InChannel(k)' <=> InChannel(k)
          BY <4>2 DEF InChannel
        <4>4. worker[w].job \in Queued
          BY <4>1, <4>2 DEF Queued
        <4>5. worker[w].job \notin Queued'
          BY <4>1, <4>2, <4>3 DEF Queued
        <4>6. \A k \in Job : k # worker[w].job => (k \in Queued' <=> k \in Queued)
          BY <4>1, <4>2, <4>3 DEF Queued
        <4> QED
          BY <4>4, <4>5, <4>6 DEF Queued
      <3>2. Counts(Queued, n.queued) /\ n'.queued = n.queued - 1
        BY <1>25, DequeueFacts DEF CountInv
      <3> QED
        BY <3>1, <3>2, Lose
    <2>2. Running' = Running
      BY <1>25, <1>a, <2>0, DequeueFacts DEF Running, CallInv, Sent
    <2>3. Resident' = Resident
      BY <1>25, DequeueFacts DEF Resident
    <2>4. Accepted' = Accepted
      BY <1>25, DequeueFacts DEF Accepted
    <2>5. Finished' = Finished
      BY <1>25, DequeueFacts DEF Finished
    <2>6. \A t \in Task : Owing(t)' = Owing(t) /\ pendingBlocking'[t] = pendingBlocking[t]
      BY <1>25, <1>a, <2>0, DequeueFacts DEF Owing, CallInv, Sent
    <2>7. \A t \in Task : Counts(Owing(t)', pendingBlocking'[t])
      BY <2>6 DEF CountInv
    <2>8. /\ n'.running = n.running /\ n'.resident = n.resident
          /\ n'.accepted = n.accepted /\ n'.finished = n.finished
      BY <1>25, DequeueFacts
    <2> QED
      BY <2>1, <2>2, <2>3, <2>4, <2>5, <2>7, <2>8 DEF CountInv, Counts
  <1>26. ASSUME NEW w \in Worker, CountTurn(w), worker[w].at = "idle" PROVE CountInv'
    <2>0. worker[w].at # "recv" => /\ worker[w].job \in Job /\ Sent(worker[w].job)
                                   /\ ~InChannel(worker[w].job)
                                   /\ \A v \in Worker : v # w => worker[v].job # worker[w].job
                                   /\ worker[w].at # "retire" => guard[worker[w].job] = "live"
      BY <1>a DEF PlaceInv
    <2>1. Queued' = Queued
      BY <1>26, <1>a, <2>0, IdleFacts DEF Queued, InChannel, CallInv, Sent
    <2>2. Counts(Running', n'.running)
      <3>1. w \in Running /\ Running' = Running \ {w}
        BY <1>26, <1>a, <2>0, IdleFacts DEF Running, CallInv, Sent
      <3>2. Counts(Running, n.running) /\ n'.running = n.running - 1
        BY <1>26, IdleFacts DEF CountInv
      <3> QED
        BY <3>1, <3>2, Lose
    <2>3. Resident' = Resident
      <3>1. /\ worker[w].job \in Job /\ guard[worker[w].job] = "live"
            /\ guard'[worker[w].job] = "finish" /\ UNCHANGED <<call, marked, parent,
                                                               pendingBlocking>>
            /\ \A k \in Job : k # worker[w].job => guard'[k] = guard[k]
        BY <1>26, <2>0, IdleFacts
      <3> QED
        BY <1>a, <3>1 DEF Resident
    <2>4. Accepted' = Accepted
      BY <1>26, IdleFacts DEF Accepted
    <2>5. Finished' = Finished
      <3>1. /\ worker[w].job \in Job /\ guard[worker[w].job] = "live"
            /\ guard'[worker[w].job] = "finish" /\ UNCHANGED <<call, marked, parent,
                                                               pendingBlocking>>
            /\ \A k \in Job : k # worker[w].job => guard'[k] = guard[k]
        BY <1>26, <2>0, IdleFacts
      <3> QED
        BY <1>a, <3>1 DEF Finished
    <2>6. \A t \in Task : Owing(t)' = Owing(t) /\ pendingBlocking'[t] = pendingBlocking[t]
      <3>1. /\ worker[w].job \in Job /\ guard[worker[w].job] = "live"
            /\ guard'[worker[w].job] = "finish" /\ UNCHANGED <<call, marked, parent,
                                                               pendingBlocking>>
            /\ \A k \in Job : k # worker[w].job => guard'[k] = guard[k]
        BY <1>26, <2>0, IdleFacts
      <3> QED
        BY <1>a, <3>1 DEF Owing
    <2>7. \A t \in Task : Counts(Owing(t)', pendingBlocking'[t])
      BY <2>6 DEF CountInv
    <2>8. /\ n'.queued = n.queued /\ n'.resident = n.resident
          /\ n'.accepted = n.accepted /\ n'.finished = n.finished
      BY <1>26, IdleFacts
    <2> QED
      BY <2>1, <2>2, <2>3, <2>4, <2>5, <2>7, <2>8 DEF CountInv, Counts
  <1>27. ASSUME NEW w \in Worker, Execute(w) PROVE CountInv'
    <2>0. worker[w].at # "recv" => /\ worker[w].job \in Job /\ Sent(worker[w].job)
                                   /\ ~InChannel(worker[w].job)
                                   /\ \A v \in Worker : v # w => worker[v].job # worker[w].job
                                   /\ worker[w].at # "retire" => guard[worker[w].job] = "live"
      BY <1>a DEF PlaceInv
    <2>1. Queued' = Queued
      BY <1>27, <1>a, <2>0, ExecuteFacts DEF Queued, InChannel, CallInv, Sent
    <2>2. Running' = Running
      BY <1>27, <1>a, <2>0, ExecuteFacts DEF Running, CallInv, Sent
    <2>3. Resident' = Resident
      BY <1>27, ExecuteFacts DEF Resident
    <2>4. Accepted' = Accepted
      BY <1>27, ExecuteFacts DEF Accepted
    <2>5. Finished' = Finished
      BY <1>27, ExecuteFacts DEF Finished
    <2>6. \A t \in Task : Owing(t)' = Owing(t) /\ pendingBlocking'[t] = pendingBlocking[t]
      BY <1>27, <1>a, <2>0, ExecuteFacts DEF Owing, CallInv, Sent
    <2>7. \A t \in Task : Counts(Owing(t)', pendingBlocking'[t])
      BY <2>6 DEF CountInv
    <2>8. n' = n
      BY <1>27, ExecuteFacts
    <2> QED
      BY <2>1, <2>2, <2>3, <2>4, <2>5, <2>7, <2>8 DEF CountInv, Counts
  <1>28. ASSUME NEW w \in Worker, OperationReturns(w) PROVE CountInv'
    <2>0. worker[w].at # "recv" => /\ worker[w].job \in Job /\ Sent(worker[w].job)
                                   /\ ~InChannel(worker[w].job)
                                   /\ \A v \in Worker : v # w => worker[v].job # worker[w].job
                                   /\ worker[w].at # "retire" => guard[worker[w].job] = "live"
      BY <1>a DEF PlaceInv
    <2>1. Queued' = Queued
      BY <1>28, <1>a, <2>0, OperationReturnsFacts DEF Queued, InChannel, CallInv, Sent
    <2>2. Running' = Running
      BY <1>28, <1>a, <2>0, OperationReturnsFacts DEF Running, CallInv, Sent
    <2>3. Resident' = Resident
      BY <1>28, OperationReturnsFacts DEF Resident
    <2>4. Accepted' = Accepted
      BY <1>28, OperationReturnsFacts DEF Accepted
    <2>5. Finished' = Finished
      BY <1>28, OperationReturnsFacts DEF Finished
    <2>6. \A t \in Task : Owing(t)' = Owing(t) /\ pendingBlocking'[t] = pendingBlocking[t]
      BY <1>28, <1>a, <2>0, OperationReturnsFacts DEF Owing, CallInv, Sent
    <2>7. \A t \in Task : Counts(Owing(t)', pendingBlocking'[t])
      BY <2>6 DEF CountInv
    <2>8. n' = n
      BY <1>28, OperationReturnsFacts
    <2> QED
      BY <2>1, <2>2, <2>3, <2>4, <2>5, <2>7, <2>8 DEF CountInv, Counts
  <1>29. ASSUME NEW w \in Worker, Respond(w) PROVE CountInv'
    <2>0. worker[w].at # "recv" => /\ worker[w].job \in Job /\ Sent(worker[w].job)
                                   /\ ~InChannel(worker[w].job)
                                   /\ \A v \in Worker : v # w => worker[v].job # worker[w].job
                                   /\ worker[w].at # "retire" => guard[worker[w].job] = "live"
      BY <1>a DEF PlaceInv
    <2>1. Queued' = Queued
      BY <1>29, <1>a, <2>0, RespondFacts DEF Queued, InChannel, CallInv, Sent
    <2>2. Running' = Running
      BY <1>29, <1>a, <2>0, RespondFacts DEF Running, CallInv, Sent
    <2>3. Resident' = Resident
      BY <1>29, RespondFacts DEF Resident
    <2>4. Accepted' = Accepted
      BY <1>29, RespondFacts DEF Accepted
    <2>5. Finished' = Finished
      BY <1>29, RespondFacts DEF Finished
    <2>6. \A t \in Task : Owing(t)' = Owing(t) /\ pendingBlocking'[t] = pendingBlocking[t]
      BY <1>29, <1>a, <2>0, RespondFacts DEF Owing, CallInv, Sent
    <2>7. \A t \in Task : Counts(Owing(t)', pendingBlocking'[t])
      BY <2>6 DEF CountInv
    <2>8. n' = n
      BY <1>29, RespondFacts
    <2> QED
      BY <2>1, <2>2, <2>3, <2>4, <2>5, <2>7, <2>8 DEF CountInv, Counts
  <1>30. ASSUME NEW w \in Worker, EndTurn(w) PROVE CountInv'
    <2>0. worker[w].at # "recv" => /\ worker[w].job \in Job /\ Sent(worker[w].job)
                                   /\ ~InChannel(worker[w].job)
                                   /\ \A v \in Worker : v # w => worker[v].job # worker[w].job
                                   /\ worker[w].at # "retire" => guard[worker[w].job] = "live"
      BY <1>a DEF PlaceInv
    <2>1. Queued' = Queued
      BY <1>30, <1>a, <2>0, EndTurnFacts DEF Queued, InChannel, CallInv, Sent
    <2>2. Running' = Running
      BY <1>30, <1>a, <2>0, EndTurnFacts DEF Running, CallInv, Sent
    <2>3. Resident' = Resident
      BY <1>30, EndTurnFacts DEF Resident
    <2>4. Accepted' = Accepted
      BY <1>30, EndTurnFacts DEF Accepted
    <2>5. Finished' = Finished
      BY <1>30, EndTurnFacts DEF Finished
    <2>6. \A t \in Task : Owing(t)' = Owing(t) /\ pendingBlocking'[t] = pendingBlocking[t]
      BY <1>30, <1>a, <2>0, EndTurnFacts DEF Owing, CallInv, Sent
    <2>7. \A t \in Task : Counts(Owing(t)', pendingBlocking'[t])
      BY <2>6 DEF CountInv
    <2>8. n' = n
      BY <1>30, EndTurnFacts
    <2> QED
      BY <2>1, <2>2, <2>3, <2>4, <2>5, <2>7, <2>8 DEF CountInv, Counts
  <1>31. CASE Quiet
    <2>1. UNCHANGED <<parent, call, guard, marked, worker, channel, n, pendingBlocking>>
      BY <1>31, QuietFacts
    <2>2. Queued' = Queued /\ Running' = Running /\ Resident' = Resident
      BY <2>1 DEF Queued, InChannel, Running, Resident
    <2>3. Accepted' = Accepted /\ Finished' = Finished /\ \A t \in Task : Owing(t)' = Owing(t)
      BY <2>1 DEF Accepted, Finished, Owing
    <2> QED
      BY <2>1, <2>2, <2>3 DEF CountInv, Counts
  <1>33. ASSUME NEW j \in Job, Help(j) \/ HelpedReturns(j) PROVE CountInv'
    <2>0. ~Sent(j) => ~InChannel(j) /\ \A w \in Worker : worker[w].job # j
      BY <1>b
    <2>1. Queued' = Queued
      BY <1>33, <1>a, <2>0, HelpFacts DEF Queued, InChannel, CallInv, Sent
    <2>2. Running' = Running
      BY <1>33, HelpFacts DEF Running
    <2>3. Resident' = Resident
      BY <1>33, HelpFacts DEF Resident
    <2>4. Accepted' = Accepted
      BY <1>33, <1>a, <2>0, HelpFacts DEF Accepted, CallInv, Sent
    <2>5. Finished' = Finished
      BY <1>33, HelpFacts DEF Finished
    <2>6. \A t \in Task : Owing(t)' = Owing(t) /\ pendingBlocking'[t] = pendingBlocking[t]
      BY <1>33, <1>a, <2>0, HelpFacts DEF Owing, CallInv, Sent
    <2>7. \A t \in Task : Counts(Owing(t)', pendingBlocking'[t])
      BY <2>6 DEF CountInv
    <2>8. n' = n
      BY <1>33, HelpFacts
    <2> QED
      BY <2>1, <2>2, <2>3, <2>4, <2>5, <2>7, <2>8 DEF CountInv, Counts
  <1>32. CASE UNCHANGED vars
    <2>1. UNCHANGED <<parent, call, guard, marked, worker, channel, n, pendingBlocking>>
      BY <1>32 DEF vars
    <2>2. Queued' = Queued /\ Running' = Running /\ Resident' = Resident
      BY <2>1 DEF Queued, InChannel, Running, Resident
    <2>3. Accepted' = Accepted /\ Finished' = Finished /\ \A t \in Task : Owing(t)' = Owing(t)
      BY <2>1 DEF Accepted, Finished, Owing
    <2> QED
      BY <2>1, <2>2, <2>3 DEF CountInv, Counts
  <1> QED
    BY Starts, <1>1, <1>2, <1>3, <1>4, <1>5, <1>6, <1>7, <1>8, <1>9, <1>10, <1>11,
       <1>12, <1>13, <1>14, <1>15, <1>16, <1>17, <1>18, <1>19, <1>20, <1>21, <1>22,
       <1>23, <1>24, <1>25, <1>26, <1>27, <1>28, <1>29, <1>30, <1>31, <1>32, <1>33
    DEF Next, CallStep, WorkerStep, Quiet

-----------------------------------------------------------------------------
(* Shutdown *)

\* Behind the closed gate producers only leave, and without one no guard is made.
LEMMA CloseStep ==
    ASSUME ShapeInv, OwnerInv, CountInv, CloseInv, [Next]_vars
    PROVE  CloseInv'
  <1>a. \A k \in {"queued", "running", "resident", "ok"} : k \notin {"open", "gate"}
    OBVIOUS
  <1>1. ASSUME NEW j \in Job, Enter(j) PROVE CloseInv'
    BY <1>1, <1>a, EnterFacts DEF CloseInv, OwnerInv
  <1>2. ASSUME NEW j \in Job, Check(j) PROVE CloseInv'
    BY <1>2, <1>a, CheckFacts DEF CloseInv, OwnerInv
  <1>3. ASSUME NEW j \in Job, Lock(j) PROVE CloseInv'
    BY <1>3, <1>a, LockFacts DEF CloseInv, OwnerInv
  <1>4. ASSUME NEW j \in Job, NewGuard(j), call[j] = "pend" PROVE CloseInv'
    BY <1>4, <1>a, PendFacts DEF CloseInv, OwnerInv
  <1>5. ASSUME NEW j \in Job, NewGuard(j), call[j] = "reside" PROVE CloseInv'
    BY <1>5, <1>a, ResideFacts DEF CloseInv, OwnerInv
  <1>6. ASSUME NEW j \in Job, Reserve(j) PROVE CloseInv'
    BY <1>6, <1>a, ReserveFacts DEF CloseInv, OwnerInv
  <1>7. ASSUME NEW j \in Job, Send(j), Len(channel) < QueueLimit PROVE CloseInv'
    BY <1>7, <1>a, SendFitsFacts DEF CloseInv, OwnerInv
  <1>8. ASSUME NEW j \in Job, Send(j), ~(Len(channel) < QueueLimit) PROVE CloseInv'
    BY <1>8, <1>a, SendFullFacts DEF CloseInv, OwnerInv
  <1>9. ASSUME NEW j \in Job, CountAccepted(j) PROVE CloseInv'
    BY <1>9, <1>a, CountAcceptedFacts DEF CloseInv, OwnerInv
  <1>10. ASSUME NEW j \in Job, Unlock(j), call[j] = "accepted" PROVE CloseInv'
    BY <1>10, <1>a, UnlockAcceptedFacts DEF CloseInv, OwnerInv
  <1>11. ASSUME NEW j \in Job, Unlock(j), call[j] = "refused" PROVE CloseInv'
    BY <1>11, <1>a, UnlockRefusedFacts DEF CloseInv, OwnerInv
  <1>12. ASSUME NEW j \in Job, Release(j) PROVE CloseInv'
    BY <1>12, <1>a, ReleaseFacts DEF CloseInv, OwnerInv
  <1>13. ASSUME NEW j \in Job, Return(j) PROVE CloseInv'
    BY <1>13, <1>a, ReturnFacts DEF CloseInv, OwnerInv
  <1>14. ASSUME NEW j \in Job, Credit(j) PROVE CloseInv'
    BY <1>14, <1>a, CreditFacts DEF CloseInv, OwnerInv
  <1>15. ASSUME NEW j \in Job, DropRejected(j), call[j] = "drop" PROVE CloseInv'
    BY <1>15, <1>a, DropFacts DEF CloseInv, OwnerInv
  <1>16. ASSUME NEW j \in Job, DropRejected(j), call[j] = "retire" PROVE CloseInv'
    BY <1>16, <1>a, DroppedFacts DEF CloseInv, OwnerInv
  <1>17. ASSUME NEW j \in Job, Reject(j) PROVE CloseInv'
    BY <1>17, <1>a, RejectFacts DEF CloseInv, OwnerInv
  <1>18. ASSUME NEW j \in Job, Leave(j), call[j] = "leave" PROVE CloseInv'
    BY <1>18, <1>a, FreeFacts DEF CloseInv, OwnerInv
  <1>19. ASSUME NEW j \in Job, Leave(j), call[j] = "freed" PROVE CloseInv'
    BY <1>19, <1>a, FreedFacts DEF CloseInv, OwnerInv
  <1>20. ASSUME NEW j \in Job, DropGuard(j), guard[j] = "finish" PROVE CloseInv'
    BY <1>20, <1>a, GuardFinishFacts DEF CloseInv, OwnerInv
  <1>21. ASSUME NEW j \in Job, DropGuard(j), guard[j] = "resident" PROVE CloseInv'
    <2>1. n.resident # 0
      BY <1>21, CountZero DEF CountInv, Resident
    <2> QED
      BY <1>21, <1>a, <2>1, GuardResidentFacts DEF CloseInv
  <1>22. ASSUME NEW j \in Job, DropGuard(j), guard[j] = "pending" PROVE CloseInv'
    BY <1>22, <1>a, GuardPendingFacts DEF CloseInv, OwnerInv
  <1>23. ASSUME NEW w \in Worker, Receive(w) PROVE CloseInv'
    BY <1>23, <1>a, ReceiveFacts DEF CloseInv, OwnerInv
  <1>24. ASSUME NEW w \in Worker, CountTurn(w), worker[w].at = "claim" PROVE CloseInv'
    BY <1>24, <1>a, ClaimFacts DEF CloseInv, OwnerInv
  <1>25. ASSUME NEW w \in Worker, CountTurn(w), worker[w].at = "dequeue" PROVE CloseInv'
    BY <1>25, <1>a, DequeueFacts DEF CloseInv, OwnerInv
  <1>26. ASSUME NEW w \in Worker, CountTurn(w), worker[w].at = "idle" PROVE CloseInv'
    BY <1>26, <1>a, IdleFacts DEF CloseInv, OwnerInv
  <1>27. ASSUME NEW w \in Worker, Execute(w) PROVE CloseInv'
    BY <1>27, <1>a, ExecuteFacts DEF CloseInv, OwnerInv
  <1>28. ASSUME NEW w \in Worker, OperationReturns(w) PROVE CloseInv'
    BY <1>28, <1>a, OperationReturnsFacts DEF CloseInv, OwnerInv
  <1>29. ASSUME NEW w \in Worker, Respond(w) PROVE CloseInv'
    BY <1>29, <1>a, RespondFacts DEF CloseInv, OwnerInv
  <1>30. ASSUME NEW w \in Worker, EndTurn(w) PROVE CloseInv'
    BY <1>30, <1>a, EndTurnFacts DEF CloseInv, OwnerInv
  <1>31. CASE Quiet
    <2>1. UNCHANGED <<producers, n>>
      BY <1>31, QuietFacts
    <2>2. CASE Close
      BY <2>1, <2>2 DEF Close, CloseInv
    <2>3. CASE PollCounters
      BY <2>1, <2>3 DEF PollCounters, AfterRead, CloseInv
    <2>4. CASE ShutdownTimeout
      BY <2>1, <2>4 DEF ShutdownTimeout, CloseInv
    <2>5. CASE \E t \in Task : CancelParent(t)
      BY <2>1, <2>5 DEF CancelParent, CloseInv
    <2> QED
      BY <1>31, <2>2, <2>3, <2>4, <2>5 DEF Quiet
  <1>33. ASSUME NEW j \in Job, Help(j) \/ HelpedReturns(j) PROVE CloseInv'
    BY <1>33, <1>a, HelpFacts DEF CloseInv, OwnerInv
  <1>32. CASE UNCHANGED vars
    BY <1>32 DEF CloseInv, vars
  <1> QED
    BY Starts, <1>1, <1>2, <1>3, <1>4, <1>5, <1>6, <1>7, <1>8, <1>9, <1>10, <1>11,
       <1>12, <1>13, <1>14, <1>15, <1>16, <1>17, <1>18, <1>19, <1>20, <1>21, <1>22,
       <1>23, <1>24, <1>25, <1>26, <1>27, <1>28, <1>29, <1>30, <1>31, <1>32, <1>33
    DEF Next, CallStep, WorkerStep, Quiet

-----------------------------------------------------------------------------
(* The theorems *)

PoolInv == ShapeInv /\ CallInv /\ OwnerInv /\ PlaceInv /\ CountInv /\ CloseInv

\* The pool starts with nothing in it.
LEMMA PoolInit == Init => PoolInv
  <1> SUFFICES ASSUME Init PROVE PoolInv
    OBVIOUS
  <1>1. /\ parent \in [Job -> Task \cup {NoTask}]
        /\ call = [j \in Job |-> "new"] /\ guard = [j \in Job |-> "none"]
        /\ marked = {} /\ capture = {} /\ producers = {}
        /\ response = [j \in Job |-> "open"]
        /\ worker = [w \in Worker |-> [at |-> "recv", job |-> NoJob]]
        /\ channel = <<>> /\ lock = NoJob /\ gateClosed = FALSE /\ closing = FALSE
        /\ n = [queued |-> 0, running |-> 0, resident |-> 0,
                accepted |-> 0, rejected |-> 0, finished |-> 0]
        /\ pendingBlocking = [t \in Task |-> 0] /\ cancelled = {} /\ shut = "open"
    BY DEF Init
  <1>2. channel \in Seq(Job) /\ Len(channel) = 0
    BY <1>1
  <1>3. ShapeInv
    <2>1. Totals
      BY <1>1 DEF Totals
    <2>2. Len(channel) <= QueueLimit
      BY <1>2, PoolAssumption
    <2> QED
      BY <1>1, <1>2, <2>1, <2>2
      DEF ShapeInv, CallLabels, GuardLabels, WorkerLabels, ShutdownLabels
  <1>4. CallInv /\ OwnerInv /\ CloseInv
    BY <1>1 DEF CallInv, OwnerInv, CloseInv
  <1>5. PlaceInv
    BY <1>1, <1>2 DEF PlaceInv
  <1>6. CountInv
    <2>1. Queued = {} /\ Running = {} /\ Resident = {}
      BY <1>1, <1>2 DEF Queued, Running, Resident, InChannel
    <2>2. Accepted = {} /\ Finished = {} /\ \A t \in Task : Owing(t) = {}
      BY <1>1 DEF Accepted, Finished, Owing
    <2>3. Counts({}, 0)
      BY FS_EmptySet DEF Counts
    <2> QED
      BY <1>1, <2>1, <2>2, <2>3 DEF CountInv
  <1> QED
    BY <1>3, <1>4, <1>5, <1>6 DEF PoolInv

\* The inductive invariants hold in every reachable state.
LEMMA PoolInvariance == Spec => []PoolInv
  <1>1. PoolInv /\ [Next]_vars => PoolInv'
    BY ShapeStep, CallStepInv, OwnerStep, PlaceStep, CountStep, CloseStep DEF PoolInv
  <1> QED
    BY <1>1, PoolInit, PTL DEF Spec

\* No counter of the pool is ever decremented below zero and the channel
\* never holds more than its limit (run_blocking, blocking_worker_loop).
LEMMA PoolTypes == PoolInv => TypeOK
  <1> SUFFICES ASSUME PoolInv PROVE TypeOK
    OBVIOUS
  <1>1. /\ n.queued \in Nat /\ n.running \in Nat /\ n.resident \in Nat
        /\ n.accepted \in Nat /\ n.finished \in Nat
        /\ \A t \in Task : pendingBlocking[t] \in Nat
    BY CountZero DEF PoolInv, CountInv
  <1>2. ShapeInv /\ Totals
    BY DEF PoolInv, ShapeInv
  <1>3. n \in Counters
    BY <1>1, <1>2 DEF Totals, Counters
  <1>4. pendingBlocking \in [Task -> Nat]
    BY <1>1, <1>2 DEF Totals
  <1> QED
    BY <1>2, <1>3, <1>4 DEF ShapeInv, TypeOK

\* When no call is in flight and no job resident, every accepted job is
\* counted as finished.
LEMMA TotalsAgree ==
    PoolInv /\ producers = {} /\ n.resident = 0 => n.accepted = n.finished
  <1> SUFFICES ASSUME PoolInv, producers = {}, n.resident = 0
               PROVE  n.accepted = n.finished
    OBVIOUS
  <1>1. Resident = {}
    BY CountZero DEF PoolInv, CountInv
  <1>2. \A j \in Job : call[j] \in CallLabels /\ guard[j] \in GuardLabels
    BY DEF PoolInv, ShapeInv
  <1>3. ASSUME NEW j \in marked PROVE j \in Accepted /\ j \in Finished
    <2>1. j \in Job
      BY DEF PoolInv, ShapeInv
    <2>2. call[j] \in {"wait", "help", "done"}
      BY <1>2, <2>1 DEF PoolInv, CallInv, OwnerInv, CallLabels
    <2>3. guard[j] \in {"pending", "gone"}
      BY <1>1, <1>2, <2>1 DEF PoolInv, CallInv, Resident, GuardLabels
    <2> QED
      BY <2>2, <2>3 DEF Accepted, Finished
  <1>4. Accepted = Finished
    BY <1>3 DEF Accepted, Finished
  <1> QED
    BY <1>4 DEF PoolInv, CountInv, Counts

\* No obligation of a parent is lost or returned twice, and the totals of the
\* pool agree when it is empty (BlockingRetirement, run_blocking), however
\* many calls and workers there are.
THEOREM ObligationsSafety == Spec => []ObligationsCounted
  <1>1. PoolInv => ObligationsCounted
    <2> SUFFICES ASSUME PoolInv PROVE ObligationsCounted
      OBVIOUS
    <2>1. ASSUME NEW j \in capture, guard[j] # "none", parent[j] # NoTask
          PROVE  pendingBlocking[parent[j]] > 0
      <3>1. j \in Job /\ parent[j] \in Task
        BY <2>1 DEF PoolInv, ShapeInv
      <3>2. guard[j] = "live"
        BY <2>1, <3>1 DEF PoolInv, OwnerInv
      <3>3. Owing(parent[j]) # {}
        BY <3>1, <3>2 DEF Owing
      <3>4. Counts(Owing(parent[j]), pendingBlocking[parent[j]])
        BY <3>1 DEF PoolInv, CountInv
      <3> QED
        BY <3>3, <3>4, CountZero
    <2> QED
      BY <2>1, PoolTypes, TotalsAgree DEF ObligationsCounted
  <1> QED
    BY <1>1, PoolInvariance, PTL

\* A shutdown that reports success leaves no callback of a call it counted,
\* and every accepted job is finished (cancel_all_and_wait reads the counters
\* one after the other while jobs move).
THEOREM DrainedSafety == Spec => []ShutdownDrained
  <1>1. PoolInv => ShutdownDrained
    <2> SUFFICES ASSUME PoolInv, shut = "ok"
                 PROVE  /\ \A j \in capture : guard[j] = "none" /\ j \notin producers
                        /\ n.accepted = n.finished
      BY DEF ShutdownDrained
    <2>1. producers = {} /\ n.resident = 0
      BY DEF PoolInv, CloseInv
    <2>2. Resident = {}
      BY <2>1, CountZero DEF PoolInv, CountInv
    <2>3. capture \subseteq Job
      BY DEF PoolInv, ShapeInv
    <2>4. \A j \in capture : guard[j] = "none"
      BY <2>2, <2>3 DEF PoolInv, OwnerInv, Resident
    <2> QED
      BY <2>1, <2>4, TotalsAgree
  <1> QED
    BY <1>1, PoolInvariance, PTL

=============================================================================
