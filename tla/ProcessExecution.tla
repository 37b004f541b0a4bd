-------------------------- MODULE ProcessExecution --------------------------
(***************************************************************************)
(* ku supervise, src/src/process_execution.rs: a coordinator runs a finite *)
(* batch of programs, each in a process group of its own with reserved     *)
(* memory, captures their output with reader threads, and writes a receipt *)
(* for each.  All programs of a batch share one deadline.                  *)
(*                                                                         *)
(* The coordinator is one thread; the programs, the reader threads and the *)
(* clock move between its steps.  The provider of process groups           *)
(* (process_execution/platform) may fail at every call.                    *)
(***************************************************************************)
EXTENDS Integers, Sequences, SequencesExt, FiniteSets

CONSTANTS
    Job,
    Jobs,           \* the entries in the order given: one or more
    Streams,        \* 1..Streams are the output pipes of a program
    MaxRunning,     \* ControlReserve::max_running
    Limit,          \* max_output_bytes
    Bytes,          \* what each program writes to a pipe at most
    Outsider,       \* programs that leave a writer outside their group
    Deadline,       \* of the whole batch
    Grace,          \* CLEANUP_GRACE
    StopGrace,      \* READER_STOP_GRACE
    Faults,         \* how many steps may meet failing calls
    MaxTime         \* bound of the clock

ASSUME ExecutionAssumption ==
    /\ Jobs \in Seq(Job) /\ Jobs # <<>> /\ Outsider \subseteq Job
    /\ \A i, k \in 1..Len(Jobs) : Jobs[i] = Jobs[k] => i = k
    /\ Bytes \in [Job -> Nat]
    /\ Streams \in Nat /\ MaxRunning \in Nat \ {0}
    /\ {Limit, Deadline, Grace, StopGrace, Faults, MaxTime} \subseteq Nat

Pipe == Job \X (1..Streams)

Labels == {"loop", "admit", "start", "scan", "kill", "cleanup", "finish",
           "settle", "stop", "drain", "end"}

Verdicts == {"none", "completed", "worker_exit", "timeout", "output_limit",
             "reader_error", "spawn_error", "queue_timeout",
             "cleanup_unconfirmed", "torn"}

VARIABLES
    now,
    co,         \* the coordinator: label, job, scan index, admitted, and of
                \* a cleanup its verdict, deadline, result and where it returns
    queue, active,
    group,      \* the process group: none, live, empty
    main,       \* the program: none, running, ok, bad
    killed,     \* groups that were sent cgroup.kill, or found empty instead
    missed,     \* groups a kill of which failed
    ledger,     \* Ledger::active_workers, in whole worker reservations
    slots,      \* DomainState::active_workers
    wrote, pipe, \* bytes written to, and still in, a pipe
    reader,     \* a reader thread: label and its two flags
    kept, exceeded, readError,   \* CaptureState
    receipt,    \* what was published for a job
    failed,     \* receipts that are not completed
    result,     \* of the command
    faults

receipts == <<receipt, failed>>
os == <<group, main, wrote, pipe>>
capture == <<reader, kept, exceeded, readError>>
vars == <<now, co, queue, active, group, main, killed, missed, ledger, slots, wrote,
          pipe, reader, kept, exceeded, readError, receipt, failed, result, faults>>

Coordinators == [at : Labels, job : Job, index : Nat, admitted : BOOLEAN,
                 verdict : Verdicts, by : 0..MaxTime, stream : Nat,
                 clean : BOOLEAN, forced : BOOLEAN, retired : BOOLEAN,
                 back : {"admit", "scan", "drain"}]

\* The counters are naturals: no release without a reservation.
TypeOK ==
    /\ now \in 0..MaxTime
    /\ co \in Coordinators
    /\ queue \in Seq(Job) /\ active \in Seq(Job)
    /\ group \in [Job -> {"none", "live", "empty"}]
    /\ main \in [Job -> {"none", "running", "ok", "bad"}]
    /\ killed \subseteq Job /\ missed \subseteq Job
    /\ ledger \in Nat /\ slots \in Nat
    /\ \A p \in Pipe : wrote[p] \in 0..Bytes[p[1]] /\ pipe[p] \in 0..wrote[p]
    /\ reader \in [Pipe -> [at : {"none", "loop", "empty", "done"},
                            stop : BOOLEAN, retired : BOOLEAN]]
    /\ kept \in [Job -> 0..Limit]
    /\ exceeded \subseteq Job /\ readError \subseteq Job
    /\ receipt \in [Job -> Verdicts] /\ failed \in 0..Len(Jobs)
    /\ result \in {"running", "ok", "failed", "error"}
    /\ faults \in 0..Faults

Init ==
    /\ now = 0
    /\ co = [at |-> "loop", job |-> Head(Jobs), index |-> 1, admitted |-> FALSE,
             verdict |-> "none", by |-> 0, stream |-> 1, clean |-> TRUE,
             forced |-> FALSE, retired |-> FALSE, back |-> "scan"]
    /\ queue = Jobs /\ active = <<>>
    /\ group = [j \in Job |-> "none"]
    /\ main = [j \in Job |-> "none"]
    /\ killed = {} /\ missed = {} /\ ledger = 0 /\ slots = 0
    /\ wrote = [p \in Pipe |-> 0] /\ pipe = [p \in Pipe |-> 0]
    /\ reader = [p \in Pipe |-> [at |-> "none", stop |-> FALSE, retired |-> FALSE]]
    /\ kept = [j \in Job |-> 0]
    /\ exceeded = {} /\ readError = {}
    /\ receipt = [j \in Job |-> "none"] /\ failed = 0
    /\ result = "running"
    /\ faults = 0

Fault == faults < Faults /\ faults' = faults + 1
Expired == now >= Deadline
Capped(t) == IF t > MaxTime THEN MaxTime ELSE t

Goes(from, to) == co.at = from /\ co' = [co EXCEPT !.at = to]

\* terminate_group for these programs, one after the other; the ones in missing
\* fail, and nobody looks at the result.
Kill(jobs, missing) ==
    /\ killed' = killed \cup (jobs \ missing)
    /\ missed' = missed \cup missing

Spent(missing) == IF missing = {} THEN 0 ELSE 1

\* The running programs whose deadline is over: all share the one of the batch.
ExpiredOf(jobs) == IF Expired THEN jobs ELSE {}

KillExpired ==
    \E missing \in SUBSET ExpiredOf(ToSet(active)) :
        /\ Kill(ExpiredOf(ToSet(active)), missing)
        /\ faults + Spent(missing) <= Faults /\ faults' = faults + Spent(missing)

\* A receipt is counted and written whole, or the output fails and the batch
\* is stopped.  The action has already met "spent" other failures.
Publish(j, verdict, next, spent) ==
    /\ failed' = IF verdict = "completed" THEN failed ELSE failed + 1
    /\ \/ /\ receipt' = [receipt EXCEPT ![j] = verdict]
          /\ co' = next
          /\ faults' = faults + spent
       \/ /\ faults + spent < Faults /\ faults' = faults + spent + 1
          /\ receipt' = [receipt EXCEPT ![j] = "torn"]
          /\ co' = [next EXCEPT !.at = "stop"]

-----------------------------------------------------------------------------
(* The main loop *)

Loop ==
    /\ co.at = "loop"
    /\ IF queue = <<>> /\ active = <<>>
       THEN /\ co' = [co EXCEPT !.at = "end"]
            /\ \/ /\ result' = IF failed = 0 THEN "ok" ELSE "failed"
                  /\ UNCHANGED faults
               \/ Fault /\ result' = "error"
            /\ UNCHANGED <<killed, missed>>
       ELSE /\ co' = [co EXCEPT !.at = "admit", !.admitted = FALSE]
            /\ KillExpired
            /\ UNCHANGED result
    /\ UNCHANGED <<now, queue, active, ledger, slots, receipts, os, capture>>

MayAdmit == Len(active) < MaxRunning /\ ~co.admitted /\ queue # <<>>

\* A job whose deadline passed in the queue gets its receipt at once.
QueueTimeout ==
    /\ co.at = "admit" /\ MayAdmit /\ Expired
    /\ queue' = Tail(queue)
    /\ \E missing \in SUBSET ToSet(active) :
         /\ Kill(ToSet(active), missing)
         /\ faults + Spent(missing) <= Faults
         /\ Publish(Head(queue), "queue_timeout", co, Spent(missing))
    /\ UNCHANGED <<now, active, ledger, slots, result, os, capture>>

\* Ledger::reserve_worker; the batch stops if it refuses.
Reserve ==
    /\ co.at = "admit" /\ MayAdmit /\ ~Expired
    /\ queue' = Tail(queue)
    /\ IF ledger < MaxRunning
       THEN /\ ledger' = ledger + 1
            /\ co' = [co EXCEPT !.at = "start", !.job = Head(queue), !.admitted = TRUE]
       ELSE UNCHANGED ledger /\ co' = [co EXCEPT !.at = "stop"]
    /\ UNCHANGED <<now, active, killed, missed, slots, receipts, result, faults, os, capture>>

AdmitNone ==
    /\ co.at = "admit" /\ ~MayAdmit
    /\ co' = [co EXCEPT !.at = "scan", !.index = 1]
    /\ UNCHANGED <<now, queue, active, killed, missed, ledger, slots, receipts, result,
                   faults, os, capture>>

-----------------------------------------------------------------------------
(* start_worker *)

Readers(j, streams) ==
    [p \in Pipe |-> IF p[1] = j /\ p[2] \in streams
                    THEN [reader[p] EXCEPT !.at = "loop"] ELSE reader[p]]

\* The program runs and both readers were started.
Started ==
    /\ Goes("start", "admit")
    /\ slots' = slots + 1
    /\ group' = [group EXCEPT ![co.job] = "live"]
    /\ main' = [main EXCEPT ![co.job] = "running"]
    /\ reader' = Readers(co.job, 1..Streams)
    /\ active' = Append(active, co.job)
    /\ UNCHANGED <<now, queue, killed, missed, ledger, wrote, pipe, kept, exceeded,
                   readError, receipts, result, faults>>

\* Nothing was started, or what was started is known to be gone.
SpawnFails ==
    /\ co.at = "start" /\ faults < Faults
    /\ ledger' = ledger - 1
    /\ Publish(co.job, "spawn_error", [co EXCEPT !.at = "admit"], 1)
    /\ UNCHANGED <<now, queue, active, killed, missed, slots, result, os, capture>>

\* The provider cannot tell, and its own kill may fail as well: the slot and
\* the reservation stay taken.
SpawnUnconfirmed ==
    /\ co.at = "start" /\ faults < Faults
    /\ slots' = slots + 1
    /\ group' = [group EXCEPT ![co.job] = "live"]
    /\ \E missing \in SUBSET {co.job} : Kill({co.job}, missing)
    /\ Publish(co.job, "cleanup_unconfirmed", [co EXCEPT !.at = "stop"], 1)
    /\ UNCHANGED <<now, queue, active, ledger, main, wrote, pipe, capture, result>>

Cleaning(j, verdict, back) ==
    [co EXCEPT !.at = "kill", !.job = j, !.verdict = verdict, !.stream = 1,
               !.by = Capped(now + Grace), !.clean = TRUE, !.forced = FALSE,
               !.retired = FALSE, !.back = back]

\* The program runs but only the readers of the first streams could be
\* started.
SetupFails(n) ==
    /\ co.at = "start" /\ Fault
    /\ slots' = slots + 1
    /\ group' = [group EXCEPT ![co.job] = "live"]
    /\ main' = [main EXCEPT ![co.job] = "running"]
    /\ reader' = Readers(co.job, 1..n)
    /\ co' = Cleaning(co.job, "spawn_error", "admit")
    /\ UNCHANGED <<now, queue, active, killed, missed, ledger, wrote, pipe, kept,
                   exceeded, readError, receipts, result>>

-----------------------------------------------------------------------------
(* The pass over the running programs *)

Verdict(j) ==
    CASE j \in exceeded -> "output_limit"
      [] j \in readError /\ j \notin exceeded -> "reader_error"
      [] Expired /\ j \notin exceeded \cup readError -> "timeout"
      [] OTHER -> CASE main[j] = "ok" -> "completed"
                    [] main[j] = "bad" -> "worker_exit"
                    [] OTHER -> "none"

SwapRemove(s, i) == SubSeq([s EXCEPT ![i] = Last(s)], 1, Len(s) - 1)

\* The program leaves the list and is cleaned up; other expired programs are
\* killed before that is waited for.
Reap(i, verdict, spent) ==
    /\ co' = Cleaning(active[i], verdict, "scan")
    /\ active' = SwapRemove(active, i)
    /\ LET others == ExpiredOf(ToSet(SwapRemove(active, i)))
       IN  \E missing \in SUBSET others :
             /\ Kill(others, missing)
             /\ faults + spent + Spent(missing) <= Faults
             /\ faults' = faults + spent + Spent(missing)

Scan ==
    /\ co.at = "scan"
    /\ LET i == co.index
       IN  IF i > Len(active)
           THEN /\ co' = [co EXCEPT !.at = "loop"]
                /\ UNCHANGED <<active, killed, missed, faults>>
           ELSE IF Verdict(active[i]) = "none"
           THEN /\ co' = [co EXCEPT !.index = i + 1]
                /\ UNCHANGED <<active, killed, missed, faults>>
           ELSE Reap(i, Verdict(active[i]), 0)
    /\ UNCHANGED <<now, queue, ledger, slots, receipts, result, os, capture>>

\* try_wait fails: the program counts as failed.
WaitFails ==
    /\ co.at = "scan" /\ co.index <= Len(active)
    /\ Verdict(active[co.index]) \in {"none", "completed", "worker_exit"}
    /\ Reap(co.index, "worker_exit", 1)
    /\ UNCHANGED <<now, queue, ledger, slots, receipts, result, os, capture>>

-----------------------------------------------------------------------------
(* cleanup_worker *)

\* Worker::cleanup kills the group first; if that fails it gives up at once.
CleanupKill ==
    /\ co.at = "kill"
    /\ \/ /\ Kill({co.job}, {}) /\ UNCHANGED faults
          /\ co' = [co EXCEPT !.at = "cleanup"]
       \/ /\ Kill({co.job}, {co.job}) /\ Fault
          /\ co' = [co EXCEPT !.at = "finish", !.clean = FALSE]
    /\ UNCHANGED <<now, queue, active, ledger, slots, os, capture, receipts, result>>

\* Worker::cleanup confirms that the group is empty.  The first reader is
\* told that no producer is left.
GroupRetired ==
    /\ co.at = "cleanup" /\ group[co.job] = "empty"
    /\ slots' = slots - 1
    /\ co' = [co EXCEPT !.at = "finish", !.retired = TRUE]
    /\ reader' = [p \in Pipe |-> IF p = <<co.job, 1>>
                                 THEN [reader[p] EXCEPT !.retired = TRUE] ELSE reader[p]]
    /\ UNCHANGED <<now, queue, active, killed, missed, ledger, os, kept, exceeded,
                   readError, receipts, result, faults>>

\* Seeded fault: a group is waited for without a deadline.
GroupUnconfirmedLate ==
    /\ co.at = "cleanup" /\ Fault
    /\ co' = [co EXCEPT !.at = "finish", !.clean = FALSE]
    /\ UNCHANGED <<now, queue, active, killed, missed, ledger, slots, os, capture,
                   receipts, result>>

\* The group outlives the grace, or the provider fails.
GroupUnconfirmed ==
    /\ co.at = "cleanup"
    /\ \/ now >= co.by /\ group[co.job] # "empty" /\ UNCHANGED faults
       \/ Fault
    /\ co' = [co EXCEPT !.at = "finish", !.clean = FALSE]
    /\ UNCHANGED <<now, queue, active, killed, missed, ledger, slots, os, capture,
                   receipts, result>>

Finished(p) == reader[p].at \in {"none", "done"}

\* Reader::finish: joined, or stopped by force after the deadline, or given
\* up one more grace later.  The next reader is told about its producers.
FinishReader ==
    /\ co.at = "finish"
    /\ LET p == <<co.job, co.stream>>
           next(err) ==
             /\ co' = [co EXCEPT !.stream = @ + 1, !.forced = FALSE,
                                 !.clean = @ /\ ~err]
             /\ readError' = IF err THEN readError \cup {co.job} ELSE readError
             /\ reader' = [q \in Pipe |->
                  IF q = <<co.job, co.stream + 1>> /\ co.retired
                  THEN [reader[q] EXCEPT !.retired = TRUE] ELSE reader[q]]
       IN  CASE co.stream > Streams ->
                  co' = [co EXCEPT !.at = "settle"] /\ UNCHANGED <<reader, readError>>
             [] co.stream <= Streams /\ Finished(p) -> next(co.forced)
             [] co.stream <= Streams /\ ~Finished(p) /\ ~co.forced ->
                  /\ now >= co.by
                  /\ co' = [co EXCEPT !.forced = TRUE]
                  /\ reader' = [reader EXCEPT ![p].stop = TRUE]
                  /\ UNCHANGED readError
             [] co.stream <= Streams /\ ~Finished(p) /\ co.forced ->
                  now >= Capped(co.by + StopGrace) /\ next(TRUE)
    /\ UNCHANGED <<now, queue, active, killed, missed, ledger, slots, os, kept,
                   exceeded, receipts, result, faults>>

\* Seeded fault: the verdict of the scan is published.
FinalVerdictStale == IF co.clean THEN co.verdict ELSE "cleanup_unconfirmed"

\* The receipt of a program whose group and readers are gone, judged by the
\* final capture; otherwise its reservation stays and the batch stops.
FinalVerdict ==
    CASE ~co.clean -> "cleanup_unconfirmed"
      [] co.clean /\ co.verdict = "completed" /\ co.job \in exceeded -> "output_limit"
      [] co.clean /\ co.verdict = "completed" /\ co.job \in readError \ exceeded ->
           "reader_error"
      [] OTHER -> co.verdict

\* Seeded fault: the reservation is given back whatever the cleanup found.
SettleAlways ==
    /\ co.at = "settle" /\ co.back # "drain"
    /\ ledger' = ledger - 1
    /\ Publish(co.job, FinalVerdict,
               [co EXCEPT !.at = IF co.clean THEN co.back ELSE "stop"], 0)
    /\ UNCHANGED <<now, queue, active, killed, missed, slots, result, os, capture>>

\* Ledger::release_worker only after a confirmed cleanup.
Settle ==
    /\ co.at = "settle" /\ co.back # "drain"
    /\ ledger' = IF co.clean THEN ledger - 1 ELSE ledger
    /\ Publish(co.job, FinalVerdict,
               [co EXCEPT !.at = IF co.clean THEN co.back ELSE "stop"], 0)
    /\ UNCHANGED <<now, queue, active, killed, missed, slots, result, os, capture>>

-----------------------------------------------------------------------------
(* stop_active: the batch ends early *)

\* Seeded fault: the programs are cleaned up one by one, each killed when
\* its turn comes.
StopOneByOne ==
    /\ Goes("stop", "drain")
    /\ UNCHANGED <<now, queue, active, killed, missed, ledger, slots, receipts, result,
                   faults, os, capture>>

\* Every running program is killed before any is waited for; a kill that fails
\* is tried once more when the program's turn comes.
Stop ==
    /\ co.at = "stop"
    /\ \E missing \in SUBSET ToSet(active) :
         /\ Kill(ToSet(active), missing)
         /\ faults + Spent(missing) <= Faults /\ faults' = faults + Spent(missing)
    /\ co' = [co EXCEPT !.at = "drain", !.by = Capped(now + Grace)]
    /\ UNCHANGED <<now, queue, active, ledger, slots, receipts, result, os, capture>>

\* One deadline for all of them.
Drain ==
    /\ co.at = "drain"
    /\ IF active = <<>>
       THEN co' = [co EXCEPT !.at = "end"] /\ result' = "error" /\ UNCHANGED active
       ELSE /\ co' = [Cleaning(Head(active), "none", "drain") EXCEPT !.by = co.by]
            /\ active' = Tail(active)
            /\ UNCHANGED result
    /\ UNCHANGED <<now, queue, killed, missed, ledger, slots, receipts, faults, os, capture>>

DrainSettled ==
    /\ co.at = "settle" /\ co.back = "drain"
    /\ ledger' = IF co.clean THEN ledger - 1 ELSE ledger
    /\ co' = [co EXCEPT !.at = "drain"]
    /\ UNCHANGED <<now, queue, active, killed, missed, slots, receipts, result, faults,
                   os, capture>>

-----------------------------------------------------------------------------
(* spawn_reader: the thread on one pipe *)

ReaderGoes(p, from, to) ==
    reader[p].at = from /\ reader' = [reader EXCEPT ![p].at = to]

coordinator == <<co, queue, active, killed, missed, ledger, slots, receipts, result>>

\* One round looks at the stop flag and then reads.
ReadStops(p) ==
    /\ reader[p].stop
    /\ ReaderGoes(p, "loop", "done")
    /\ UNCHANGED <<now, coordinator, os, kept, exceeded, readError, faults>>

\* CaptureState::append keeps what the limit leaves room for.
Append1(j) ==
    IF kept[j] < Limit
    THEN kept' = [kept EXCEPT ![j] = @ + 1] /\ UNCHANGED exceeded
    ELSE exceeded' = exceeded \cup {j} /\ UNCHANGED kept

ReadByte(p) ==
    /\ ~reader[p].stop /\ pipe[p] > 0
    /\ reader[p].at = "loop"
    /\ pipe' = [pipe EXCEPT ![p] = @ - 1]
    /\ Append1(p[1])
    /\ UNCHANGED <<now, coordinator, group, main, wrote, reader, readError, faults>>

\* No byte: the end of the pipe when no writer is left, else WouldBlock.
ReadNothing(p) ==
    /\ ~reader[p].stop /\ pipe[p] = 0
    /\ ReaderGoes(p, "loop", IF group[p[1]] = "empty" /\ p[1] \notin Outsider
                             THEN "done" ELSE "empty")
    /\ UNCHANGED <<now, coordinator, os, kept, exceeded, readError, faults>>

ReadFails(p) ==
    /\ ~reader[p].stop /\ Fault
    /\ ReaderGoes(p, "loop", "done")
    /\ readError' = readError \cup {p[1]}
    /\ UNCHANGED <<now, coordinator, os, kept, exceeded>>

\* After WouldBlock the reader ends if no producer is left.
CheckRetired(p) ==
    /\ ReaderGoes(p, "empty", IF reader[p].retired THEN "done" ELSE "loop")
    /\ UNCHANGED <<now, coordinator, os, kept, exceeded, readError, faults>>

-----------------------------------------------------------------------------
(* Programs and time *)

WriteByte(p) ==
    /\ group[p[1]] = "live" /\ wrote[p] < Bytes[p[1]] /\ main[p[1]] # "none"
    /\ wrote' = [wrote EXCEPT ![p] = @ + 1]
    /\ pipe' = [pipe EXCEPT ![p] = @ + 1]
    /\ UNCHANGED <<now, coordinator, group, main, capture, faults>>

MainExits(j, status) ==
    /\ main[j] = "running"
    /\ main' = [main EXCEPT ![j] = status]
    /\ UNCHANGED <<now, coordinator, group, wrote, pipe, capture, faults>>

\* The last process is gone: killed, or ended by itself.
GroupEmpties(j) ==
    /\ group[j] = "live"
    /\ j \in killed \/ main[j] \in {"ok", "bad"}
    /\ group' = [group EXCEPT ![j] = "empty"]
    /\ main' = [main EXCEPT ![j] = IF @ = "running" THEN "bad" ELSE @]
    /\ UNCHANGED <<now, coordinator, wrote, pipe, capture, faults>>

Tick ==
    /\ now < MaxTime
    /\ now' = now + 1
    /\ UNCHANGED <<coordinator, os, capture, faults>>

Coordinate ==
    \/ Loop \/ QueueTimeout \/ Reserve \/ AdmitNone
    \/ Started \/ SpawnFails \/ SpawnUnconfirmed
    \/ \E n \in 0..(Streams - 1) : SetupFails(n)
    \/ Scan \/ WaitFails \/ CleanupKill \/ GroupRetired \/ GroupUnconfirmed \/ FinishReader \/ Settle
    \/ Stop \/ Drain \/ DrainSettled

ReadStep(p) ==
    ReadStops(p) \/ ReadByte(p) \/ ReadNothing(p) \/ ReadFails(p) \/ CheckRetired(p)

Next ==
    \/ Coordinate
    \/ \E p \in Pipe : ReadStep(p) \/ WriteByte(p)
    \/ \E j \in Job : MainExits(j, "ok") \/ MainExits(j, "bad") \/ GroupEmpties(j)
    \/ Tick

Spec == Init /\ [][Next]_vars

\* The coordinator's thread runs and time passes; neither programs, groups
\* nor reader threads owe anything.
FairSpec == Spec /\ WF_vars(Coordinate) /\ WF_vars(Tick)

-----------------------------------------------------------------------------
(* Properties *)

Unfinished(j) == \E s \in 1..Streams : ~Finished(<<j, s>>)

\* Every group that may still use memory and every reader that may still
\* run is covered by a reservation, of which there are never more than the
\* budget has room for, and none is returned twice (reserve_worker,
\* release_worker, every failure path).
MemoryCovered ==
    /\ TypeOK
    /\ Cardinality({j \in Job : group[j] = "live" \/ Unfinished(j)}) <= ledger
    /\ ledger <= MaxRunning
    /\ slots <= ledger

\* A completed program ended by itself with success, its output is within
\* the limit and nothing of it is left (the second look at the capture).  The
\* summary is only written when all reservations came back and every job got
\* its receipt; success means all of them completed.
ReceiptsSound ==
    /\ \A j \in Job : receipt[j] = "completed" =>
         /\ main[j] = "ok" /\ group[j] = "empty"
         /\ j \notin exceeded \cup readError /\ ~Unfinished(j)
    /\ result \in {"ok", "failed"} =>
         /\ ledger = 0 /\ slots = 0
         /\ \A j \in ToSet(Jobs) :
              receipt[j] \notin {"none", "torn", "cleanup_unconfirmed"}
         /\ result = "ok" <=> \A j \in ToSet(Jobs) : receipt[j] = "completed"

\* When the batch is given up, every program that is still there was sent a kill
\* before the first wait, or its own kill failed, and no receipt says of it that
\* it is over (stop_active and cleanup_worker, which ignore failing kills).
AbortKills ==
    co.at = "drain" \/ result = "error" =>
      \A j \in Job : group[j] = "live" =>
        /\ j \in killed \cup missed
        /\ receipt[j] \in {"none", "torn", "cleanup_unconfirmed"}

\* The command ends, although programs, their groups and the readers may
\* hang: every wait of the coordinator has a deadline.
CommandEnds == <>(result # "running")

=============================================================================
