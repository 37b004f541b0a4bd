------------------------- MODULE ServiceSupervision -------------------------
(***************************************************************************)
(* ku service: the coordinator of src/src/service_supervision.rs and the   *)
(* child it owns (service_supervision/child.rs).  One thread polls the     *)
(* control socket, the child and the native health routes; it drains and   *)
(* retires a failed instance and replaces it within a restart intensity.   *)
(*                                                                         *)
(* A step is one poll, one probe round or one cleanup.  Between any two,   *)
(* the child can exit, a client can post /stop, a signal can arrive and    *)
(* time can pass.  Instants are ages and deadlines are remaining time, so  *)
(* no clock has to be bounded.  Tokens, metrics text and the bytes of the  *)
(* control protocol are left out.                                          *)
(***************************************************************************)
EXTENDS Integers, Sequences, FiniteSets, FiniteSetsExt

CONSTANTS
    FailureThreshold, RestartLimit, RestartWindow, BaseBackoff, MaxBackoff,
    StartupTimeout, DrainTimeout,   \* Policy, durations in ticks
    MaxGeneration,                  \* largest generation (u64::MAX in the code)
    Limited,                        \* the child runs in a memory-limited domain
    Faults                          \* bound: which of FaultKinds can happen

FaultKinds == {"launch", "unconfirmed", "io"}

ASSUME PolicyAssumption ==
    /\ {FailureThreshold, RestartLimit, RestartWindow, BaseBackoff, MaxBackoff,
        StartupTimeout, DrainTimeout, MaxGeneration} \subseteq Nat \ {0}
    /\ BaseBackoff <= MaxBackoff
    /\ Limited \in BOOLEAN /\ Faults \subseteq FaultKinds

Phases == {"starting", "ready", "unready", "draining", "backoff", "stopped"}

Places == {"top", "launch", "control", "observe", "probe", "deadline", "drain",
           "cleanup", "decide", "backoff", "ended"}

\* What follows a confirmed cleanup: InstanceEnd, or the error that ended it.
Continuations == {"stop", "exit", "failure", "error"}

\* Exit codes by what record_exit tells apart: 0, 75..80, any other or a signal.
Codes == {"zero", "runtime", "other"}

ExitReasons == {"normal_exit", "startup_exit", "process_exit"}
FailureReasons == {"liveness_failed", "startup_timeout"}
LastReasons == ExitReasons \cup FailureReasons
    \cup {"initial_start", "requested_stop", "launch_failed", "runtime_failure",
          "os_memory_limit"}

NotReady == -1

VARIABLES
    at,               \* where the coordinator is
    after,            \* what it does when the running cleanup is confirmed
    phase, generation, failures, last_reason, unfinished_work_possible,
    startup_ok,
    ready_since,      \* age of the first readiness, NotReady without one
    timer,            \* time left until the current deadline
    backoff,
    restart_times,    \* ages of the replacements, oldest first
    result,           \* how run_service_command returned
    (* the operating system *)
    launcher,         \* leader of the child's process group
    code,             \* exit code of the launcher
    members,          \* the group has other live processes
    (* stop requests *)
    stop_requested,   \* STOP_REQUESTED: a signal, or end of the host's pipe
    request,          \* POST /stop waiting in the listener
    acknowledged,     \* a POST /stop was answered with 202
    (* history *)
    killed,           \* the running child was terminated by the coordinator
    replaced          \* ages of all replacements ever granted, oldest first

statusVars == <<phase, generation, failures, last_reason, unfinished_work_possible>>
instanceVars == <<startup_ok, ready_since>>
restartVars == <<backoff, restart_times, replaced>>
osVars == <<launcher, code, members>>
stopVars == <<stop_requested, request, acknowledged>>

vars == <<at, after, statusVars, instanceVars, timer, restartVars, result,
          osVars, stopVars, killed>>

-----------------------------------------------------------------------------

Init ==
    /\ at = "top" /\ after = "stop" /\ result = "none"
    /\ phase = "starting" /\ generation = 0 /\ failures = 0
    /\ last_reason = "initial_start" /\ unfinished_work_possible = FALSE
    /\ startup_ok = FALSE /\ ready_since = NotReady /\ timer = 0
    /\ backoff = BaseBackoff /\ restart_times = << >> /\ replaced = << >>
    /\ launcher = "none" /\ code = "none" /\ members = FALSE
    /\ stop_requested = FALSE /\ request = FALSE /\ acknowledged = FALSE
    /\ killed = FALSE

\* Seeded fault: the signal flag is forgotten.
StopSeenRequestOnly == request

\* service_stop answers TRUE.
StopSeen == stop_requested \/ request

\* service_stop: the signal flag short-circuits the listener; otherwise one
\* pending request is accepted and answered.
ServiceStop ==
    /\ acknowledged' = (acknowledged \/ (request /\ ~stop_requested))
    /\ request' = (request /\ stop_requested)
    /\ UNCHANGED stop_requested

End(how) == at' = "ended" /\ result' = how

-----------------------------------------------------------------------------
(* run_service_command: the restart loop *)

\* A stop seen while no instance exists ends the command.
StopIdle ==
    /\ StopSeen
    /\ at = "top" \/ (at = "backoff" /\ timer > 0)
    /\ ServiceStop
    /\ End("ok")
    /\ UNCHANGED <<after, statusVars, instanceVars, timer, restartVars, osVars, killed>>

\* The listener, or fresh_token before a launch, fails while no instance exists.
FailIdle ==
    /\ "io" \in Faults
    /\ \/ at = "launch"
       \/ ~stop_requested /\ (at = "top" \/ (at = "backoff" /\ timer > 0))
    /\ End("error")
    /\ UNCHANGED <<after, statusVars, instanceVars, timer, restartVars, osVars,
                   stopVars, killed>>

NextGeneration ==
    /\ at = "top" /\ ~StopSeen /\ generation < MaxGeneration
    /\ at' = "launch"
    /\ generation' = generation + 1
    /\ phase' = "starting" /\ failures' = 0
    /\ UNCHANGED <<after, last_reason, unfinished_work_possible, instanceVars,
                   timer, restartVars, result, osVars, stopVars, killed>>

\* checked_add: the generation is never reused.
GenerationExhausted ==
    /\ at = "top" /\ ~StopSeen /\ ~(generation < MaxGeneration)
    /\ End("error")
    /\ UNCHANGED <<after, statusVars, instanceVars, timer, restartVars, osVars,
                   stopVars, killed>>

\* launch: the launcher is spawned behind its gate and then released.
Launch ==
    /\ at = "launch"
    /\ at' = "control"
    /\ launcher' = "running" /\ code' = "none" /\ members' = TRUE
    /\ startup_ok' = FALSE /\ ready_since' = NotReady /\ timer' = StartupTimeout
    /\ killed' = FALSE
    /\ UNCHANGED <<after, statusVars, restartVars, result, stopVars>>

\* A launch that failed and was cleaned up counts as a failed instance ...
LaunchFails ==
    /\ "launch" \in Faults /\ at = "launch"
    /\ at' = "decide"
    /\ last_reason' = "launch_failed"
    /\ UNCHANGED <<after, phase, generation, failures, unfinished_work_possible,
                   instanceVars, timer, restartVars, result, osVars, stopVars, killed>>

\* ... one that may have left a process refuses a replacement.
LaunchUnconfirmed ==
    /\ "unconfirmed" \in Faults /\ at = "launch"
    /\ launcher' = "running" /\ members' = TRUE
    /\ End("error")
    /\ UNCHANGED <<after, statusVars, instanceVars, timer, restartVars, code,
                   stopVars, killed>>

\* How many pop_front calls it takes until the front is within the window.
Expired == Min({n \in 0..Len(restart_times) :
                  n < Len(restart_times) => restart_times[n + 1] < RestartWindow})

\* The deque without the replacements that have left the window.
Pruned == SubSeq(restart_times, Expired + 1, Len(restart_times))

\* Seeded fault: one replacement too many.
IntensityExceededLate == Len(Pruned) > RestartLimit

IntensityExceeded == Len(Pruned) >= RestartLimit

\* A replacement is granted: it is recorded now and launched after the backoff.
GrantRestart ==
    /\ at = "decide" /\ ~IntensityExceeded
    /\ at' = "backoff" /\ phase' = "backoff"
    /\ restart_times' = Append(Pruned, 0)
    /\ replaced' = Append(replaced, 0)
    /\ timer' = backoff
    /\ UNCHANGED <<after, generation, failures, last_reason,
                   unfinished_work_possible, instanceVars, backoff, result,
                   osVars, stopVars, killed>>

RefuseRestart ==
    /\ at = "decide" /\ IntensityExceeded
    /\ phase' = "stopped"
    /\ End("intensity")
    /\ UNCHANGED <<after, generation, failures, last_reason,
                   unfinished_work_possible, instanceVars, timer, restartVars,
                   osVars, stopVars, killed>>

Doubled == IF backoff * 2 <= MaxBackoff THEN backoff * 2 ELSE MaxBackoff

\* Seeded fault: the wait starts over.
AfterBackoffWaits == "backoff"

AfterBackoff == "top"

\* The backoff is over; anything but a normal exit doubles the next one.
BackoffOver ==
    /\ at = "backoff" /\ timer = 0
    /\ at' = AfterBackoff
    /\ backoff' = IF last_reason = "normal_exit" THEN backoff ELSE Doubled
    /\ UNCHANGED <<after, statusVars, instanceVars, timer, restart_times, replaced,
                   result, osVars, stopVars, killed>>

-----------------------------------------------------------------------------
(* run_instance: one turn is control, observe, probe, deadline *)

\* drain_and_retire starts.
BeginDrain(reason, next) ==
    /\ at' = "drain" /\ after' = next
    /\ phase' = "draining" /\ last_reason' = reason /\ timer' = DrainTimeout

StopInstance ==
    /\ at = "control" /\ StopSeen
    /\ ServiceStop
    /\ BeginDrain("requested_stop", "stop")
    /\ UNCHANGED <<generation, failures, unfinished_work_possible, instanceVars,
                   restartVars, result, osVars, killed>>

ControlTurn ==
    /\ at = "control" /\ ~StopSeen
    /\ at' = "observe"
    /\ UNCHANGED <<after, statusVars, instanceVars, timer, restartVars, result,
                   osVars, stopVars, killed>>

\* Seeded fault: a terminated child is trusted to have finished its work.
UnfinishedIgnoresTermination(terminated, reason) == code # "zero"

\* record_exit: whether the application may have left work unfinished.
Unfinished(terminated, reason) ==
    terminated \/ code # "zero" \/ reason \in FailureReasons \cup {"os_memory_limit"}

\* record_exit: the runtime's own exit codes replace the reason.
RecordedReason(terminated, reason) ==
    IF ~terminated /\ code = "runtime" THEN "runtime_failure" ELSE reason

ExitReason ==
    IF code = "zero" THEN "normal_exit"
    ELSE IF ready_since = NotReady THEN "startup_exit" ELSE "process_exit"

\* try_wait reports the exit of the launcher, which stays unreaped.
ObserveExit ==
    /\ at = "observe" /\ launcher = "exited"
    /\ at' = "cleanup" /\ after' = "exit"
    /\ unfinished_work_possible' = Unfinished(FALSE, ExitReason)
    /\ last_reason' = RecordedReason(FALSE, ExitReason)
    /\ UNCHANGED <<phase, generation, failures, instanceVars, timer, restartVars,
                   result, osVars, stopVars, killed>>

ObserveRunning ==
    /\ at = "observe" /\ launcher # "exited"
    /\ at' = "probe"
    /\ UNCHANGED <<after, statusVars, instanceVars, timer, restartVars, result,
                   osVars, stopVars, killed>>

\* No probe is due, or the startup probe is refused.
NoHealth ==
    /\ at = "probe"
    /\ at' = "deadline"
    /\ UNCHANGED <<after, statusVars, instanceVars, timer, restartVars, result,
                   osVars, stopVars, killed>>

\* A live and a ready probe; only a process of the child can answer either.
Health(live, ready) ==
    LET failed == IF live THEN 0 ELSE failures + 1
    IN /\ at = "probe" /\ (ready => live)
       /\ (live \/ ~startup_ok) => (launcher = "running" \/ members)
       /\ startup_ok' = TRUE
       /\ failures' = failed
       /\ ready_since' = IF ready /\ ready_since = NotReady THEN 0 ELSE ready_since
       /\ IF failed >= FailureThreshold
          THEN BeginDrain("liveness_failed", "failure")
          ELSE /\ at' = "deadline"
               /\ phase' = IF ready THEN "ready" ELSE "unready"
               /\ UNCHANGED <<after, last_reason, timer>>
       /\ UNCHANGED <<generation, unfinished_work_possible, restartVars, result,
                      osVars, stopVars, killed>>

StartupTimedOut ==
    /\ at = "deadline" /\ ready_since = NotReady /\ timer = 0
    /\ BeginDrain("startup_timeout", "failure")
    /\ UNCHANGED <<generation, failures, unfinished_work_possible, instanceVars,
                   restartVars, result, osVars, stopVars, killed>>

NextTurn ==
    /\ at = "deadline" /\ ~(ready_since = NotReady /\ timer = 0)
    /\ at' = "control"
    /\ UNCHANGED <<after, statusVars, instanceVars, timer, restartVars, result,
                   osVars, stopVars, killed>>

\* An error of the listener or of try_wait terminates the child.
FailInstance ==
    /\ "io" \in Faults /\ at \in {"control", "observe", "drain"}
    /\ ~(at = "control" /\ stop_requested)
    /\ at' = "cleanup" /\ after' = "error"
    /\ killed' = (killed \/ launcher = "running")
    /\ UNCHANGED <<statusVars, instanceVars, timer, restartVars, result, osVars,
                   stopVars>>

-----------------------------------------------------------------------------
(* drain_and_retire, cleanup *)

\* The drain loop keeps serving the control socket but drops the answer.
DrainControl ==
    /\ at = "drain" /\ timer > 0 /\ request /\ ~stop_requested
    /\ ServiceStop
    /\ UNCHANGED <<at, after, statusVars, instanceVars, timer, restartVars,
                   result, osVars, killed>>

DrainExit ==
    /\ at = "drain" /\ launcher = "exited"
    /\ at' = "cleanup"
    /\ UNCHANGED <<after, statusVars, instanceVars, timer, restartVars, result,
                   osVars, stopVars, killed>>

\* The drain deadline passed: closing the lifetime pipe terminates the child.
DrainDeadline ==
    /\ at = "drain" /\ timer = 0 /\ launcher = "running"
    /\ at' = "cleanup" /\ killed' = TRUE
    /\ UNCHANGED <<after, statusVars, instanceVars, timer, restartVars, result,
                   osVars, stopVars>>

\* Seeded fault: the reaped launcher stands for the group.
GroupRetiredByLeader == launcher = "exited"

\* The launcher can be reaped and the group is empty.
GroupRetired == launcher = "exited" /\ ~members

\* A drained instance is recorded after its cleanup, an observed exit before it.
Retired(oom) ==
    LET drained == after \in {"stop", "failure"}
    IN /\ launcher' = "none"
       /\ last_reason' = IF oom THEN "os_memory_limit"
                         ELSE IF drained THEN RecordedReason(killed, last_reason)
                         ELSE last_reason
       /\ unfinished_work_possible' =
             (oom \/ IF drained THEN Unfinished(killed, last_reason)
                     ELSE unfinished_work_possible)

\* A child that exited after being ready for a whole window.
Stable == after = "exit" /\ ready_since >= RestartWindow

\* Only a confirmed cleanup gives the instance up.  The provider of a memory
\* limit may name the limit as the reason; a stable child resets the backoff.
CleanupConfirmed ==
    /\ at = "cleanup" /\ GroupRetired
    /\ \E oom \in {FALSE, Limited} : Retired(oom)
    /\ phase' = IF after \in {"stop", "failure"} THEN "stopped" ELSE phase
    /\ backoff' = IF Stable THEN BaseBackoff ELSE backoff
    /\ CASE after = "stop"  -> End("ok")
         [] after = "error" -> End("error")
         [] OTHER           -> at' = "decide" /\ UNCHANGED result
    /\ UNCHANGED <<after, generation, failures, instanceVars, timer, restart_times,
                   replaced, code, members, stopVars, killed>>

\* The provider cannot report on the child it has retired.
MetricsFail ==
    /\ "io" \in Faults /\ Limited /\ at = "cleanup" /\ GroupRetired
    /\ Retired(FALSE)
    /\ End("error")
    /\ UNCHANGED <<after, phase, generation, failures, instanceVars, timer,
                   restartVars, code, members, stopVars, killed>>

\* The cleanup grace is over, twice, and something is left: no replacement.
CleanupUnconfirmed ==
    /\ "unconfirmed" \in Faults /\ at = "cleanup" /\ ~GroupRetired
    /\ End("error")
    /\ UNCHANGED <<after, statusVars, instanceVars, timer, restartVars, osVars,
                   stopVars, killed>>

-----------------------------------------------------------------------------
(* Environment *)

\* The launcher exits with its target; descendants may outlive both.
ChildExits ==
    /\ launcher = "running" /\ launcher' = "exited"
    /\ code' \in Codes /\ members' \in BOOLEAN
    /\ UNCHANGED <<at, after, statusVars, instanceVars, timer, restartVars,
                   result, stopVars, killed>>

\* The group was sent SIGKILL: its processes die.
GroupDies ==
    /\ at = "cleanup" /\ ~GroupRetired
    /\ launcher' = "exited" /\ members' = FALSE
    /\ code' = IF launcher = "running" THEN "other" ELSE code
    /\ UNCHANGED <<at, after, statusVars, instanceVars, timer, restartVars,
                   result, stopVars, killed>>

Signal ==
    /\ at # "ended" /\ ~stop_requested
    /\ stop_requested' = TRUE
    /\ UNCHANGED <<at, after, statusVars, instanceVars, timer, restartVars,
                   result, osVars, request, acknowledged, killed>>

PostStop ==
    /\ at # "ended" /\ ~request
    /\ request' = TRUE
    /\ UNCHANGED <<at, after, statusVars, instanceVars, timer, restartVars,
                   result, osVars, stop_requested, acknowledged, killed>>

Older(age) == IF age = NotReady \/ age = RestartWindow THEN age ELSE age + 1

\* Time passes.  An age stops at the window, where it no longer matters.
Tick ==
    /\ at # "ended"
    /\ timer' = IF timer = 0 THEN 0 ELSE timer - 1
    /\ ready_since' = Older(ready_since)
    /\ restart_times' = [i \in DOMAIN restart_times |-> Older(restart_times[i])]
    /\ replaced' = [i \in DOMAIN replaced |-> Older(replaced[i])]
    /\ UNCHANGED <<at, after, statusVars, startup_ok, backoff, result, osVars,
                   stopVars, killed>>

-----------------------------------------------------------------------------

\* The coordinator's own steps; it is one thread.
Coordinator ==
    \/ StopIdle \/ NextGeneration \/ GenerationExhausted \/ Launch
    \/ GrantRestart \/ RefuseRestart \/ BackoffOver
    \/ StopInstance \/ ControlTurn \/ ObserveExit \/ ObserveRunning \/ NoHealth
    \/ (\E live, ready \in BOOLEAN : Health(live, ready))
    \/ StartupTimedOut \/ NextTurn
    \/ DrainControl \/ DrainExit \/ DrainDeadline \/ CleanupConfirmed

Failure ==
    \/ FailIdle \/ LaunchFails \/ LaunchUnconfirmed \/ FailInstance
    \/ CleanupUnconfirmed \/ MetricsFail

Environment == ChildExits \/ GroupDies \/ Signal \/ PostStop \/ Tick

Next == Coordinator \/ Failure \/ Environment

\* The coordinator is a thread the system schedules, time passes, and killed
\* processes die.  Nobody has to stop the service.
Spec == /\ Init /\ [][Next]_vars
        /\ WF_vars(Coordinator) /\ WF_vars(Tick) /\ WF_vars(GroupDies)

-----------------------------------------------------------------------------
(* Properties *)

\* The probe failures never pass the threshold, nor the backoff its maximum.
TypeOK ==
    /\ at \in Places /\ after \in Continuations
    /\ result \in {"none", "ok", "error", "intensity"}
    /\ phase \in Phases /\ generation \in 0..MaxGeneration
    /\ failures \in 0..FailureThreshold /\ last_reason \in LastReasons
    /\ unfinished_work_possible \in BOOLEAN /\ startup_ok \in BOOLEAN
    /\ ready_since \in {NotReady} \cup 0..RestartWindow
    /\ timer \in Nat /\ backoff \in 1..MaxBackoff
    /\ restart_times \in Seq(0..RestartWindow) /\ replaced \in Seq(0..RestartWindow)
    /\ launcher \in {"none", "running", "exited"} /\ code \in Codes \cup {"none"}
    /\ members \in BOOLEAN
    /\ stop_requested \in BOOLEAN /\ request \in BOOLEAN /\ acknowledged \in BOOLEAN
    /\ killed \in BOOLEAN

\* Two instances never overlap: whenever the coordinator holds no instance, no
\* process of an earlier one is left, neither the launcher nor a descendant.
NoOverlap ==
    at \in {"top", "launch", "decide", "backoff"} =>
        launcher = "none" /\ ~members

\* No window of restart_window sees more than restart_limit replacements,
\* however crashes, failed launches and liveness failures follow each other;
\* the backoff between them never passes its maximum (TypeOK).
IntensityBounded ==
    /\ TypeOK
    /\ Cardinality({i \in DOMAIN replaced : replaced[i] < RestartWindow}) <= RestartLimit

\* A child that was terminated, or exited with an error, is reported as possibly
\* leaving work unfinished until the next one is launched.
UnfinishedReported ==
    at \in {"decide", "backoff", "top"} /\ (killed \/ code \notin {"none", "zero"})
        => unfinished_work_possible

\* A signal ends the service, whatever it is doing and whatever the child does.
SignalEnds == stop_requested ~> at = "ended"

\* A child that died is replaced, unless the command ends.
CrashReplaced == launcher = "exited" ~> launcher = "running" \/ at = "ended"

\* An acknowledged POST /stop ends the service: no instance is started after it.
AcknowledgedStopIsFinal == [][acknowledged => generation' = generation]_vars

=============================================================================
