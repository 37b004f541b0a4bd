---------------------------- MODULE TaskContract ----------------------------
(***************************************************************************)
(* What the task runtime promises about one submitted piece of user work,  *)
(* whatever threads take part: the captured work starts at most once and   *)
(* never after a cancellation; its outcome is published once, after the    *)
(* work is gone; a published outcome says whether the task was cancelled;  *)
(* and the runtime forgets the task only after all of that.                *)
(***************************************************************************)
CONSTANT Tasks

Outcomes == {"Completed", "Failed", "Panicked"}

\* The outcome each reason for a cancellation produces.
Terminations == [Cancelled |-> "Cancelled", TimedOut |-> "TimedOut"]

VARIABLES
    captured,   \* the user's work exists: it can run, or be destroyed
    started,    \* it was started
    cause,      \* why the task was cancelled, "none" if it was not
    outcome,    \* "none" until the outcome is published
    retired     \* the runtime has given the task up

vars == <<captured, started, cause, outcome, retired>>

Init ==
    /\ captured = [t \in Tasks |-> FALSE]
    /\ started = [t \in Tasks |-> FALSE]
    /\ cause = [t \in Tasks |-> "none"]
    /\ outcome = [t \in Tasks |-> "none"]
    /\ retired = [t \in Tasks |-> FALSE]

Submit(t) ==
    /\ ~captured[t] /\ outcome[t] = "none" /\ ~started[t] /\ cause[t] = "none"
    /\ captured' = [captured EXCEPT ![t] = TRUE]
    /\ UNCHANGED <<started, cause, outcome, retired>>

Cancel(t) ==
    /\ cause[t] = "none" /\ outcome[t] = "none"
    /\ \E why \in DOMAIN Terminations : cause' = [cause EXCEPT ![t] = why]
    /\ UNCHANGED <<captured, started, outcome, retired>>

Start(t) ==
    /\ captured[t] /\ ~started[t] /\ cause[t] = "none" /\ outcome[t] = "none"
    /\ started' = [started EXCEPT ![t] = TRUE]
    /\ UNCHANGED <<captured, cause, outcome, retired>>

\* The work is over, or was destroyed without running.
Drop(t) ==
    /\ captured[t]
    /\ captured' = [captured EXCEPT ![t] = FALSE]
    /\ UNCHANGED <<started, cause, outcome, retired>>

\* A task that never started may be rejected while its constructor still exists.
Settle(t) ==
    /\ outcome[t] = "none" /\ (captured[t] => ~started[t])
    /\ \E why \in {"none"} \cup DOMAIN Terminations :
         /\ cause[t] # "none" => why = cause[t]
         /\ cause' = [cause EXCEPT ![t] = why]
         /\ IF why = "none"
            THEN \E o \in Outcomes : outcome' = [outcome EXCEPT ![t] = o]
            ELSE outcome' = [outcome EXCEPT ![t] = Terminations[why]]
    /\ UNCHANGED <<captured, started, retired>>

Retire(t) ==
    /\ outcome[t] # "none" /\ ~captured[t] /\ ~retired[t]
    /\ retired' = [retired EXCEPT ![t] = TRUE]
    /\ UNCHANGED <<captured, started, cause, outcome>>

Next == \E t \in Tasks : Submit(t) \/ Cancel(t) \/ Start(t) \/ Drop(t)
                           \/ Settle(t) \/ Retire(t)

Spec == Init /\ [][Next]_vars

=============================================================================
