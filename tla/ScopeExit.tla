------------------------------ MODULE ScopeExit ------------------------------
(***************************************************************************)
(* How the interpreter leaves scopes that own tasks:                       *)
(* src/src/runtime/interpreter/cancellation.rs and cancellation/exit.rs    *)
(* on top of task/cancel_batch.rs and task/retirement.rs.                  *)
(*                                                                         *)
(* One frame leaves the scopes 1 .. Depth, the innermost first.  Each exit *)
(* is the state machine ExitState; a scope may be the body of a try        *)
(* statement whose finally block runs after it.  The child tasks, the      *)
(* clock and whoever cancels the frame's own task move at any time.        *)
(***************************************************************************)
EXTENDS Integers, FiniteSets

CONSTANTS
    Child,            \* tasks owned by the frame
    Depth,            \* scopes, 1 is the innermost
    Movable,          \* tasks a return statement moves into its value
    Modes,            \* what a frame may be like: see mode
    Finally,          \* scopes followed by a finally block
    Budget,           \* the cleanup budget of a new context, one second
    Grace,            \* HTTP_HANDLER_CLEANUP_GRACE
    HandlerDeadline,  \* the deadline of an HTTP handler
    MaxTime           \* bound of the clock

ASSUME ScopeAssumption ==
    /\ Depth \in Nat \ {0} /\ Budget \in Nat \ {0} /\ Grace \in Nat
    /\ HandlerDeadline \in Nat /\ MaxTime \in Nat
    /\ Movable \subseteq Child
    /\ Finally \subseteq 1..Depth
    /\ Modes \subseteq [opaque : SUBSET (0..Depth), witnessed : BOOLEAN]

Labels == {"body", "exit", "wait", "poll", "release", "drop", "teardown",
           "retire", "check", "arbitrate", "discard", "discarding", "done",
           "finally", "leave", "end"}

\* A RuntimeTermination: its reason and its absolute deadline.
Contexts == [why : {"none", "cancelled", "timedout"}, by : 0..MaxTime + 1]
NoContext == [why |-> "none", by |-> MaxTime + 1]
Present(c) == c.why # "none"
Context(why, by) == [why |-> why, by |-> IF by > MaxTime THEN MaxTime ELSE by]

\* The first cause stays; every context may tighten the deadline.
Join(a, b) == [why |-> IF Present(a) THEN a.why ELSE b.why,
               by |-> IF a.by < b.by THEN a.by ELSE b.by]

\* What a block evaluates to: a Flow, an error, or the typed termination.
Outcomes == [kind : {"none", "continue", "return", "fatal", "shutdown", "term"},
             cleanup : Contexts]
Outcome(kind, c) == [kind |-> kind, cleanup |-> c]
IsFlow(o) == o.kind \in {"continue", "return"}

Results == {"none", "ok", "error", "late"}
Failed(r) == r \in {"error", "late"}

VARIABLES
    mode,        \* the scopes (0: a returned value) whose tasks cannot be
                 \* collected, and whether exits keep retirement witnesses
    now,
    at,          \* the frame's phase
    level,       \* the scope it is in
    out,         \* the sole outcome
    x,           \* ExitState of the current scope
    alt,         \* what replaces a discarded outcome, and where it goes on
    guard,       \* the cleanup context of a protected finally block
    term,        \* Interpreter::termination
    taskCancel,  \* the cancellation of the frame's own task
    requested,   \* somebody else cancelled the frame's task
    home,        \* who owns a child: a scope, or 0 for the value in out
    life,        \* running, terminal, retired
    asked,       \* the cancellation of a child
    released     \* children whose owner was released

child == <<home, life, asked, released>>
vars == <<mode, now, at, level, out, x, alt, guard, term, taskCancel, requested,
          home, life, asked, released>>

ExitStates == [ctx : Contexts, expired : BOOLEAN, handles : SUBSET Child,
               collected : Results, settled : Results, cleanup : Results]
NoExit == [ctx |-> NoContext, expired |-> FALSE, handles |-> {},
           collected |-> "none", settled |-> "none", cleanup |-> "none"]

TypeOK ==
    /\ mode \in Modes
    /\ now \in 0..MaxTime
    /\ at \in Labels /\ level \in 1..Depth
    /\ out \in Outcomes /\ x \in ExitStates
    /\ alt \in [out : Outcomes, then : {"done", "leave"}]
    /\ guard \in Contexts /\ term \in Contexts /\ taskCancel \in Contexts
    /\ requested \in BOOLEAN
    /\ home \in [Child -> 0..Depth]
    /\ life \in [Child -> {"running", "terminal", "retired"}]
    /\ asked \in [Child -> Contexts]
    /\ released \subseteq Child

Init ==
    /\ mode \in Modes
    /\ now = 0
    /\ at = "body" /\ level = 1
    /\ out = Outcome("none", NoContext)
    /\ x = NoExit
    /\ alt = [out |-> Outcome("none", NoContext), then |-> "done"]
    /\ guard = NoContext /\ term = NoContext /\ taskCancel = NoContext
    /\ requested = FALSE
    /\ home \in [Child -> 1..Depth]
    /\ life = [c \in Child |-> "running"]
    /\ asked = [c \in Child |-> NoContext]
    /\ released = {}

Goes(from, to) == at = from /\ at' = to

HeldBy(owners) == {c \in Child : home[c] \in owners}

\* request_cancel_with: a finished child is left alone.
Ask(children, c) ==
    asked' = [k \in Child |-> IF k \in children /\ life[k] = "running"
                              THEN Join(asked[k], c) ELSE asked[k]]

\* The last owner of the children goes: release_owner asks as well.
ReleaseOwner(children, c) == Ask(children, c) /\ released' = released \cup children

\* latch_termination.  Without a task of its own the frame only sets term;
\* taskCancel then repeats it, which no reader can tell apart.
Latch(c) ==
    /\ taskCancel' = Join(taskCancel, c)
    /\ term' = Join(term, taskCancel')

ObserveTermination(o) ==
    IF o.kind = "term" THEN Latch(o.cleanup) ELSE UNCHANGED <<term, taskCancel>>

\* scope_cleanup_context, with the termination and cancellation given: the
\* thread's execution termination equals term.
ScopeCleanupContext(t, carried, cancel) == Join(Join(t, carried), cancel)

\* remember_cleanup and remember_scope_cleanup: Continue keeps nothing.
Remember(o, c) ==
    IF o.kind = "continue" \/ ~Present(c) THEN o
    ELSE [o EXCEPT !.cleanup = Join(o.cleanup, c)]

-----------------------------------------------------------------------------
(* The body of a block *)

\* Statements run to the end, return, or raise an ordinary error.
BodyEnds(kind) ==
    /\ Goes("body", "exit")
    /\ out' = Outcome(kind, NoContext)
    /\ home' = [c \in Child |-> IF kind = "return" /\ c \in Movable /\ home[c] = level
                                THEN 0 ELSE home[c]]
    /\ UNCHANGED <<mode, now, level, x, alt, guard, term, taskCancel,
                   requested, life, asked, released>>

\* What poll_termination finds: the task's cancellation, then the deadline
\* of the handler.
Found == IF now >= HandlerDeadline
         THEN Join(taskCancel, Context("timedout", now + Grace)) ELSE taskCancel

\* tick polls before every statement.
BodyPolls ==
    /\ Goes("body", "exit")
    /\ Present(Join(term, Found))
    /\ Latch(Found)
    /\ out' = Outcome("term", term')
    /\ UNCHANGED <<mode, now, level, x, alt, guard, requested, child>>

-----------------------------------------------------------------------------
(* ExitState *)

\* ExitState::new and begin.  A scope whose tasks cannot be collected hands
\* over the ones found so far.
Enter(handles) ==
    /\ Goes("exit", "wait")
    /\ IF level \in mode.opaque THEN handles \subseteq HeldBy({level})
                           ELSE handles = HeldBy({level})
    /\ ObserveTermination(out)
    /\ LET found == ScopeCleanupContext(term', out.cleanup, taskCancel')
           ctx == IF Present(found) \/ handles = {} THEN found
                  ELSE Context("cancelled", now + Budget)
       IN  /\ x' = [NoExit EXCEPT
                      !.ctx = ctx,
                      !.expired = Present(ctx) /\ now >= ctx.by,
                      !.handles = handles,
                      !.collected = IF level \in mode.opaque THEN "error" ELSE "ok"]
           /\ out' = Remember(out, ctx)
    /\ UNCHANGED <<mode, now, level, alt, guard, requested, child>>

\* What cancel_visible_children can reach from a scope: nothing when one of
\* the scopes outside cannot be collected.
Visible(from) == IF \E l \in from..Depth : l \in mode.opaque THEN {}
                 ELSE HeldBy(from..Depth)

\* prepare_terminal: all tasks are asked before any is waited for.
PrepareTerminal ==
    /\ at = "wait"
    /\ IF x.handles = {}
       THEN /\ at' = "release"
            /\ x' = [x EXCEPT !.settled = "ok"]
            /\ UNCHANGED asked
       ELSE /\ at' = "poll"
            /\ Ask(x.handles \cup (IF Present(term) THEN Visible(level) ELSE {}),
                   x.ctx)
            /\ UNCHANGED x
    /\ UNCHANGED <<mode, now, level, out, alt, guard, term, taskCancel,
                   requested, home, life, released>>

\* Seeded fault: the wait has no deadline.
PollTerminalForever ==
    /\ Goes("poll", "release")
    /\ \A c \in x.handles : life[c] # "running"
    /\ x' = [x EXCEPT !.settled = "ok"]
    /\ UNCHANGED <<mode, now, level, out, alt, guard, term, taskCancel,
                   requested, child>>

\* TaskCancelBatch::poll: a terminal set succeeds whatever the time.
PollTerminal ==
    /\ Goes("poll", "release")
    /\ IF \A c \in x.handles : life[c] # "running"
       THEN x' = [x EXCEPT !.settled = "ok"]
       ELSE now >= x.ctx.by /\ x' = [x EXCEPT !.settled = "late"]
    /\ UNCHANGED <<mode, now, level, out, alt, guard, term, taskCancel,
                   requested, child>>

\* release_owners
ReleaseOwners ==
    /\ Goes("release", "drop")
    /\ ReleaseOwner(x.handles, ScopeCleanupContext(term, x.ctx, taskCancel))
    /\ UNCHANGED <<mode, now, level, out, x, alt, guard, term, taskCancel,
                   requested, home, life>>

\* drop_handles: collected.and(settled).
DropHandles ==
    /\ Goes("drop", "teardown")
    /\ x' = [x EXCEPT !.cleanup = IF Failed(x.collected) THEN x.collected ELSE x.settled,
                      !.ctx = ScopeCleanupContext(term, x.ctx, taskCancel)]
    /\ UNCHANGED <<mode, now, level, out, alt, guard, term, taskCancel,
                   requested, child>>

\* The adapter's teardown: the environment and with it every owner left in
\* the scope is dropped.  A destructor may have tightened the deadline to d.
Teardown(d) ==
    /\ Goes("teardown", IF mode.witnessed /\ x.handles # {} THEN "retire" ELSE "check")
    /\ LET ctx == ScopeCleanupContext(term, x.ctx, taskCancel)
           drop == IF Present(ctx) THEN ctx ELSE Context("cancelled", now + Budget)
       IN  /\ d = ctx.by \/ (Present(ctx) /\ d \in now..ctx.by)
           /\ x' = [x EXCEPT !.ctx = [ctx EXCEPT !.by = d]]
           /\ ReleaseOwner(HeldBy({level}), drop)
    /\ UNCHANGED <<mode, now, level, out, alt, guard, term, taskCancel,
                   requested, home, life>>

\* The deadline a scan of the witnesses leaves.
ScannedBy(ctx) ==
    LET all == {ctx.by} \cup {asked[c].by : c \in x.handles}
    IN  CHOOSE d \in all : \A e \in all : d <= e

\* Seeded fault: a terminal task counts as retired.
PollRetirementTerminal ==
    /\ Goes("retire", "check")
    /\ \A c \in x.handles : life[c] # "running"
    /\ UNCHANGED <<mode, now, level, out, x, alt, guard, term, taskCancel,
                   requested, child>>

\* poll_retirement and finish_retirement
PollRetirement ==
    /\ Goes("retire", "check")
    /\ LET ctx == ScopeCleanupContext(term, x.ctx, taskCancel)
           by == ScannedBy(ctx)
           retired == \A c \in x.handles : life[c] = "retired"
           result == IF retired THEN "ok" ELSE "late"
       IN  /\ retired \/ now >= by
           /\ x' = [x EXCEPT !.ctx = [ctx EXCEPT !.by = by],
                             !.cleanup = IF Failed(@) THEN @ ELSE result]
    /\ UNCHANGED <<mode, now, level, out, alt, guard, term, taskCancel,
                   requested, child>>

\* Seeded fault: the clock is read only at the end of the exit, against a
\* new budget.
DeadlineCheckRenewed ==
    /\ Goes("check", "arbitrate")
    /\ LET ctx == IF Present(x.ctx) THEN Context(x.ctx.why, now + Budget) ELSE x.ctx
       IN  x' = [x EXCEPT !.ctx = ctx]
           /\ out' = IF IsFlow(out) /\ Present(ctx) THEN Outcome(out.kind, ctx) ELSE out
    /\ UNCHANGED <<mode, now, level, alt, guard, term, taskCancel, requested,
                   child>>

\* deadline_check: a cleanup that met every wait may still be late.
DeadlineCheck ==
    /\ Goes("check", "arbitrate")
    /\ out' = Remember(out, x.ctx)
    /\ x' = IF /\ Present(x.ctx) /\ ~Failed(x.cleanup)
               /\ x.expired \/ now >= x.ctx.by
            THEN [x EXCEPT !.cleanup = "late"] ELSE x
    /\ UNCHANGED <<mode, now, level, alt, guard, term, taskCancel, requested,
                   child>>

\* Seeded fault: the termination error of the late cleanup is installed as is.
CleanupErrorUnmapped == Outcome(IF x.cleanup = "late" THEN "term" ELSE "fatal", NoContext)

\* install_cleanup_error: a late cleanup is the ordinary error
\* task/shutdown_timeout, never a termination of the frame.
CleanupError == Outcome(IF x.cleanup = "late" THEN "shutdown" ELSE "fatal", NoContext)

\* arbitrate: a typed termination wins over the cleanup's failure, which
\* otherwise replaces the outcome; a context means the outcome is discarded
\* by its own phase.
Arbitrate ==
    /\ at = "arbitrate"
    /\ CASE ~Failed(x.cleanup) ->
              at' = "done" /\ UNCHANGED <<out, alt, asked, released>>
         [] Failed(x.cleanup) /\ out.kind = "term" ->
              at' = "done" /\ UNCHANGED <<out, alt, asked, released>>
         [] Failed(x.cleanup) /\ out.kind # "term" /\ Present(x.ctx) ->
              /\ at' = "discard"
              /\ alt' = [out |-> Remember(CleanupError, x.ctx), then |-> "done"]
              /\ UNCHANGED <<out, asked, released>>
         [] Failed(x.cleanup) /\ out.kind # "term" /\ ~Present(x.ctx) ->
              /\ at' = "done"
              /\ out' = CleanupError
              /\ ReleaseOwner(HeldBy({0}), Context("cancelled", now + Budget))
              /\ UNCHANGED alt
    /\ UNCHANGED <<mode, now, level, x, guard, term, taskCancel, requested,
                   home, life>>

-----------------------------------------------------------------------------
(* DiscardState: an outcome that will not be returned *)

DiscardContext == Remember(alt.out, x.ctx).cleanup

\* install_cleanup_error joins the deadlines met while discarding; a finally
\* block's replacement was complete before.
Installed == IF alt.then = "leave" THEN alt.out
             ELSE Remember(alt.out, ScopeCleanupContext(term, x.ctx, taskCancel))

\* The outcome and the tasks its value owns are dropped.
DropOutcome ==
    /\ at' = alt.then
    /\ out' = Installed
    /\ ReleaseOwner(HeldBy({0}), DiscardContext)

\* Collect, and the broadcast to what was collected.
Discard ==
    /\ at = "discard"
    /\ IF out.kind # "return" \/ 0 \in mode.opaque
       THEN DropOutcome
       ELSE /\ at' = "discarding"
            /\ Ask(HeldBy({0}), DiscardContext)
            /\ UNCHANGED <<out, released>>
    /\ UNCHANGED <<mode, now, level, x, alt, guard, term, taskCancel,
                   requested, home, life>>

\* cancel_handles_and_wait
Discarding ==
    /\ at = "discarding"
    /\ LET ended == \A c \in HeldBy({0}) : life[c] # "running"
       IN  /\ ended \/ now >= DiscardContext.by
           /\ DropOutcome
    /\ UNCHANGED <<mode, now, level, x, alt, guard, term, taskCancel,
                   requested, home, life>>

-----------------------------------------------------------------------------
(* The finally block of a try statement, and the way out *)

\* Seeded fault: only the tasks of the scope just left were asked.
PrepareFinallySilent ==
    /\ at = "done" /\ level \in Finally
    /\ at' = IF out.kind \in {"fatal", "shutdown"} THEN "leave" ELSE "finally"
    /\ ObserveTermination(out)
    /\ guard' = IF out.kind = "term" THEN term' ELSE NoContext
    /\ x' = NoExit
    /\ UNCHANGED <<mode, now, level, out, alt, requested, child>>

\* prepare_finally: skipped after an ordinary error, protected during a
\* termination; then every task still owned by the frame is asked first.
PrepareFinally ==
    /\ at = "done" /\ level \in Finally
    /\ at' = IF out.kind \in {"fatal", "shutdown"} THEN "leave" ELSE "finally"
    /\ ObserveTermination(out)
    /\ x' = NoExit
    /\ IF out.kind = "term"
       THEN /\ guard' = term'
            /\ Ask(Visible(level + 1), term')
       ELSE guard' = NoContext /\ UNCHANGED asked
    /\ UNCHANGED <<mode, now, level, out, alt, requested, home, life,
                   released>>

\* Seeded fault: the finally block's own outcome wins.
ProtectedEndsReplaced(kind) ==
    /\ Goes("finally", "leave") /\ Present(guard)
    /\ out' = IF kind = "continue" THEN Outcome("term", guard) ELSE Outcome(kind, guard)
    /\ guard' = NoContext
    /\ UNCHANGED <<mode, now, level, x, alt, term, taskCancel, requested,
                   child>>

\* finish_finally of a protected block: whatever it ended with is dropped
\* and the first cause returned.
ProtectedEnds(kind) ==
    /\ Goes("finally", "leave") /\ Present(guard)
    /\ out' = Outcome("term", guard)
    /\ guard' = NoContext
    /\ UNCHANGED <<mode, now, level, x, alt, term, taskCancel, requested,
                   child>>

\* poll_termination in a protected block: it lets the statements run until
\* the deadline, then ends the block with the termination.
ProtectedPolls ==
    /\ at = "finally" /\ Present(guard)
    /\ Latch(Join(Found, guard))
    /\ IF now < Join(term', guard).by
       THEN UNCHANGED <<at, out, guard>>
       ELSE /\ at' = "leave"
            /\ out' = Outcome("term", guard)
            /\ guard' = NoContext
    /\ UNCHANGED <<mode, now, level, x, alt, requested, child>>

\* finish_finally of an ordinary block that falls through.
OrdinaryContinues ==
    /\ Goes("finally", "leave") /\ ~Present(guard)
    /\ UNCHANGED <<mode, now, level, out, x, alt, guard, term, taskCancel,
                   requested, child>>

\* finish_finally of an ordinary block with an outcome of its own: the
\* earlier outcome is discarded under the context it carried.
OrdinaryReplaces(kind) ==
    /\ Goes("finally", "discard") /\ ~Present(guard)
    /\ IF kind = "term"
       THEN Present(Join(term, Found)) /\ Latch(Found)
       ELSE UNCHANGED <<term, taskCancel>>
    /\ LET fresh == Join(taskCancel', Context("cancelled", now + Budget))
           ctx == IF Present(term') THEN term'
                  ELSE IF Present(out.cleanup) THEN out.cleanup ELSE fresh
           replacement == Outcome(kind, IF kind = "term" THEN term' ELSE NoContext)
       IN  /\ alt' = [out |-> Remember(replacement, ctx), then |-> "leave"]
           /\ x' = [NoExit EXCEPT !.ctx = ctx]
    /\ UNCHANGED <<mode, now, level, out, guard, requested, child>>

\* The outcome goes to the enclosing scope, which goes on after Continue.
Leave ==
    /\ \/ at = "leave"
       \/ at = "done" /\ level \notin Finally
    /\ x' = NoExit
    /\ IF level = Depth THEN at' = "end" /\ UNCHANGED <<level, out>>
       ELSE /\ level' = level + 1
            /\ at' = IF out.kind = "continue" THEN "body" ELSE "exit"
            /\ out' = IF out.kind = "continue" THEN Outcome("none", NoContext) ELSE out
    /\ UNCHANGED <<mode, now, alt, guard, term, taskCancel, requested, child>>

-----------------------------------------------------------------------------
(* The rest of the program *)

frame == <<at, level, out, x, alt, guard, term>>

Tick ==
    /\ now < MaxTime
    /\ now' = now + 1
    /\ UNCHANGED <<mode, frame, taskCancel, requested, child>>

\* Somebody cancels the frame's task, or tightens its deadline.
CancelTask(why, by) ==
    /\ at # "end"
    /\ taskCancel' = Join(taskCancel, Context(why, by))
    /\ requested' = TRUE
    /\ UNCHANGED <<mode, now, frame, child>>

ChildEnds(c) ==
    /\ life[c] = "running"
    /\ life' = [life EXCEPT ![c] = "terminal"]
    /\ UNCHANGED <<mode, now, frame, taskCancel, requested, home, asked,
                   released>>

\* Completion, queue node, blocking calls and accounting of a released
\* child are all gone: TaskRetirementWitness::observe.
ChildRetires(c) ==
    /\ life[c] = "terminal" /\ c \in released
    /\ life' = [life EXCEPT ![c] = "retired"]
    /\ UNCHANGED <<mode, now, frame, taskCancel, requested, home, asked,
                   released>>

Flows == {"continue", "return", "fatal"}

Exit ==
    \/ \E handles \in SUBSET Child : Enter(handles)
    \/ PrepareTerminal \/ PollTerminal \/ ReleaseOwners \/ DropHandles
    \/ \E d \in 0..MaxTime + 1 : Teardown(d)
    \/ PollRetirement \/ DeadlineCheck \/ Arbitrate
    \/ Discard \/ Discarding
    \/ PrepareFinally \/ Leave

User ==
    \/ \E kind \in Flows : BodyEnds(kind)
    \/ BodyPolls
    \/ \E kind \in Flows : ProtectedEnds(kind)
    \/ ProtectedPolls
    \/ OrdinaryContinues
    \/ \E kind \in (Flows \ {"continue"}) \cup {"term"} : OrdinaryReplaces(kind)

Next ==
    \/ Exit \/ User \/ Tick
    \/ \E why \in {"cancelled", "timedout"}, by \in {now, now + Budget} :
         CancelTask(why, by)
    \/ \E c \in Child : ChildEnds(c) \/ ChildRetires(c)

Spec == Init /\ [][Next]_vars

\* The interpreter's thread runs and time passes; children owe nothing.
FairSpec == Spec /\ WF_vars(Exit) /\ WF_vars(Tick)

-----------------------------------------------------------------------------
(* Properties *)

\* docs/semantics.md: neither a finally block nor a failed cleanup may
\* overwrite the first cause of a termination (arbitrate, finish_finally).
CauseKept ==
    [][out.kind = "term" =>
         out'.kind = "term" /\ out'.cleanup.why = out.cleanup.why]_vars

\* Leaving a scope with tasks never marks a frame cancelled that nobody
\* cancelled and whose handler's time is not over (install_cleanup_error).
NormalParentNotCancelled ==
    ~requested /\ now < HandlerDeadline => out.kind # "term" /\ ~Present(term)

\* A scope returns its outcome only if every task it owned has ended, and
\* is retired where the exit keeps witnesses (drop_handles, poll_retirement).
SuccessMeansSettled ==
    /\ TypeOK
    /\ at = "done" /\ IsFlow(out) =>
      \A c \in HeldBy({level}) :
        life[c] # "running" /\ (mode.witnessed => life[c] = "retired")

\* While one outcome unwinds, the deadline its scopes share only tightens:
\* no scope, finally block or discard renews it.  Only a first termination
\* starts another, when it is found and when it becomes the outcome
\* (remember_context, scope_cleanup_context).
DueBy == Join(term, out.cleanup).by
Unwinding(o) == o.kind \notin {"none", "continue"}
BudgetShared ==
    [][ /\ Unwinding(out) /\ Unwinding(out')
        /\ Present(term) = Present(term')
        /\ out'.kind = "term" => out.kind = "term"
        => DueBy' <= DueBy ]_vars

\* No task outlives its owner unasked: once its scope is left, or the value
\* that held it is gone, it is released and asked; and before a protected
\* finally block runs, so is every task the frame can still reach (teardown,
\* DiscardState, cancel_visible_children in prepare_finally).
OwnedTasksAsked ==
    \A c \in Child :
      /\ \/ home[c] \in 1..Depth /\ (home[c] < level \/ (home[c] = level /\ at = "end"))
         \/ home[c] = 0 /\ at \in {"leave", "end"} /\ out.kind # "return"
         => c \in released /\ (life[c] = "running" => Present(asked[c]))
      /\ at = "finally" /\ Present(guard) /\ mode.opaque = {} /\ home[c] > level
         => (life[c] = "running" => Present(asked[c]))

\* Every exit ends, even when a child never does (PollTerminal, Discarding).
ExitEnds == (at = "exit") ~> (at = "done")

=============================================================================
