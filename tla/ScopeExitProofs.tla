--------------------------- MODULE ScopeExitProofs ---------------------------
(***************************************************************************)
(* Safety of ScopeExit for every nesting, set of tasks and budget.  Four   *)
(* inductive invariants follow the frame outwards: the one place where the *)
(* cause of a termination is kept (CauseInv), the deadline that only       *)
(* tightens (BudgetInv), what an exit knows about the tasks it took        *)
(* (SettleInv) and the tasks whose owner is gone (AskedInv).               *)
(***************************************************************************)
EXTENDS ScopeExit, WellFoundedInduction, TLAPS

\* An absent context has no deadline.
Sound == {c \in Contexts : ~Present(c) => c.by = MaxTime + 1}

SoundContexts ==
    /\ guard \in Sound /\ term \in Sound /\ taskCancel \in Sound
    /\ out.cleanup \in Sound /\ alt.out.cleanup \in Sound /\ x.ctx \in Sound

Exiting == {"wait", "poll", "release", "drop", "teardown", "retire", "check",
            "arbitrate"}
Discards == {"discard", "discarding"}
TornDown == {"retire", "check", "arbitrate", "discard", "discarding", "done",
             "finally", "leave", "end"}

\* The outcome, or the one about to be installed, carries the termination
\* under the cause that the interpreter latched first; nothing else does.
CauseInv ==
    /\ at = "body" => out.kind = "none"
    /\ Present(term) => \/ out.kind = "term"
                        \/ at \in Discards /\ alt.out.kind = "term"
    /\ out.kind = "term" => /\ Present(term) /\ Present(out.cleanup)
                            /\ out.cleanup.why = term.why
    /\ at \in Discards =>
         /\ out.kind # "term" /\ Present(x.ctx)
         /\ alt.out.kind \notin {"none", "continue"}
         /\ alt.then = "done" => alt.out.kind \in {"fatal", "shutdown"}
         /\ alt.out.kind = "term" => /\ Present(term) /\ Present(alt.out.cleanup)
                                     /\ alt.out.cleanup.why = term.why
    /\ Present(guard) => /\ at = "finally" /\ out.kind = "term"
                         /\ guard.why = term.why
    /\ at = "finally" /\ ~Present(guard) => out.kind # "term"
    /\ Present(term) \/ Present(taskCancel) => requested \/ now >= HandlerDeadline

\* The exit works under the tightest deadline met so far, and so does what
\* replaces the outcome.
BudgetInv ==
    /\ at \in Exiting => x.ctx.by <= term.by /\ x.ctx.by <= out.cleanup.by
    /\ at \in Discards /\ alt.out.kind # "term" =>
         alt.out.cleanup.by <= out.cleanup.by
    /\ Present(guard) => guard.by <= out.cleanup.by

\* An exit that has not failed took all tasks of its scope and saw each of
\* them end, or retire.
SettleInv ==
    /\ at \in Exiting =>
         /\ x.handles \subseteq HeldBy({level})
         /\ ~Failed(x.collected) => x.handles = HeldBy({level})
         /\ Present(x.ctx) \/ x.handles = {}
    /\ at \in {"release", "drop"} =>
         /\ x.settled \in {"ok", "late"}
         /\ x.settled = "ok" => \A c \in x.handles : life[c] # "running"
    /\ at \in {"teardown", "retire", "check", "arbitrate"} /\ ~Failed(x.cleanup) =>
         ~Failed(x.collected) /\ \A c \in x.handles : life[c] # "running"
    /\ at \in {"check", "arbitrate"} /\ ~Failed(x.cleanup) /\ mode.witnessed =>
         \A c \in x.handles : life[c] = "retired"
    /\ at = "done" /\ IsFlow(out) =>
         \A c \in HeldBy({level}) :
           life[c] # "running" /\ (mode.witnessed => life[c] = "retired")

LetGo(c) == c \in released /\ (life[c] = "running" => Present(asked[c]))

\* A task is let go with its scope's environment, or with the value that
\* held it.
AskedInv ==
    \A c \in Child :
      /\ home[c] \in 1..(level - 1) => LetGo(c)
      /\ at \in TornDown /\ home[c] = level => LetGo(c)
      /\ home[c] = 0 /\ out.kind # "return" => LetGo(c)
      /\ at = "finally" /\ Present(guard) /\ mode.opaque = {} /\ home[c] > level
         => (life[c] = "running" => Present(asked[c]))


-----------------------------------------------------------------------------
(* Contexts and outcomes *)

\* Join keeps the first cause and the tighter deadline.
LEMMA JoinFacts ==
    ASSUME NEW a \in Contexts, NEW b \in Contexts
    PROVE  /\ Join(a, b) \in Contexts
           /\ Present(Join(a, b)) <=> Present(a) \/ Present(b)
           /\ Present(a) => Join(a, b).why = a.why
           /\ ~Present(a) => Join(a, b).why = b.why
           /\ Join(a, b).by <= a.by /\ Join(a, b).by <= b.by
           /\ Join(a, b).by \in {a.by, b.by}
  BY ScopeAssumption DEF Join, Contexts, Present

\* A join of contexts without a deadline has none.
LEMMA JoinSound ==
    ASSUME NEW a \in Sound, NEW b \in Sound
    PROVE  Join(a, b) \in Sound
  BY JoinFacts, ScopeAssumption DEF Sound, Contexts

\* A new context has a cause and a deadline within the clock.
LEMMA ContextFacts ==
    ASSUME NEW why \in {"cancelled", "timedout"}, NEW t \in Nat
    PROVE  /\ Context(why, t) \in Sound
           /\ Present(Context(why, t)) /\ Context(why, t).why = why
           /\ Context(why, t).by <= MaxTime
  BY ScopeAssumption DEF Context, Sound, Contexts, Present

\* NoContext is the absent context.
LEMMA NoContextFacts ==
    NoContext \in Sound /\ ~Present(NoContext) /\ NoContext.by = MaxTime + 1
  BY ScopeAssumption DEF NoContext, Sound, Contexts, Present

\* Remembering a context keeps the outcome and its cause.
LEMMA RememberFacts ==
    ASSUME NEW o \in Outcomes, NEW c \in Contexts
    PROVE  /\ Remember(o, c) \in Outcomes
           /\ Remember(o, c).kind = o.kind
           /\ Remember(o, c).cleanup \in {o.cleanup, Join(o.cleanup, c)}
           /\ Present(c) /\ o.kind # "continue" =>
                Remember(o, c).cleanup = Join(o.cleanup, c)
           /\ ~Present(c) => Remember(o, c) = o
           /\ o.kind = "continue" => Remember(o, c) = o
  BY JoinFacts DEF Remember, Outcomes

\* Remembering a context tightens the deadline and loses no cause.
LEMMA RememberSound ==
    ASSUME NEW o \in Outcomes, o.cleanup \in Sound, NEW c \in Sound
    PROVE  /\ Remember(o, c) \in Outcomes /\ Remember(o, c).cleanup \in Sound
           /\ Remember(o, c).kind = o.kind
           /\ Remember(o, c).cleanup.by <= o.cleanup.by
           /\ Present(o.cleanup) => /\ Remember(o, c).cleanup.why = o.cleanup.why
                                    /\ Present(Remember(o, c).cleanup)
           /\ o.kind # "continue" /\ Present(c) =>
                /\ Present(Remember(o, c).cleanup)
                /\ Remember(o, c).cleanup.by <= c.by
                /\ ~Present(o.cleanup) => Remember(o, c).cleanup.why = c.why
           /\ c.by <= o.cleanup.by => c.by <= Remember(o, c).cleanup.by
  <1>1. c \in Contexts /\ o.cleanup \in Contexts /\ c.by \in Int /\ o.cleanup.by \in Int
    BY ScopeAssumption DEF Sound, Contexts
  <1>2. /\ Remember(o, c) \in Outcomes
        /\ Remember(o, c).kind = o.kind
        /\ Remember(o, c).cleanup \in {o.cleanup, Join(o.cleanup, c)}
        /\ Present(c) /\ o.kind # "continue" =>
             Remember(o, c).cleanup = Join(o.cleanup, c)
    BY <1>1, RememberFacts
  <1>3. /\ Join(o.cleanup, c) \in Sound
        /\ Join(o.cleanup, c).by <= o.cleanup.by /\ Join(o.cleanup, c).by <= c.by
        /\ Join(o.cleanup, c).by \in {o.cleanup.by, c.by}
        /\ Present(o.cleanup) => Join(o.cleanup, c).why = o.cleanup.why
        /\ ~Present(o.cleanup) => Join(o.cleanup, c).why = c.why
        /\ Present(Join(o.cleanup, c)) <=> Present(o.cleanup) \/ Present(c)
    BY <1>1, JoinFacts, JoinSound
  <1> QED
    BY <1>1, <1>2, <1>3

\* The fields of an outcome.
LEMMA OutcomeFacts ==
    ASSUME NEW kind \in {"none", "continue", "return", "fatal", "shutdown", "term"},
           NEW c \in Contexts
    PROVE  /\ Outcome(kind, c) \in Outcomes
           /\ Outcome(kind, c).kind = kind /\ Outcome(kind, c).cleanup = c
  BY DEF Outcome, Outcomes

\* A nonempty set of naturals has a least element.
LEMMA LeastNatural ==
    ASSUME NEW S \in SUBSET Nat, S # {}
    PROVE  \E d \in S : \A e \in S : d <= e
  <1>1. PICK d \in S : \A e \in S : ~(<<e, d>> \in OpToRel(<, Nat))
    BY WFMin, NatLessThanWellFounded, Zenon
  <1>2. \A e \in S : ~(e < d)
    BY <1>1 DEF OpToRel
  <1> QED
    BY <1>2

\* The scan of the witnesses can only tighten the deadline.
LEMMA ScanFacts ==
    ASSUME TypeOK, NEW ctx \in Contexts
    PROVE  /\ ScannedBy(ctx) \in 0..(MaxTime + 1) /\ ScannedBy(ctx) <= ctx.by
           /\ x.handles = {} => ScannedBy(ctx) = ctx.by
  <1> DEFINE all == {ctx.by} \cup {asked[c].by : c \in x.handles}
  <1>1. all \in SUBSET (0..(MaxTime + 1)) /\ ctx.by \in all
    BY ScopeAssumption DEF TypeOK, ExitStates, Contexts
  <1>2. \E d \in all : \A e \in all : d <= e
    <2>1. all \in SUBSET Nat /\ all # {}
      BY <1>1, ScopeAssumption
    <2> HIDE DEF all
    <2> QED
      BY <2>1, LeastNatural
  <1>3. ScannedBy(ctx) = CHOOSE d \in all : \A e \in all : d <= e
    BY DEF ScannedBy
  <1>4. ScannedBy(ctx) \in all /\ \A e \in all : ScannedBy(ctx) <= e
    <2> HIDE DEF all
    <2> QED
      BY <1>2, <1>3
  <1>5. x.handles = {} => all = {ctx.by}
    OBVIOUS
  <1> QED
    BY <1>1, <1>4, <1>5

-----------------------------------------------------------------------------
(* The parts the actions are made of *)

\* Types, and absent contexts without a deadline.
ShapeInv == TypeOK /\ SoundContexts

\* The contexts of a state.
LEMMA ShapeFacts ==
    ASSUME ShapeInv
    PROVE  /\ {term, taskCancel, guard, out.cleanup, alt.out.cleanup, x.ctx} \subseteq Sound
           /\ Sound \subseteq Contexts
           /\ out \in Outcomes /\ alt.out \in Outcomes /\ x \in ExitStates
           /\ now \in Nat /\ level \in 1..Depth
  BY ScopeAssumption DEF ShapeInv, TypeOK, SoundContexts, Sound

\* A cleanup context is present if one of its parts is, and due with the
\* first of them.
LEMMA CleanupContextFacts ==
    ASSUME NEW t \in Sound, NEW a \in Sound, NEW b \in Sound
    PROVE  /\ ScopeCleanupContext(t, a, b) \in Sound
           /\ Present(ScopeCleanupContext(t, a, b)) <=> Present(t) \/ Present(a) \/ Present(b)
           /\ ScopeCleanupContext(t, a, b).by <= t.by
           /\ ScopeCleanupContext(t, a, b).by <= a.by
           /\ ScopeCleanupContext(t, a, b).by <= b.by
  <1> DEFINE j == Join(t, a)
  <1>1. /\ t \in Contexts /\ a \in Contexts /\ b \in Contexts
        /\ t.by \in Int /\ a.by \in Int /\ b.by \in Int
    BY ScopeAssumption DEF Sound, Contexts
  <1>2. j \in Sound /\ (Present(j) <=> Present(t) \/ Present(a)) /\ j.by <= t.by
        /\ j.by <= a.by /\ j \in Contexts /\ j.by \in Int
    BY <1>1, JoinFacts, JoinSound, ScopeAssumption DEF Contexts
  <1>3. /\ Join(j, b) \in Sound /\ (Present(Join(j, b)) <=> Present(j) \/ Present(b))
        /\ Join(j, b).by <= j.by /\ Join(j, b).by <= b.by /\ Join(j, b).by \in Int
    <2> HIDE DEF j
    <2> QED
      BY <1>1, <1>2, JoinFacts, JoinSound, ScopeAssumption DEF Contexts
  <1>4. ScopeCleanupContext(t, a, b) = Join(j, b)
    BY DEF ScopeCleanupContext
  <1> HIDE DEF j
  <1> QED
    BY <1>1, <1>2, <1>3, <1>4

\* Latching keeps the first cause of the frame and may tighten its deadline.
LEMMA LatchFacts ==
    ASSUME term \in Sound, taskCancel \in Sound, NEW c \in Sound, Latch(c)
    PROVE  /\ term' \in Sound /\ taskCancel' \in Sound
           /\ Present(taskCancel') <=> Present(taskCancel) \/ Present(c)
           /\ Present(term') <=> Present(term) \/ Present(taskCancel) \/ Present(c)
           /\ Present(term) => term'.why = term.why
           /\ term'.by <= term.by /\ term'.by <= c.by
  <1>1. taskCancel' = Join(taskCancel, c) /\ term' = Join(term, taskCancel')
    BY DEF Latch
  <1>2. \A s \in Sound : s \in Contexts /\ s.by \in Int
    BY ScopeAssumption DEF Sound, Contexts
  <1>3. /\ taskCancel' \in Sound /\ taskCancel'.by <= c.by
        /\ Present(taskCancel') <=> Present(taskCancel) \/ Present(c)
    BY <1>1, <1>2, JoinFacts, JoinSound
  <1>4. /\ term' \in Sound /\ term'.by <= term.by /\ term'.by <= taskCancel'.by
        /\ Present(term') <=> Present(term) \/ Present(taskCancel')
        /\ Present(term) => term'.why = term.why
    BY <1>1, <1>2, <1>3, JoinFacts, JoinSound
  <1> QED
    BY <1>2, <1>3, <1>4

\* A poll finds the task's cancellation or the handler's deadline.
LEMMA FoundFacts ==
    ASSUME taskCancel \in Sound, now \in Nat
    PROVE  /\ Found \in Sound
           /\ Present(Found) <=> Present(taskCancel) \/ now >= HandlerDeadline
  <1>1. taskCancel \in Contexts /\ now + Grace \in Nat
    BY ScopeAssumption DEF Sound
  <1>2. /\ Context("timedout", now + Grace) \in Sound
        /\ Context("timedout", now + Grace) \in Contexts
        /\ Present(Context("timedout", now + Grace))
    BY <1>1, ContextFacts DEF Sound
  <1> QED
    BY <1>1, <1>2, JoinFacts, JoinSound DEF Found

\* Asking never takes a request back, and reaches every running child named.
LEMMA AskFacts ==
    ASSUME TypeOK, NEW S, NEW c \in Contexts, Ask(S, c)
    PROVE  /\ asked' \in [Child -> Contexts]
           /\ \A k \in Child : Present(asked[k]) => Present(asked'[k])
           /\ \A k \in Child : k \in S /\ life[k] = "running" /\ Present(c)
                                 => Present(asked'[k])
  <1>1. asked \in [Child -> Contexts]
    BY DEF TypeOK
  <1>2. asked' = [k \in Child |-> IF k \in S /\ life[k] = "running"
                                  THEN Join(asked[k], c) ELSE asked[k]]
    BY DEF Ask
  <1> QED
    BY <1>1, <1>2, JoinFacts

\* Observing the outcome latches only a termination.
LEMMA ObserveFacts ==
    ASSUME ShapeInv, ObserveTermination(out)
    PROVE  /\ term' \in Sound /\ taskCancel' \in Sound
           /\ out.kind # "term" => UNCHANGED <<term, taskCancel>>
           /\ out.kind = "term" =>
                /\ Present(term') <=> Present(term) \/ Present(taskCancel)
                                        \/ Present(out.cleanup)
                /\ Present(taskCancel') <=> Present(taskCancel) \/ Present(out.cleanup)
           /\ Present(term) => Present(term') /\ term'.why = term.why
           /\ term'.by <= term.by
           /\ out.kind = "term" => term'.by <= out.cleanup.by
  <1>1. term \in Sound /\ taskCancel \in Sound /\ out.cleanup \in Sound /\ term.by \in Int
    BY ShapeFacts, ScopeAssumption DEF Sound, Contexts
  <1>2. CASE out.kind = "term"
    <2>1. Latch(out.cleanup)
      BY <1>2 DEF ObserveTermination
    <2> QED
      BY <1>1, <1>2, <2>1, LatchFacts
  <1>3. CASE out.kind # "term"
    BY <1>1, <1>3 DEF ObserveTermination
  <1> QED
    BY <1>2, <1>3

\* What a discarded outcome is waited for with is a context, and what
\* replaces it an outcome of the same kind under no later deadline.
LEMMA DiscardFacts ==
    ASSUME ShapeInv
    PROVE  /\ DiscardContext \in Sound /\ DiscardContext \in Contexts
           /\ Installed \in Outcomes /\ Installed.cleanup \in Sound
           /\ Installed.kind = alt.out.kind
           /\ Installed.cleanup.by <= alt.out.cleanup.by
           /\ Present(alt.out.cleanup) => Installed.cleanup.why = alt.out.cleanup.why
                                          /\ Present(Installed.cleanup)
           /\ alt.out.kind # "continue" /\ Present(x.ctx) => Present(DiscardContext)
  <1> DEFINE ctx == ScopeCleanupContext(term, x.ctx, taskCancel)
  <1>1. /\ alt.out \in Outcomes /\ alt.out.cleanup \in Sound /\ x.ctx \in Sound
        /\ Sound \subseteq Contexts /\ ctx \in Sound
    BY ShapeFacts, CleanupContextFacts
  <1>2. \A c \in Sound : c.by \in Int
    BY ScopeAssumption DEF Sound, Contexts
  <1>3. Installed = IF alt.then = "leave" THEN alt.out ELSE Remember(alt.out, ctx)
    BY DEF Installed
  <1> HIDE DEF ctx
  <1>4. \A c \in Sound :
          /\ Remember(alt.out, c) \in Outcomes /\ Remember(alt.out, c).cleanup \in Sound
          /\ Remember(alt.out, c).kind = alt.out.kind
          /\ Remember(alt.out, c).cleanup.by <= alt.out.cleanup.by
          /\ Present(alt.out.cleanup) =>
               /\ Remember(alt.out, c).cleanup.why = alt.out.cleanup.why
               /\ Present(Remember(alt.out, c).cleanup)
          /\ alt.out.kind # "continue" /\ Present(c) => Present(Remember(alt.out, c).cleanup)
    BY <1>1, RememberSound
  <1>5. DiscardContext = Remember(alt.out, x.ctx).cleanup
    BY DEF DiscardContext
  <1> QED
    BY <1>1, <1>2, <1>3, <1>4, <1>5

\* Dropping the outcome keeps the types.
LEMMA DropShape ==
    ASSUME ShapeInv, DropOutcome,
           UNCHANGED <<mode, now, level, x, alt, guard, term, taskCancel,
                       requested, home, life>>
    PROVE  ShapeInv'
  <1>1. /\ at' = alt.then /\ out' = Installed /\ Ask(HeldBy({0}), DiscardContext)
        /\ released' = released \cup HeldBy({0})
    BY DEF DropOutcome, ReleaseOwner
  <1>2. asked' \in [Child -> Contexts] /\ HeldBy({0}) \subseteq Child
    BY <1>1, DiscardFacts, AskFacts DEF ShapeInv, HeldBy
  <1>3. alt.then \in Labels
    BY DEF ShapeInv, TypeOK, Labels
  <1> QED
    BY <1>1, <1>2, <1>3, DiscardFacts DEF ShapeInv, TypeOK, SoundContexts

-----------------------------------------------------------------------------
(* Types *)

\* Every step keeps the types, and no absent context gets a deadline.
LEMMA ShapeStep == ShapeInv /\ SettleInv /\ [Next]_vars => ShapeInv'
  <1> SUFFICES ASSUME ShapeInv, SettleInv, [Next]_vars PROVE ShapeInv'
    OBVIOUS
  <1>a. /\ {term, taskCancel, guard, out.cleanup, alt.out.cleanup, x.ctx} \subseteq Sound
        /\ Sound \subseteq Contexts
        /\ out \in Outcomes /\ alt.out \in Outcomes /\ x \in ExitStates
        /\ now \in Nat /\ now + Budget \in Nat /\ level \in 1..Depth
        /\ TypeOK /\ ShapeInv
    BY ShapeFacts, ScopeAssumption DEF ShapeInv
  <1>b. NoContext \in Sound /\ NoContext \in Contexts /\ NoExit \in ExitStates
        /\ NoExit.ctx = NoContext
    BY NoContextFacts DEF NoExit, ExitStates, Results, Sound
  <1> USE DEF ShapeInv, TypeOK, SoundContexts
  <1>1. ASSUME NEW handles \in SUBSET Child, Enter(handles) PROVE ShapeInv'
    <2> DEFINE found == ScopeCleanupContext(term', out.cleanup, taskCancel')
               ctx == IF Present(found) \/ handles = {} THEN found
                      ELSE Context("cancelled", now + Budget)
    <2>1. /\ at' = "wait" /\ ObserveTermination(out)
          /\ x' = [NoExit EXCEPT !.ctx = ctx, !.expired = Present(ctx) /\ now >= ctx.by,
                     !.handles = handles,
                     !.collected = IF level \in mode.opaque THEN "error" ELSE "ok"]
          /\ out' = Remember(out, ctx)
          /\ UNCHANGED <<mode, now, level, alt, guard, requested, home, life, asked, released>>
      BY <1>1 DEF Enter, Goes, child
    <2>2. term' \in Sound /\ taskCancel' \in Sound
      BY <2>1, ObserveFacts
    <2>3. found \in Sound
      BY <2>2, <1>a, CleanupContextFacts
    <2>4. ctx \in Sound /\ ctx \in Contexts
      BY <2>3, <1>a, ContextFacts
    <2> HIDE DEF found, ctx
    <2>5. x' \in ExitStates /\ x'.ctx = ctx
      BY <2>1, <2>4 DEF NoExit, ExitStates, Results
    <2>6. out' \in Outcomes /\ out'.cleanup \in Sound
      BY <2>1, <2>4, <1>a, RememberSound
    <2> QED
      BY <2>1, <2>2, <2>4, <2>5, <2>6, <1>a DEF Labels
  <1>2. CASE PrepareTerminal
    <2>1. /\ at' \in Labels /\ x' \in {x, [x EXCEPT !.settled = "ok"]}
          /\ UNCHANGED asked \/ \E T : Ask(T, x.ctx)
          /\ UNCHANGED <<mode, now, level, out, alt, guard, term, taskCancel,
                         requested, home, life, released>>
      BY <1>2 DEF PrepareTerminal, Labels
    <2>2. asked' \in [Child -> Contexts]
      BY <2>1, <1>a, AskFacts
    <2>3. x' \in ExitStates /\ x'.ctx = x.ctx
      BY <2>1, <1>a DEF ExitStates, Results
    <2> QED
      BY <2>1, <2>2, <2>3
  <1>3. CASE PollTerminal
    <2>1. /\ at' \in Labels /\ \E r \in {"ok", "late"} : x' = [x EXCEPT !.settled = r]
          /\ UNCHANGED <<mode, now, level, out, alt, guard, term, taskCancel,
                         requested, child>>
      BY <1>3 DEF PollTerminal, Goes, Labels
    <2>2. x' \in ExitStates /\ x'.ctx = x.ctx
      BY <2>1, <1>a DEF ExitStates, Results
    <2> QED
      BY <2>1, <2>2 DEF child
  <1>4. CASE ReleaseOwners
    <2> DEFINE ctx == ScopeCleanupContext(term, x.ctx, taskCancel)
    <2>1. /\ at' \in Labels /\ Ask(x.handles, ctx) /\ released' = released \cup x.handles
          /\ UNCHANGED <<mode, now, level, out, x, alt, guard, term, taskCancel,
                         requested, home, life>>
      BY <1>4 DEF ReleaseOwners, ReleaseOwner, Goes, Labels
    <2>2. ctx \in Contexts
      BY <1>a, CleanupContextFacts
    <2> HIDE DEF ctx
    <2>3. asked' \in [Child -> Contexts]
      BY <2>1, <2>2, <1>a, AskFacts
    <2>4. x.handles \subseteq Child
      BY <1>a DEF ExitStates
    <2> QED
      BY <2>1, <2>3, <2>4
  <1>5. CASE DropHandles
    <2> DEFINE ctx == ScopeCleanupContext(term, x.ctx, taskCancel)
    <2>1. /\ at' \in Labels
          /\ x' = [x EXCEPT !.cleanup = IF Failed(x.collected) THEN x.collected ELSE x.settled,
                            !.ctx = ctx]
          /\ UNCHANGED <<mode, now, level, out, alt, guard, term, taskCancel,
                         requested, child>>
      BY <1>5 DEF DropHandles, Goes, Labels
    <2>2. ctx \in Sound
      BY <1>a, CleanupContextFacts
    <2> HIDE DEF ctx
    <2>3. x' \in ExitStates /\ x'.ctx = ctx
      BY <2>1, <2>2, <1>a DEF ExitStates
    <2> QED
      BY <2>1, <2>2, <2>3 DEF child
  <1>6. ASSUME NEW d \in 0..MaxTime + 1, Teardown(d) PROVE ShapeInv'
    <2> DEFINE ctx == ScopeCleanupContext(term, x.ctx, taskCancel)
               drop == IF Present(ctx) THEN ctx ELSE Context("cancelled", now + Budget)
    <2>1. /\ at' \in Labels
          /\ d = ctx.by \/ Present(ctx)
          /\ x' = [x EXCEPT !.ctx = [ctx EXCEPT !.by = d]]
          /\ Ask(HeldBy({level}), drop) /\ released' = released \cup HeldBy({level})
          /\ UNCHANGED <<mode, now, level, out, alt, guard, term, taskCancel,
                         requested, home, life>>
      BY <1>6 DEF Teardown, Goes, Labels, ReleaseOwner
    <2>2. ctx \in Sound /\ drop \in Contexts
      BY <1>a, CleanupContextFacts, ContextFacts
    <2> HIDE DEF ctx, drop
    <2>3. [ctx EXCEPT !.by = d] \in Sound
      BY <2>1, <2>2 DEF Sound, Contexts, Present
    <2>4. x' \in ExitStates /\ x'.ctx = [ctx EXCEPT !.by = d]
      BY <2>1, <2>3, <1>a DEF ExitStates
    <2>5. asked' \in [Child -> Contexts] /\ HeldBy({level}) \subseteq Child
      BY <2>1, <2>2, <1>a, AskFacts DEF HeldBy
    <2> QED
      BY <2>1, <2>3, <2>4, <2>5
  <1>7. CASE PollRetirement
    <2> DEFINE ctx == ScopeCleanupContext(term, x.ctx, taskCancel)
               by == ScannedBy(ctx)
               retired == \A c \in x.handles : life[c] = "retired"
               r == IF Failed(x.cleanup) THEN x.cleanup ELSE IF retired THEN "ok" ELSE "late"
    <2>1. /\ at = "retire" /\ at' \in Labels
          /\ x' = [x EXCEPT !.ctx = [ctx EXCEPT !.by = by], !.cleanup = r]
          /\ UNCHANGED <<mode, now, level, out, alt, guard, term, taskCancel,
                         requested, child>>
      BY <1>7 DEF PollRetirement, Goes, Labels
    <2>2. ctx \in Sound /\ (Present(x.ctx) => Present(ctx))
      BY <1>a, CleanupContextFacts
    <2>3. by \in 0..(MaxTime + 1) /\ (x.handles = {} => by = ctx.by)
      BY <2>2, <1>a, ScanFacts
    <2>4. Present(x.ctx) \/ x.handles = {}
      BY <2>1 DEF SettleInv, Exiting
    <2>5. r \in Results
      BY <1>a DEF ExitStates, Results
    <2> HIDE DEF ctx, by, r
    <2>6. [ctx EXCEPT !.by = by] \in Sound
      BY <2>2, <2>3, <2>4 DEF Sound, Contexts, Present
    <2>7. x' \in ExitStates /\ x'.ctx = [ctx EXCEPT !.by = by]
      BY <2>1, <2>5, <2>6, <1>a DEF ExitStates
    <2> QED
      BY <2>1, <2>6, <2>7 DEF child
  <1>8. CASE DeadlineCheck
    <2>1. /\ at' \in Labels /\ out' = Remember(out, x.ctx)
          /\ x' \in {x, [x EXCEPT !.cleanup = "late"]}
          /\ UNCHANGED <<mode, now, level, alt, guard, term, taskCancel, requested, child>>
      BY <1>8 DEF DeadlineCheck, Goes, Labels
    <2>2. x' \in ExitStates /\ x'.ctx = x.ctx
      BY <2>1, <1>a DEF ExitStates, Results
    <2>3. out' \in Outcomes /\ out'.cleanup \in Sound
      BY <2>1, <1>a, RememberSound
    <2> QED
      BY <2>1, <2>2, <2>3 DEF child
  <1>9. CASE Arbitrate
    <2>1. /\ at' \in Labels
          /\ \/ UNCHANGED <<out, alt, asked, released>>
             \/ /\ alt' = [out |-> Remember(CleanupError, x.ctx), then |-> "done"]
                /\ UNCHANGED <<out, asked, released>>
             \/ /\ out' = CleanupError /\ alt' = alt
                /\ Ask(HeldBy({0}), Context("cancelled", now + Budget))
                /\ released' = released \cup HeldBy({0})
          /\ UNCHANGED <<mode, now, level, x, guard, term, taskCancel, requested,
                         home, life>>
      BY <1>9 DEF Arbitrate, Labels, ReleaseOwner
    <2>2. CleanupError \in Outcomes /\ CleanupError.cleanup = NoContext
      BY OutcomeFacts, <1>b DEF CleanupError
    <2>3. /\ Remember(CleanupError, x.ctx) \in Outcomes
          /\ Remember(CleanupError, x.ctx).cleanup \in Sound
      BY <2>2, <1>a, <1>b, RememberSound
    <2>4. Context("cancelled", now + Budget) \in Contexts /\ HeldBy({0}) \subseteq Child
      BY <1>a, ContextFacts DEF HeldBy
    <2>5. CASE UNCHANGED <<out, alt, asked, released>>
      BY <2>1, <2>5
    <2>6. CASE /\ alt' = [out |-> Remember(CleanupError, x.ctx), then |-> "done"]
               /\ UNCHANGED <<out, asked, released>>
      BY <2>1, <2>3, <2>6
    <2>7. CASE /\ out' = CleanupError /\ alt' = alt
               /\ Ask(HeldBy({0}), Context("cancelled", now + Budget))
               /\ released' = released \cup HeldBy({0})
      <3>1. asked' \in [Child -> Contexts]
        BY <2>4, <2>7, <1>a, AskFacts
      <3> QED
        BY <2>1, <2>2, <2>4, <2>7, <3>1, <1>b
    <2> QED
      BY <2>1, <2>5, <2>6, <2>7
  <1>10. CASE Discard
    <2>1. /\ UNCHANGED <<mode, now, level, x, alt, guard, term, taskCancel,
                         requested, home, life>>
          /\ \/ DropOutcome
             \/ at' \in Labels /\ Ask(HeldBy({0}), DiscardContext) /\ UNCHANGED <<out, released>>
      BY <1>10 DEF Discard, Labels
    <2>2. CASE DropOutcome
      BY <2>1, <2>2, <1>a, DropShape
    <2>3. CASE at' \in Labels /\ Ask(HeldBy({0}), DiscardContext) /\ UNCHANGED <<out, released>>
      <3>1. asked' \in [Child -> Contexts]
        BY <2>3, <1>a, DiscardFacts, AskFacts
      <3> QED
        BY <2>1, <2>3, <3>1
    <2> QED
      BY <2>1, <2>2, <2>3
  <1>11. CASE Discarding
    <2>1. /\ UNCHANGED <<mode, now, level, x, alt, guard, term, taskCancel,
                         requested, home, life>>
          /\ DropOutcome
      BY <1>11 DEF Discarding
    <2> QED
      BY <2>1, <1>a, DropShape
  <1>12. CASE PrepareFinally
    <2>1. /\ at' \in Labels /\ ObserveTermination(out) /\ x' = NoExit
          /\ guard' \in {term', NoContext}
          /\ UNCHANGED asked \/ \E T : Ask(T, term')
          /\ UNCHANGED <<mode, now, level, out, alt, requested, home, life, released>>
      BY <1>12 DEF PrepareFinally, Labels
    <2>2. term' \in Sound /\ taskCancel' \in Sound
      BY <2>1, ObserveFacts
    <2>3. asked' \in [Child -> Contexts]
      BY <2>1, <2>2, <1>a, AskFacts
    <2> QED
      BY <2>1, <2>2, <2>3, <1>a, <1>b
  <1>13. CASE Leave
    <2>1. /\ at' \in Labels /\ x' = NoExit /\ level' \in 1..Depth
          /\ out' \in {out, Outcome("none", NoContext)}
          /\ UNCHANGED <<mode, now, alt, guard, term, taskCancel, requested, child>>
      BY <1>13, <1>a, ScopeAssumption DEF Leave, Labels
    <2> QED
      BY <2>1, <1>a, <1>b, OutcomeFacts DEF child
  <1>14. ASSUME NEW kind \in Flows, BodyEnds(kind) PROVE ShapeInv'
    <2>1. /\ at' \in Labels /\ out' = Outcome(kind, NoContext)
          /\ home' = [c \in Child |-> IF kind = "return" /\ c \in Movable /\ home[c] = level
                                      THEN 0 ELSE home[c]]
          /\ UNCHANGED <<mode, now, level, x, alt, guard, term, taskCancel,
                         requested, life, asked, released>>
      BY <1>14 DEF BodyEnds, Goes, Labels
    <2>2. out' \in Outcomes /\ out'.cleanup \in Sound
      BY <2>1, <1>b, OutcomeFacts DEF Flows
    <2>3. home' \in [Child -> 0..Depth]
      BY <2>1, ScopeAssumption
    <2> QED
      BY <2>1, <2>2, <2>3
  <1>15. CASE BodyPolls
    <2>1. /\ at' \in Labels /\ Latch(Found) /\ out' = Outcome("term", term')
          /\ UNCHANGED <<mode, now, level, x, alt, guard, requested, child>>
      BY <1>15 DEF BodyPolls, Goes, Labels
    <2>2. term' \in Sound /\ taskCancel' \in Sound /\ term' \in Contexts
      BY <2>1, <1>a, FoundFacts, LatchFacts DEF Sound
    <2>3. out' \in Outcomes /\ out'.cleanup \in Sound
      BY <2>1, <2>2, OutcomeFacts
    <2>4. UNCHANGED <<mode, now, level, x, alt, guard, requested, home, life, asked, released>>
      BY <2>1 DEF child
    <2> QED
      BY <2>1, <2>2, <2>3, <2>4, <1>a
  <1>16. ASSUME NEW kind \in Flows, ProtectedEnds(kind) PROVE ShapeInv'
    <2>1. /\ at' \in Labels /\ out' = Outcome("term", guard) /\ guard' = NoContext
          /\ UNCHANGED <<mode, now, level, x, alt, term, taskCancel, requested, child>>
      BY <1>16 DEF ProtectedEnds, Goes, Labels
    <2> QED
      BY <2>1, <1>a, <1>b, OutcomeFacts DEF child
  <1>17. CASE ProtectedPolls
    <2>1. /\ at' \in Labels /\ Latch(Join(Found, guard))
          /\ \/ UNCHANGED <<out, guard>>
             \/ out' = Outcome("term", guard) /\ guard' = NoContext
          /\ UNCHANGED <<mode, now, level, x, alt, requested, child>>
      BY <1>17 DEF ProtectedPolls, Labels
    <2>2. Join(Found, guard) \in Sound
      BY <1>a, FoundFacts, JoinSound
    <2>3. term' \in Sound /\ taskCancel' \in Sound /\ term' \in Contexts
      BY <2>1, <2>2, <1>a, LatchFacts DEF Sound
    <2> QED
      BY <2>1, <2>3, <1>a, <1>b, OutcomeFacts DEF child
  <1>18. CASE OrdinaryContinues
    BY <1>18 DEF OrdinaryContinues, Goes, Labels, child
  <1>19. ASSUME NEW kind \in (Flows \ {"continue"}) \cup {"term"}, OrdinaryReplaces(kind) PROVE ShapeInv'
    <2> DEFINE fresh == Join(taskCancel', Context("cancelled", now + Budget))
               ctx == IF Present(term') THEN term'
                      ELSE IF Present(out.cleanup) THEN out.cleanup ELSE fresh
               replacement == Outcome(kind, IF kind = "term" THEN term' ELSE NoContext)
    <2>1. /\ at' \in Labels
          /\ Latch(Found) \/ UNCHANGED <<term, taskCancel>>
          /\ alt' = [out |-> Remember(replacement, ctx), then |-> "leave"]
          /\ x' = [NoExit EXCEPT !.ctx = ctx]
          /\ UNCHANGED <<mode, now, level, out, guard, requested, child>>
      BY <1>19 DEF OrdinaryReplaces, Goes, Labels
    <2>2. term' \in Sound /\ taskCancel' \in Sound /\ term' \in Contexts
      BY <2>1, <1>a, FoundFacts, LatchFacts DEF Sound
    <2>3. fresh \in Sound
      BY <2>2, <1>a, ContextFacts, JoinSound
    <2>4. ctx \in Sound /\ ctx \in Contexts
      BY <2>2, <2>3, <1>a
    <2>5. replacement \in Outcomes /\ replacement.cleanup \in Sound
      BY <2>2, <1>b, OutcomeFacts DEF Flows
    <2> HIDE DEF ctx, fresh, replacement
    <2>6. /\ Remember(replacement, ctx) \in Outcomes
          /\ Remember(replacement, ctx).cleanup \in Sound
      BY <2>4, <2>5, RememberSound
    <2>7. x' \in ExitStates /\ x'.ctx = ctx
      BY <2>1, <2>4 DEF NoExit, ExitStates, Results
    <2> QED
      BY <2>1, <2>2, <2>4, <2>6, <2>7, <1>a DEF child
  <1>20. CASE Tick
    BY <1>20, <1>a, ScopeAssumption DEF Tick, frame, child
  <1>21. ASSUME NEW why \in {"cancelled", "timedout"}, NEW by \in {now, now + Budget},
           CancelTask(why, by)
    PROVE  ShapeInv'
    <2>1. /\ taskCancel' = Join(taskCancel, Context(why, by)) /\ requested' = TRUE
          /\ UNCHANGED <<mode, now, frame, child>>
      BY <1>21 DEF CancelTask
    <2>2. Context(why, by) \in Sound
      BY <1>a, ContextFacts
    <2>3. taskCancel' \in Sound
      BY <2>1, <2>2, <1>a, JoinSound
    <2> QED
      BY <2>1, <2>3, <1>a DEF frame, child
  <1>22. ASSUME NEW c \in Child, ChildEnds(c) PROVE ShapeInv'
    BY <1>22 DEF ChildEnds, frame
  <1>23. ASSUME NEW c \in Child, ChildRetires(c) PROVE ShapeInv'
    BY <1>23 DEF ChildRetires, frame
  <1>24. CASE UNCHANGED vars
    BY <1>24 DEF vars
  <1> QED
    BY <1>1, <1>2, <1>3, <1>4, <1>5, <1>6, <1>7, <1>8, <1>9, <1>10, <1>11,
       <1>12, <1>13, <1>14, <1>15, <1>16, <1>17, <1>18, <1>19, <1>20, <1>21,
       <1>22, <1>23, <1>24 DEF Next, Exit, User


-----------------------------------------------------------------------------
(* The actions that join contexts *)

\* A new exit takes over the deadlines met before, or starts a budget.
LEMMA EnterFacts ==
    ASSUME ShapeInv, NEW handles \in SUBSET Child, Enter(handles)
    PROVE  /\ at = "exit" /\ at' = "wait" /\ ObserveTermination(out)
           /\ UNCHANGED <<mode, now, level, alt, guard, requested, home, life,
                          asked, released>>
           /\ out'.kind = out.kind /\ out'.cleanup.by <= out.cleanup.by
           /\ Present(out.cleanup) => /\ Present(out'.cleanup)
                                      /\ out'.cleanup.why = out.cleanup.why
           /\ x'.ctx.by <= term'.by /\ x'.ctx.by <= out'.cleanup.by
           /\ x'.handles = handles /\ (Present(x'.ctx) \/ handles = {})
           /\ x'.collected = IF level \in mode.opaque THEN "error" ELSE "ok"
           /\ IF level \in mode.opaque THEN handles \subseteq HeldBy({level})
                                      ELSE handles = HeldBy({level})
  <1> DEFINE found == ScopeCleanupContext(term', out.cleanup, taskCancel')
             new == Context("cancelled", now + Budget)
             ctx == IF Present(found) \/ handles = {} THEN found ELSE new
  <1>1. /\ at = "exit" /\ at' = "wait" /\ ObserveTermination(out)
        /\ x' = [NoExit EXCEPT !.ctx = ctx, !.expired = Present(ctx) /\ now >= ctx.by,
                   !.handles = handles,
                   !.collected = IF level \in mode.opaque THEN "error" ELSE "ok"]
        /\ out' = Remember(out, ctx)
        /\ UNCHANGED <<mode, now, level, alt, guard, requested, home, life, asked, released>>
        /\ IF level \in mode.opaque THEN handles \subseteq HeldBy({level})
                                   ELSE handles = HeldBy({level})
    BY DEF Enter, Goes, child
  <1>2. /\ term' \in Sound /\ taskCancel' \in Sound /\ out.cleanup \in Sound
        /\ out \in Outcomes /\ now + Budget \in Nat
    BY <1>1, ObserveFacts, ShapeFacts, ScopeAssumption
  <1>3. /\ found \in Sound /\ found.by <= term'.by /\ found.by <= out.cleanup.by
        /\ Present(found) <=> Present(term') \/ Present(out.cleanup) \/ Present(taskCancel')
    BY <1>2, CleanupContextFacts
  <1>4. new \in Sound /\ Present(new) /\ new.by <= MaxTime
    BY <1>2, ContextFacts
  <1>5. \A c \in Sound : c.by \in Int /\ (~Present(c) => c.by = MaxTime + 1)
    BY ScopeAssumption DEF Sound, Contexts
  <1> HIDE DEF found, new
  <1>6. ctx \in Sound /\ ctx.by <= term'.by /\ ctx.by <= out.cleanup.by
        /\ (Present(ctx) \/ handles = {})
    BY <1>2, <1>3, <1>4, <1>5, ScopeAssumption
  <1> HIDE DEF ctx
  <1>7. /\ out'.kind = out.kind /\ out'.cleanup.by <= out.cleanup.by
        /\ Present(out.cleanup) => /\ Present(out'.cleanup)
                                   /\ out'.cleanup.why = out.cleanup.why
        /\ ctx.by <= out'.cleanup.by
    BY <1>1, <1>2, <1>6, RememberSound
  <1>8. /\ x'.ctx = ctx /\ x'.handles = handles
        /\ x'.collected = IF level \in mode.opaque THEN "error" ELSE "ok"
    BY <1>1 DEF NoExit
  <1> QED
    BY <1>1, <1>6, <1>7, <1>8

\* A poll in a protected finally block: the first cause stays.
LEMMA ProtectedFacts ==
    ASSUME ShapeInv, ProtectedPolls
    PROVE  /\ Present(taskCancel') => Present(taskCancel) \/ now >= HandlerDeadline
                                        \/ Present(guard)
           /\ Present(term') => \/ Present(term) \/ Present(taskCancel)
                                \/ now >= HandlerDeadline \/ Present(guard)
           /\ Present(term) => Present(term') /\ term'.why = term.why
           /\ term'.by <= term.by
  <1>1. Latch(Join(Found, guard))
    BY DEF ProtectedPolls
  <1>2. /\ term \in Sound /\ taskCancel \in Sound /\ guard \in Sound
        /\ Sound \subseteq Contexts /\ now \in Nat
    BY ShapeFacts
  <1>3. /\ Found \in Sound
        /\ Present(Found) <=> Present(taskCancel) \/ now >= HandlerDeadline
    BY <1>2, FoundFacts
  <1>4. /\ Join(Found, guard) \in Sound
        /\ Present(Join(Found, guard)) <=> Present(Found) \/ Present(guard)
    BY <1>2, <1>3, JoinFacts, JoinSound
  <1> QED
    BY <1>1, <1>2, <1>3, <1>4, LatchFacts

\* What an ordinary finally block puts in place of the outcome.
LEMMA ReplaceFacts ==
    ASSUME ShapeInv, NEW kind \in (Flows \ {"continue"}) \cup {"term"},
           OrdinaryReplaces(kind)
    PROVE  /\ at = "finally" /\ ~Present(guard) /\ at' = "discard"
           /\ alt'.out.kind = kind /\ alt'.then = "leave" /\ Present(x'.ctx)
           /\ kind # "term" => UNCHANGED <<term, taskCancel>>
           /\ kind = "term" => /\ Present(term') /\ Present(alt'.out.cleanup)
                               /\ alt'.out.cleanup.why = term'.why
           /\ Present(term') => Present(term) \/ Present(taskCancel) \/ now >= HandlerDeadline
           /\ Present(taskCancel') => Present(taskCancel) \/ now >= HandlerDeadline
           /\ term'.by <= term.by
           /\ Present(term) => Present(term') /\ term'.why = term.why
           /\ kind # "term" /\ ~Present(term) => alt'.out.cleanup.by <= out.cleanup.by
           /\ UNCHANGED <<mode, now, level, out, guard, requested, home, life,
                          asked, released>>
  <1> DEFINE new == Context("cancelled", now + Budget)
             fresh == Join(taskCancel', new)
             ctx == IF Present(term') THEN term'
                    ELSE IF Present(out.cleanup) THEN out.cleanup ELSE fresh
             carried == IF kind = "term" THEN term' ELSE NoContext
             replacement == Outcome(kind, carried)
  <1>1. /\ at = "finally" /\ ~Present(guard) /\ at' = "discard"
        /\ IF kind = "term" THEN Present(Join(term, Found)) /\ Latch(Found)
                            ELSE UNCHANGED <<term, taskCancel>>
        /\ alt' = [out |-> Remember(replacement, ctx), then |-> "leave"]
        /\ x' = [NoExit EXCEPT !.ctx = ctx]
        /\ UNCHANGED <<mode, now, level, out, guard, requested, home, life,
                       asked, released>>
    BY DEF OrdinaryReplaces, Goes, child
  <1>2. /\ term \in Sound /\ taskCancel \in Sound /\ out.cleanup \in Sound
        /\ Sound \subseteq Contexts /\ now \in Nat /\ now + Budget \in Nat
        /\ NoContext \in Sound /\ ~Present(NoContext)
    BY ShapeFacts, NoContextFacts, ScopeAssumption
  <1>3. /\ Found \in Sound
        /\ Present(Found) <=> Present(taskCancel) \/ now >= HandlerDeadline
        /\ Present(Join(term, Found)) <=> Present(term) \/ Present(Found)
    BY <1>2, FoundFacts, JoinFacts
  <1>4. \A c \in Sound : c.by \in Int /\ (~Present(c) => c.by = MaxTime + 1)
                         /\ c.by <= MaxTime + 1
    BY ScopeAssumption DEF Sound, Contexts
  <1>5. /\ term' \in Sound /\ taskCancel' \in Sound
        /\ kind = "term" => Present(term')
        /\ Present(term') => Present(term) \/ Present(taskCancel) \/ now >= HandlerDeadline
        /\ Present(taskCancel') => Present(taskCancel) \/ now >= HandlerDeadline
        /\ term'.by <= term.by
        /\ Present(term) => Present(term') /\ term'.why = term.why
    <2>1. CASE kind = "term"
      BY <1>1, <1>2, <1>3, <2>1, LatchFacts
    <2>2. CASE kind # "term"
      BY <1>1, <1>2, <1>4, <2>2
    <2> QED
      BY <2>1, <2>2
  <1>6. fresh \in Sound /\ Present(fresh)
    BY <1>2, <1>5, ContextFacts, JoinFacts, JoinSound
  <1> HIDE DEF new, fresh
  <1>7. /\ ctx \in Sound /\ Present(ctx) /\ (kind = "term" => ctx = term')
        /\ ~Present(term') => ctx.by <= out.cleanup.by
    BY <1>2, <1>4, <1>5, <1>6
  <1>8. carried \in Sound /\ (kind = "term" => carried = term')
    BY <1>2, <1>5
  <1> HIDE DEF ctx, carried
  <1>9. /\ replacement \in Outcomes /\ replacement.kind = kind
        /\ replacement.cleanup = carried
    BY <1>2, <1>8, OutcomeFacts DEF Flows
  <1> HIDE DEF replacement
  <1>10. /\ Remember(replacement, ctx).kind = kind
         /\ Present(Remember(replacement, ctx).cleanup)
         /\ Remember(replacement, ctx).cleanup.by <= ctx.by
         /\ Remember(replacement, ctx).cleanup \in Sound
         /\ kind = "term" => Remember(replacement, ctx).cleanup.why = term'.why
    <2>1. replacement.cleanup \in Sound /\ replacement.kind # "continue"
      BY <1>8, <1>9 DEF Flows
    <2>2. kind = "term" => Present(replacement.cleanup) /\ replacement.cleanup.why = term'.why
      BY <1>5, <1>8, <1>9
    <2> QED
      BY <1>7, <1>9, <2>1, <2>2, RememberSound
  <1>11. x'.ctx = ctx /\ alt'.out = Remember(replacement, ctx) /\ alt'.then = "leave"
    BY <1>1 DEF NoExit
  <1> QED
    BY <1>1, <1>2, <1>4, <1>5, <1>7, <1>10, <1>11

-----------------------------------------------------------------------------
(* The cause of a termination *)

\* A step keeps the termination that is the outcome.
FirstCause == out.kind = "term" =>
                out'.kind = "term" /\ out'.cleanup.why = out.cleanup.why

\* The cause stays where it is, through cleanups, finally blocks and discards.
LEMMA CauseStep == ShapeInv /\ CauseInv /\ [Next]_vars => CauseInv' /\ FirstCause
  <1> SUFFICES ASSUME ShapeInv, CauseInv, [Next]_vars PROVE CauseInv' /\ FirstCause
    OBVIOUS
  <1> USE DEF CauseInv, Discards, FirstCause
  <1>1. ASSUME NEW handles \in SUBSET Child, Enter(handles) PROVE CauseInv' /\ FirstCause
    <2>1. /\ at = "exit" /\ at' = "wait" /\ ObserveTermination(out)
          /\ UNCHANGED <<alt, guard, requested, now>>
          /\ out'.kind = out.kind
          /\ Present(out.cleanup) => /\ Present(out'.cleanup)
                                     /\ out'.cleanup.why = out.cleanup.why
      BY <1>1, EnterFacts
    <2>2. /\ out.kind # "term" => UNCHANGED <<term, taskCancel>>
          /\ Present(term) => Present(term') /\ term'.why = term.why
      BY <2>1, ObserveFacts
    <2> QED
      BY <2>1, <2>2
  <1>2. CASE PrepareTerminal
    BY <1>2 DEF PrepareTerminal
  <1>3. CASE PollTerminal
    BY <1>3 DEF PollTerminal, Goes
  <1>4. CASE ReleaseOwners
    BY <1>4 DEF ReleaseOwners, Goes
  <1>5. CASE DropHandles
    BY <1>5 DEF DropHandles, Goes
  <1>6. ASSUME NEW d \in 0..MaxTime + 1, Teardown(d) PROVE CauseInv' /\ FirstCause
    BY <1>6 DEF Teardown, Goes
  <1>7. CASE PollRetirement
    BY <1>7 DEF PollRetirement, Goes
  <1>8. CASE DeadlineCheck
    <2>1. /\ at = "check" /\ at' = "arbitrate" /\ out' = Remember(out, x.ctx)
          /\ UNCHANGED <<now, alt, guard, term, taskCancel, requested>>
      BY <1>8 DEF DeadlineCheck, Goes
    <2>2. /\ out'.kind = out.kind
          /\ Present(out.cleanup) => /\ Present(out'.cleanup)
                                     /\ out'.cleanup.why = out.cleanup.why
      BY <2>1, ShapeFacts, RememberSound
    <2> QED
      BY <2>1, <2>2
  <1>9. CASE Arbitrate
    <2>1. /\ at = "arbitrate" /\ UNCHANGED <<now, x, guard, term, taskCancel, requested>>
          /\ \/ at' = "done" /\ UNCHANGED <<out, alt>>
             \/ /\ at' = "discard" /\ out.kind # "term" /\ Present(x.ctx)
                /\ alt' = [out |-> Remember(CleanupError, x.ctx), then |-> "done"] /\ out' = out
             \/ at' = "done" /\ out.kind # "term" /\ out' = CleanupError
      BY <1>9 DEF Arbitrate
    <2>2. /\ CleanupError.kind \in {"fatal", "shutdown"} /\ CleanupError \in Outcomes
      BY OutcomeFacts, NoContextFacts DEF CleanupError, Outcome, Sound
    <2>3. Remember(CleanupError, x.ctx).kind \in {"fatal", "shutdown"}
      BY <2>2, ShapeFacts, RememberFacts
    <2> QED
      BY <2>1, <2>2, <2>3
  <1>10. CASE Discard
    <2>1. /\ at \in Discards /\ UNCHANGED <<now, x, alt, guard, term, taskCancel, requested>>
          /\ \/ at' = alt.then /\ out' = Installed
             \/ at' = "discarding" /\ out' = out
      BY <1>10 DEF Discard, DropOutcome
    <2>2. alt.then \in {"done", "leave"}
      BY DEF ShapeInv, TypeOK
    <2>3. /\ Installed.kind = alt.out.kind
          /\ Present(alt.out.cleanup) => /\ Installed.cleanup.why = alt.out.cleanup.why
                                         /\ Present(Installed.cleanup)
      BY DiscardFacts
    <2> QED
      BY <2>1, <2>2, <2>3
  <1>11. CASE Discarding
    <2>1. /\ at \in Discards /\ UNCHANGED <<now, x, alt, guard, term, taskCancel, requested>>
          /\ \/ at' = alt.then /\ out' = Installed
             \/ at' = "discarding" /\ out' = out
      BY <1>11 DEF Discarding, DropOutcome
    <2>2. alt.then \in {"done", "leave"}
      BY DEF ShapeInv, TypeOK
    <2>3. /\ Installed.kind = alt.out.kind
          /\ Present(alt.out.cleanup) => /\ Installed.cleanup.why = alt.out.cleanup.why
                                         /\ Present(Installed.cleanup)
      BY DiscardFacts
    <2> QED
      BY <2>1, <2>2, <2>3
  <1>12. CASE PrepareFinally
    <2>1. /\ at = "done" /\ at' \in {"leave", "finally"} /\ ObserveTermination(out)
          /\ guard' = (IF out.kind = "term" THEN term' ELSE NoContext)
          /\ out.kind = "term" => at' = "finally"
          /\ UNCHANGED <<now, out, alt, requested>>
      BY <1>12 DEF PrepareFinally
    <2>2. /\ out.kind # "term" => UNCHANGED <<term, taskCancel>>
          /\ Present(term) => Present(term') /\ term'.why = term.why
      BY <2>1, ObserveFacts
    <2> QED
      BY <2>1, <2>2, NoContextFacts
  <1>13. CASE Leave
    <2>1. Outcome("none", NoContext).kind = "none"
      BY DEF Outcome
    <2> QED
      BY <1>13, <2>1 DEF Leave
  <1>14. ASSUME NEW kind \in Flows, BodyEnds(kind) PROVE CauseInv' /\ FirstCause
    <2>1. Outcome(kind, NoContext).kind = kind /\ kind # "term"
      BY DEF Outcome, Flows
    <2> QED
      BY <1>14, <2>1 DEF BodyEnds, Goes
  <1>15. CASE BodyPolls
    <2>1. /\ at = "body" /\ at' = "exit" /\ Latch(Found) /\ out' = Outcome("term", term')
          /\ Present(Join(term, Found)) /\ UNCHANGED <<now, guard, alt, requested>>
      BY <1>15 DEF BodyPolls, Goes
    <2>2. /\ Found \in Sound /\ term \in Sound /\ taskCancel \in Sound /\ Sound \subseteq Contexts
          /\ Present(Found) <=> Present(taskCancel) \/ now >= HandlerDeadline
      BY ShapeFacts, FoundFacts
    <2>3. /\ Present(term') /\ (Present(term) \/ Present(Found))
          /\ Present(taskCancel') => Present(taskCancel) \/ Present(Found)
      BY <2>1, <2>2, LatchFacts, JoinFacts
    <2>4. out'.kind = "term" /\ out'.cleanup = term'
      BY <2>1 DEF Outcome
    <2> QED
      BY <2>1, <2>2, <2>3, <2>4
  <1>16. ASSUME NEW kind \in Flows, ProtectedEnds(kind) PROVE CauseInv' /\ FirstCause
    <2>1. /\ at = "finally" /\ Present(guard) /\ at' = "leave"
          /\ out' = Outcome("term", guard) /\ guard' = NoContext
          /\ UNCHANGED <<now, term, taskCancel, alt, requested>>
      BY <1>16 DEF ProtectedEnds, Goes
    <2>2. Outcome("term", guard).kind = "term" /\ Outcome("term", guard).cleanup = guard
      BY DEF Outcome
    <2> QED
      BY <2>1, <2>2, NoContextFacts
  <1>17. CASE ProtectedPolls
    <2>1. /\ at = "finally" /\ Present(guard)
          /\ \/ UNCHANGED <<at, out, guard>>
             \/ at' = "leave" /\ out' = Outcome("term", guard) /\ guard' = NoContext
          /\ UNCHANGED <<now, alt, requested>>
      BY <1>17 DEF ProtectedPolls
    <2>2. Outcome("term", guard).kind = "term" /\ Outcome("term", guard).cleanup = guard
      BY DEF Outcome
    <2>3. /\ Present(term) /\ guard.why = term.why /\ out.kind = "term"
          /\ requested \/ now >= HandlerDeadline
      BY <2>1
    <2>4. Present(term') /\ term'.why = term.why
      BY <2>3, <1>17, ProtectedFacts
    <2> QED
      BY <2>1, <2>2, <2>3, <2>4, NoContextFacts
  <1>18. CASE OrdinaryContinues
    BY <1>18 DEF OrdinaryContinues, Goes
  <1>19. ASSUME NEW kind \in (Flows \ {"continue"}) \cup {"term"}, OrdinaryReplaces(kind) PROVE CauseInv' /\ FirstCause
    <2>1. kind \notin {"none", "continue"}
      BY DEF Flows
    <2> QED
      BY <1>19, <2>1, ReplaceFacts
  <1>20. CASE Tick
    BY <1>20, ShapeFacts, ScopeAssumption DEF Tick, frame
  <1>21. ASSUME NEW why \in {"cancelled", "timedout"}, NEW by \in {now, now + Budget},
           CancelTask(why, by)
    PROVE  CauseInv' /\ FirstCause
    BY <1>21 DEF CancelTask, frame
  <1>22. ASSUME NEW c \in Child, ChildEnds(c) PROVE CauseInv' /\ FirstCause
    BY <1>22 DEF ChildEnds, frame
  <1>23. ASSUME NEW c \in Child, ChildRetires(c) PROVE CauseInv' /\ FirstCause
    BY <1>23 DEF ChildRetires, frame
  <1>24. CASE UNCHANGED vars
    BY <1>24 DEF vars
  <1> QED
    BY <1>1, <1>2, <1>3, <1>4, <1>5, <1>6, <1>7, <1>8, <1>9, <1>10, <1>11,
       <1>12, <1>13, <1>14, <1>15, <1>16, <1>17, <1>18, <1>19, <1>20, <1>21,
       <1>22, <1>23, <1>24 DEF Next, Exit, User

-----------------------------------------------------------------------------
(* The shared deadline *)

\* A step that goes on with the same unwinding does not renew its deadline.
Tightens ==
    /\ Unwinding(out) /\ Unwinding(out')
    /\ Present(term) = Present(term')
    /\ out'.kind = "term" => out.kind = "term"
    => DueBy' <= DueBy

\* The deadline of the outcome and of the frame is the earlier of the two.
LEMMA DueTightens ==
    ASSUME ShapeInv, ShapeInv',
           term'.by <= term.by \/ out'.cleanup.by <= term.by,
           term'.by <= out.cleanup.by \/ out'.cleanup.by <= out.cleanup.by
    PROVE  DueBy' <= DueBy
  <1>1. \A a, b \in Sound : /\ a.by \in Int /\ Join(a, b).by \in {a.by, b.by}
                            /\ Join(a, b).by <= a.by /\ Join(a, b).by <= b.by
    BY JoinFacts, ScopeAssumption DEF Sound, Contexts
  <1>2. /\ term \in Sound /\ out.cleanup \in Sound
        /\ term' \in Sound /\ out'.cleanup \in Sound
    BY DEF ShapeInv, SoundContexts
  <1> QED
    BY <1>1, <1>2 DEF DueBy

\* No step of the exit gives an unwinding outcome more time.
LEMMA BudgetStep == ShapeInv /\ ShapeInv' /\ CauseInv /\ BudgetInv /\ [Next]_vars => BudgetInv' /\ Tightens
  <1> SUFFICES ASSUME ShapeInv, ShapeInv', CauseInv, BudgetInv, [Next]_vars PROVE BudgetInv' /\ Tightens
    OBVIOUS
  <1> USE DEF BudgetInv, Exiting, Discards, Tightens
  <1>i. /\ \A c \in Sound : c.by \in Int /\ (~Present(c) => c.by = MaxTime + 1)
                            /\ c.by <= MaxTime + 1
        /\ {term, taskCancel, guard, out.cleanup, alt.out.cleanup, x.ctx} \subseteq Sound
        /\ {term', guard', out'.cleanup, alt'.out.cleanup, x'.ctx} \subseteq Sound
        /\ term.by \in Int /\ guard.by \in Int /\ out.cleanup.by \in Int
        /\ alt.out.cleanup.by \in Int /\ x.ctx.by \in Int
        /\ term'.by \in Int /\ guard'.by \in Int /\ out'.cleanup.by \in Int
        /\ alt'.out.cleanup.by \in Int /\ x'.ctx.by \in Int
    BY ScopeAssumption DEF ShapeInv, SoundContexts, Sound, Contexts
  <1>1. ASSUME NEW handles \in SUBSET Child, Enter(handles) PROVE BudgetInv' /\ Tightens
    <2>1. /\ at' = "wait" /\ ObserveTermination(out) /\ UNCHANGED <<guard, alt>> /\ at = "exit"
          /\ x'.ctx.by <= term'.by /\ x'.ctx.by <= out'.cleanup.by
          /\ out'.cleanup.by <= out.cleanup.by
      BY <1>1, EnterFacts
    <2>2. term'.by <= term.by
      BY <2>1, ObserveFacts
    <2>3. ~Present(guard)
      BY <2>1 DEF CauseInv
    <2> QED
      BY <2>1, <2>2, <2>3, <1>i, DueTightens
  <1>2. CASE PrepareTerminal
    <2>1. /\ UNCHANGED <<term, out, alt, guard>> /\ at \in Exiting /\ at \notin Discards
          /\ at' \in Exiting /\ at' # "finally" /\ x'.ctx = x.ctx
      BY <1>2 DEF PrepareTerminal, ShapeInv, TypeOK, ExitStates, Exiting
    <2> QED
      BY <2>1, <1>i, DueTightens
  <1>3. CASE PollTerminal
    <2>1. /\ UNCHANGED <<term, out, alt, guard>> /\ at \in Exiting /\ at \notin Discards
          /\ at' \in Exiting /\ at' # "finally" /\ x'.ctx = x.ctx
      BY <1>3 DEF PollTerminal, Goes, ShapeInv, TypeOK, ExitStates, Exiting
    <2> QED
      BY <2>1, <1>i, DueTightens
  <1>4. CASE ReleaseOwners
    <2>1. /\ UNCHANGED <<term, out, alt, guard>> /\ at \in Exiting /\ at \notin Discards
          /\ at' \in Exiting /\ at' # "finally" /\ x'.ctx = x.ctx
      BY <1>4 DEF ReleaseOwners, Goes, ShapeInv, TypeOK, ExitStates, Exiting
    <2> QED
      BY <2>1, <1>i, DueTightens
  <1>5. CASE DropHandles
    <2> DEFINE ctx == ScopeCleanupContext(term, x.ctx, taskCancel)
    <2>1. /\ UNCHANGED <<term, out, alt, guard>> /\ at = "drop" /\ at' = "teardown"
          /\ x'.ctx = ctx
      BY <1>5 DEF DropHandles, Goes, ShapeInv, TypeOK, ExitStates
    <2>2. ctx.by <= x.ctx.by /\ ctx.by \in Int
      BY ShapeFacts, CleanupContextFacts, <1>i
    <2> HIDE DEF ctx
    <2> QED
      BY <2>1, <2>2, <1>i, DueTightens
  <1>6. ASSUME NEW d \in 0..MaxTime + 1, Teardown(d) PROVE BudgetInv' /\ Tightens
    <2> DEFINE ctx == ScopeCleanupContext(term, x.ctx, taskCancel)
    <2>1. /\ UNCHANGED <<term, out, alt, guard>> /\ at = "teardown" /\ at' \in {"retire", "check"}
          /\ x' = [x EXCEPT !.ctx = [ctx EXCEPT !.by = d]]
          /\ d = ctx.by \/ d \in now..ctx.by
      BY <1>6 DEF Teardown, Goes
    <2>2. ctx.by <= x.ctx.by /\ ctx.by \in Int /\ d \in Int /\ ctx \in Contexts /\ now \in Int
      BY ShapeFacts, CleanupContextFacts, <1>i, ScopeAssumption
    <2> HIDE DEF ctx
    <2>3. x'.ctx.by = d
      BY <2>1, <2>2 DEF ShapeInv, TypeOK, ExitStates, Contexts
    <2>4. d <= x.ctx.by
      BY <2>1, <2>2, <1>i
    <2> QED
      BY <2>1, <2>2, <2>3, <2>4, <1>i, DueTightens
  <1>7. CASE PollRetirement
    <2> DEFINE ctx == ScopeCleanupContext(term, x.ctx, taskCancel)
               by == ScannedBy(ctx)
    <2>1. /\ UNCHANGED <<term, out, alt, guard>> /\ at = "retire" /\ at' = "check"
          /\ \E r : x' = [x EXCEPT !.ctx = [ctx EXCEPT !.by = by], !.cleanup = r]
      BY <1>7 DEF PollRetirement, Goes
    <2>2. ctx.by <= x.ctx.by /\ ctx.by \in Int /\ ctx \in Contexts
      BY ShapeFacts, CleanupContextFacts, <1>i
    <2>3. by \in Int /\ by <= ctx.by
      BY <2>2, ScanFacts, ScopeAssumption DEF ShapeInv
    <2> HIDE DEF ctx, by
    <2>4. x'.ctx.by = by
      BY <2>1, <2>2 DEF ShapeInv, TypeOK, ExitStates, Contexts
    <2>5. x'.ctx.by <= x.ctx.by
      BY <2>2, <2>3, <2>4, <1>i
    <2> QED
      BY <2>1, <2>5, <1>i, DueTightens
  <1>8. CASE DeadlineCheck
    <2>1. /\ at = "check" /\ at' = "arbitrate" /\ out' = Remember(out, x.ctx)
          /\ UNCHANGED <<alt, guard, term>> /\ x'.ctx = x.ctx
      BY <1>8 DEF DeadlineCheck, Goes, ShapeInv, TypeOK, ExitStates
    <2>2. out'.cleanup.by <= out.cleanup.by
      BY <2>1, ShapeFacts, RememberSound
    <2>3. x.ctx.by <= out'.cleanup.by
      BY <2>1, ShapeFacts, RememberSound
    <2>4. ~Present(guard)
      BY <2>1 DEF CauseInv
    <2> QED
      BY <2>1, <2>2, <2>3, <2>4, <1>i, DueTightens
  <1>9. CASE Arbitrate
    <2>1. /\ at = "arbitrate" /\ UNCHANGED <<x, guard, term>>
          /\ \/ at' = "done" /\ UNCHANGED <<out, alt>>
             \/ /\ at' = "discard" /\ Present(x.ctx) /\ out' = out
                /\ alt' = [out |-> Remember(CleanupError, x.ctx), then |-> "done"]
             \/ at' = "done" /\ out' = CleanupError /\ ~Present(x.ctx)
      BY <1>9 DEF Arbitrate
    <2>2. /\ CleanupError \in Outcomes /\ CleanupError.cleanup = NoContext
          /\ CleanupError.kind \in {"fatal", "shutdown"}
      BY OutcomeFacts, NoContextFacts DEF CleanupError, Outcome, Sound
    <2>3. NoContext \in Sound /\ NoContext.by = MaxTime + 1 /\ x.ctx \in Sound
      BY NoContextFacts, ShapeFacts
    <2>4. Present(x.ctx) => Remember(CleanupError, x.ctx).cleanup.by <= x.ctx.by
      BY <2>2, <2>3, RememberSound
    <2>5. ~Present(x.ctx) => out.cleanup.by >= MaxTime + 1
      BY <2>1, <1>i DEF Sound
    <2>6. at' = "discard" => alt'.out.cleanup.by <= out.cleanup.by
      <3>1. SUFFICES ASSUME at' = "discard" PROVE alt'.out.cleanup.by <= out.cleanup.by
        OBVIOUS
      <3>2. Present(x.ctx) /\ alt'.out = Remember(CleanupError, x.ctx)
        BY <2>1, <3>1
      <3> QED
        BY <2>1, <2>4, <3>2, <1>i
    <2>7. out'.cleanup.by <= out.cleanup.by
      BY <2>1, <2>2, <2>3, <2>5, <1>i, ScopeAssumption
    <2>8. ~Present(guard)
      BY <2>1 DEF CauseInv
    <2> QED
      BY <2>1, <2>6, <2>7, <2>8, <1>i, DueTightens
  <1>10. CASE Discard
    <2>1. /\ at \in Discards /\ UNCHANGED <<x, alt, guard, term>>
          /\ \/ at' = alt.then /\ out' = Installed
             \/ at' = "discarding" /\ out' = out
      BY <1>10 DEF Discard, DropOutcome, Discards
    <2>2. alt.then \in {"done", "leave"}
      BY DEF ShapeInv, TypeOK
    <2>3. Installed.kind = alt.out.kind /\ Installed.cleanup.by <= alt.out.cleanup.by
      BY DiscardFacts
    <2>4. out'.kind # "term" \/ out' = out => out'.cleanup.by <= out.cleanup.by
      BY <2>1, <2>3, <1>i
    <2>5. out.kind # "term" /\ ~Present(guard)
      BY <2>1 DEF CauseInv, Discards
    <2> QED
      BY <2>1, <2>2, <2>4, <2>5, <1>i, DueTightens
  <1>11. CASE Discarding
    <2>1. /\ at \in Discards /\ UNCHANGED <<x, alt, guard, term>>
          /\ \/ at' = alt.then /\ out' = Installed
             \/ at' = "discarding" /\ out' = out
      BY <1>11 DEF Discarding, DropOutcome, Discards
    <2>2. alt.then \in {"done", "leave"}
      BY DEF ShapeInv, TypeOK
    <2>3. Installed.kind = alt.out.kind /\ Installed.cleanup.by <= alt.out.cleanup.by
      BY DiscardFacts
    <2>4. out'.kind # "term" \/ out' = out => out'.cleanup.by <= out.cleanup.by
      BY <2>1, <2>3, <1>i
    <2>5. out.kind # "term" /\ ~Present(guard)
      BY <2>1 DEF CauseInv, Discards
    <2> QED
      BY <2>1, <2>2, <2>4, <2>5, <1>i, DueTightens
  <1>12. CASE PrepareFinally
    <2>1. /\ at' \in {"leave", "finally"} /\ ObserveTermination(out) /\ out' = out
          /\ guard' = (IF out.kind = "term" THEN term' ELSE NoContext)
      BY <1>12 DEF PrepareFinally
    <2>2. term'.by <= term.by /\ (out.kind = "term" => term'.by <= out.cleanup.by)
      BY <2>1, ObserveFacts
    <2> QED
      BY <2>1, <2>2, <1>i, NoContextFacts, DueTightens
  <1>13. CASE Leave
    <2>1. Outcome("none", NoContext).kind = "none"
      BY DEF Outcome
    <2>2. /\ at' \in {"end", "body", "exit"} /\ UNCHANGED <<term, guard>>
          /\ out' = out \/ out'.kind = "none"
          /\ at # "finally"
      BY <1>13, <2>1 DEF Leave
    <2>3. ~Present(guard)
      BY <2>2 DEF CauseInv
    <2>4. out' = out => DueBy' <= DueBy
      BY <2>2, <1>i, DueTightens
    <2> QED
      BY <2>2, <2>3, <2>4 DEF Unwinding
  <1>14. ASSUME NEW kind \in Flows, BodyEnds(kind) PROVE BudgetInv' /\ Tightens
    <2>1. at = "body" /\ at' = "exit" /\ UNCHANGED guard
      BY <1>14 DEF BodyEnds, Goes
    <2> QED
      BY <2>1 DEF CauseInv, Unwinding
  <1>15. CASE BodyPolls
    <2>1. at = "body" /\ at' = "exit" /\ UNCHANGED guard
      BY <1>15 DEF BodyPolls, Goes
    <2> QED
      BY <2>1 DEF CauseInv, Unwinding
  <1>16. ASSUME NEW kind \in Flows, ProtectedEnds(kind) PROVE BudgetInv' /\ Tightens
    <2>1. /\ at = "finally" /\ Present(guard) /\ at' = "leave"
          /\ out' = Outcome("term", guard) /\ guard' = NoContext /\ UNCHANGED term
      BY <1>16 DEF ProtectedEnds, Goes
    <2>2. out'.cleanup = guard
      BY <2>1 DEF Outcome
    <2> QED
      BY <2>1, <2>2, <1>i, NoContextFacts, DueTightens
  <1>17. CASE ProtectedPolls
    <2>1. /\ at = "finally" /\ Present(guard)
          /\ \/ UNCHANGED <<at, out, guard>>
             \/ at' = "leave" /\ out' = Outcome("term", guard) /\ guard' = NoContext
      BY <1>17 DEF ProtectedPolls
    <2>2. Outcome("term", guard).cleanup = guard
      BY DEF Outcome
    <2>3. term'.by <= term.by
      BY <1>17, ProtectedFacts
    <2>4. out'.cleanup.by <= out.cleanup.by
      BY <2>1, <2>2, <1>i
    <2> QED
      BY <2>1, <2>3, <2>4, <1>i, NoContextFacts, DueTightens
  <1>18. CASE OrdinaryContinues
    <2>1. at' = "leave" /\ UNCHANGED <<out, guard, term>>
      BY <1>18 DEF OrdinaryContinues, Goes
    <2> QED
      BY <2>1, <1>i, DueTightens
  <1>19. ASSUME NEW kind \in (Flows \ {"continue"}) \cup {"term"}, OrdinaryReplaces(kind) PROVE BudgetInv' /\ Tightens
    <2>1. /\ at = "finally" /\ at' = "discard" /\ ~Present(guard) /\ UNCHANGED <<out, guard>>
          /\ alt'.out.kind = kind /\ term'.by <= term.by
          /\ kind # "term" /\ ~Present(term) => alt'.out.cleanup.by <= out.cleanup.by
      BY <1>19, ReplaceFacts
    <2>2. ~Present(term)
      BY <2>1 DEF CauseInv, Discards
    <2> QED
      BY <2>1, <2>2, <1>i, DueTightens
  <1>20. CASE Tick
    <2>1. UNCHANGED <<at, out, alt, x, guard, term>>
      BY <1>20 DEF Tick, frame
    <2> QED
      BY <2>1, <1>i, DueTightens
  <1>21. ASSUME NEW why \in {"cancelled", "timedout"}, NEW by \in {now, now + Budget},
           CancelTask(why, by)
    PROVE  BudgetInv' /\ Tightens
    <2>1. UNCHANGED <<at, out, alt, x, guard, term>>
      BY <1>21 DEF CancelTask, frame
    <2> QED
      BY <2>1, <1>i, DueTightens
  <1>22. ASSUME NEW c \in Child, ChildEnds(c) PROVE BudgetInv' /\ Tightens
    <2>1. UNCHANGED <<at, out, alt, x, guard, term>>
      BY <1>22 DEF ChildEnds, frame
    <2> QED
      BY <2>1, <1>i, DueTightens
  <1>23. ASSUME NEW c \in Child, ChildRetires(c) PROVE BudgetInv' /\ Tightens
    <2>1. UNCHANGED <<at, out, alt, x, guard, term>>
      BY <1>23 DEF ChildRetires, frame
    <2> QED
      BY <2>1, <1>i, DueTightens
  <1>24. CASE UNCHANGED vars
    BY <1>24, <1>i, DueTightens DEF vars
  <1> QED
    BY <1>1, <1>2, <1>3, <1>4, <1>5, <1>6, <1>7, <1>8, <1>9, <1>10, <1>11,
       <1>12, <1>13, <1>14, <1>15, <1>16, <1>17, <1>18, <1>19, <1>20, <1>21,
       <1>22, <1>23, <1>24 DEF Next, Exit, User

-----------------------------------------------------------------------------
(* The tasks of a scope *)

\* What an exit knows about its tasks stays true.
LEMMA SettleStep == ShapeInv /\ CauseInv /\ SettleInv /\ [Next]_vars => SettleInv'
  <1> SUFFICES ASSUME ShapeInv, CauseInv, SettleInv, [Next]_vars PROVE SettleInv'
    OBVIOUS
  <1> USE DEF SettleInv, Exiting, Failed
  <1>x. x \in ExitStates /\ life \in [Child -> {"running", "terminal", "retired"}]
        /\ x = [ctx |-> x.ctx, expired |-> x.expired, handles |-> x.handles,
                collected |-> x.collected, settled |-> x.settled, cleanup |-> x.cleanup]
        /\ x.handles \subseteq Child
    BY DEF ShapeInv, TypeOK, ExitStates
  <1>1. ASSUME NEW handles \in SUBSET Child, Enter(handles) PROVE SettleInv'
    <2>1. /\ at' = "wait" /\ UNCHANGED <<mode, level, home, life>>
          /\ x'.handles = handles /\ (Present(x'.ctx) \/ handles = {})
          /\ x'.collected = IF level \in mode.opaque THEN "error" ELSE "ok"
          /\ IF level \in mode.opaque THEN handles \subseteq HeldBy({level})
                                     ELSE handles = HeldBy({level})
      BY <1>1, EnterFacts
    <2> QED
      BY <2>1 DEF HeldBy
  <1>2. CASE PrepareTerminal
    <2>1. /\ at = "wait" /\ UNCHANGED <<mode, level, home, life, out>>
          /\ \/ at' = "release" /\ x' = [x EXCEPT !.settled = "ok"] /\ x.handles = {}
             \/ at' = "poll" /\ x' = x
      BY <1>2 DEF PrepareTerminal
    <2> QED
      BY <2>1, <1>x DEF HeldBy
  <1>3. CASE PollTerminal
    <2>1. /\ at = "poll" /\ at' = "release" /\ UNCHANGED <<mode, level, home, life, out>>
          /\ \/ x' = [x EXCEPT !.settled = "ok"] /\ \A c \in x.handles : life[c] # "running"
             \/ x' = [x EXCEPT !.settled = "late"]
      BY <1>3 DEF PollTerminal, Goes, child
    <2> QED
      BY <2>1, <1>x DEF HeldBy
  <1>4. CASE ReleaseOwners
    <2>1. /\ at = "release" /\ at' = "drop" /\ UNCHANGED <<mode, level, home, life, out, x>>
      BY <1>4 DEF ReleaseOwners, Goes
    <2> QED
      BY <2>1 DEF HeldBy
  <1>5. CASE DropHandles
    <2> DEFINE ctx == ScopeCleanupContext(term, x.ctx, taskCancel)
    <2>1. /\ at = "drop" /\ at' = "teardown" /\ UNCHANGED <<mode, level, home, life, out>>
          /\ x' = [x EXCEPT !.cleanup = IF Failed(x.collected) THEN x.collected ELSE x.settled,
                            !.ctx = ctx]
      BY <1>5 DEF DropHandles, Goes, child
    <2>2. Present(x.ctx) => Present(ctx)
      BY ShapeFacts, CleanupContextFacts
    <2> HIDE DEF ctx
    <2> QED
      BY <2>1, <2>2, <1>x DEF HeldBy
  <1>6. ASSUME NEW d \in 0..MaxTime + 1, Teardown(d) PROVE SettleInv'
    <2> DEFINE ctx == ScopeCleanupContext(term, x.ctx, taskCancel)
    <2>1. /\ at = "teardown" /\ UNCHANGED <<mode, level, home, life, out>>
          /\ at' = (IF mode.witnessed /\ x.handles # {} THEN "retire" ELSE "check")
          /\ x' = [x EXCEPT !.ctx = [ctx EXCEPT !.by = d]]
      BY <1>6 DEF Teardown, Goes, child
    <2>2. (Present(x.ctx) => Present(ctx)) /\ ctx \in Contexts
      BY ShapeFacts, CleanupContextFacts
    <2> HIDE DEF ctx
    <2>3. Present(ctx) => Present([ctx EXCEPT !.by = d])
      BY <2>2 DEF Present, Contexts
    <2>4. x'.ctx = [ctx EXCEPT !.by = d] /\ x'.handles = x.handles
          /\ x'.collected = x.collected /\ x'.cleanup = x.cleanup
      BY <2>1, <1>x
    <2> QED
      BY <2>1, <2>2, <2>3, <2>4 DEF HeldBy
  <1>7. CASE PollRetirement
    <2> DEFINE ctx == ScopeCleanupContext(term, x.ctx, taskCancel)
               retired == \A c \in x.handles : life[c] = "retired"
               r == IF Failed(x.cleanup) THEN x.cleanup ELSE IF retired THEN "ok" ELSE "late"
    <2>1. /\ at = "retire" /\ at' = "check" /\ UNCHANGED <<mode, level, home, life, out>>
          /\ x' = [x EXCEPT !.ctx = [ctx EXCEPT !.by = ScannedBy(ctx)], !.cleanup = r]
      BY <1>7 DEF PollRetirement, Goes, child
    <2>2. (Present(x.ctx) => Present(ctx)) /\ ctx \in Contexts
      BY ShapeFacts, CleanupContextFacts
    <2> HIDE DEF ctx
    <2>3. Present(ctx) => Present([ctx EXCEPT !.by = ScannedBy(ctx)])
      BY <2>2 DEF Present, Contexts
    <2>4. x'.ctx = [ctx EXCEPT !.by = ScannedBy(ctx)] /\ x'.handles = x.handles
          /\ x'.collected = x.collected /\ x'.cleanup = r
      BY <2>1, <1>x
    <2>5. ~Failed(r) => retired /\ ~Failed(x.cleanup)
      BY DEF Failed
    <2> HIDE DEF r
    <2> QED
      BY <2>1, <2>2, <2>3, <2>4, <2>5 DEF HeldBy
  <1>8. CASE DeadlineCheck
    <2>1. /\ at = "check" /\ at' = "arbitrate" /\ UNCHANGED <<mode, level, home, life>>
          /\ x' \in {x, [x EXCEPT !.cleanup = "late"]}
      BY <1>8 DEF DeadlineCheck, Goes, child
    <2> QED
      BY <2>1, <1>x DEF HeldBy
  <1>9. CASE Arbitrate
    <2>1. /\ at = "arbitrate" /\ UNCHANGED <<mode, level, home, life, x>>
          /\ \/ at' = "done" /\ out' = out /\ (~Failed(x.cleanup) \/ out.kind = "term")
             \/ at' = "discard"
             \/ at' = "done" /\ out' = CleanupError
      BY <1>9 DEF Arbitrate
    <2>2. ~IsFlow(CleanupError)
      BY DEF CleanupError, Outcome, IsFlow
    <2> QED
      BY <2>1, <2>2 DEF HeldBy, IsFlow
  <1>10. CASE Discard
    <2>1. /\ at \in Discards /\ UNCHANGED <<mode, level, home, life, x>>
          /\ \/ at' = alt.then /\ out' = Installed
             \/ at' = "discarding"
      BY <1>10 DEF Discard, DropOutcome, Discards
    <2>2. alt.then \in {"done", "leave"}
      BY DEF ShapeInv, TypeOK
    <2>3. at' = "done" => ~IsFlow(out')
      BY <2>1, DiscardFacts DEF CauseInv, IsFlow
    <2> QED
      BY <2>1, <2>2, <2>3
  <1>11. CASE Discarding
    <2>1. /\ at \in Discards /\ UNCHANGED <<mode, level, home, life, x>>
          /\ \/ at' = alt.then /\ out' = Installed
             \/ at' = "discarding"
      BY <1>11 DEF Discarding, DropOutcome, Discards
    <2>2. alt.then \in {"done", "leave"}
      BY DEF ShapeInv, TypeOK
    <2>3. at' = "done" => ~IsFlow(out')
      BY <2>1, DiscardFacts DEF CauseInv, IsFlow
    <2> QED
      BY <2>1, <2>2, <2>3
  <1>12. CASE PrepareFinally
    <2>1. at' \in {"leave", "finally"}
      BY <1>12 DEF PrepareFinally, Goes
    <2> QED
      BY <2>1
  <1>13. CASE Leave
    <2>1. at' \in {"end", "body", "exit"}
      BY <1>13 DEF Leave, Goes
    <2> QED
      BY <2>1
  <1>14. ASSUME NEW kind \in Flows, BodyEnds(kind) PROVE SettleInv'
    <2>1. at' \in {"exit"}
      BY <1>14 DEF BodyEnds, Goes
    <2> QED
      BY <2>1
  <1>15. CASE BodyPolls
    <2>1. at' \in {"exit"}
      BY <1>15 DEF BodyPolls, Goes
    <2> QED
      BY <2>1
  <1>16. ASSUME NEW kind \in Flows, ProtectedEnds(kind) PROVE SettleInv'
    <2>1. at' \in {"leave"}
      BY <1>16 DEF ProtectedEnds, Goes
    <2> QED
      BY <2>1
  <1>17. CASE ProtectedPolls
    <2>1. at' \in {"leave", "finally"}
      BY <1>17 DEF ProtectedPolls, Goes
    <2> QED
      BY <2>1
  <1>18. CASE OrdinaryContinues
    <2>1. at' \in {"leave"}
      BY <1>18 DEF OrdinaryContinues, Goes
    <2> QED
      BY <2>1
  <1>19. ASSUME NEW kind \in (Flows \ {"continue"}) \cup {"term"}, OrdinaryReplaces(kind) PROVE SettleInv'
    <2>1. at' \in {"discard"}
      BY <1>19 DEF OrdinaryReplaces, Goes
    <2> QED
      BY <2>1
  <1>20. CASE Tick
    <2>1. UNCHANGED <<mode, at, level, out, x, home, life>>
      BY <1>20 DEF Tick, frame, child
    <2> QED
      BY <2>1 DEF HeldBy, IsFlow
  <1>21. ASSUME NEW why \in {"cancelled", "timedout"}, NEW by \in {now, now + Budget},
           CancelTask(why, by)
    PROVE  SettleInv'
    <2>1. UNCHANGED <<mode, at, level, out, x, home, life>>
      BY <1>21 DEF CancelTask, frame, child
    <2> QED
      BY <2>1 DEF HeldBy, IsFlow
  <1>22. ASSUME NEW c \in Child, ChildEnds(c) PROVE SettleInv'
    <2>1. /\ UNCHANGED <<mode, at, level, out, x, home>>
          /\ life[c] # "retired" /\ life' = [life EXCEPT ![c] = "terminal"]
      BY <1>22 DEF ChildEnds, frame
    <2>2. \A k \in Child : /\ life[k] # "running" => life'[k] # "running"
                           /\ life[k] = "retired" => life'[k] = "retired"
      BY <2>1, <1>x
    <2>3. HeldBy({level}) \subseteq Child /\ HeldBy({level})' = HeldBy({level})
      BY <2>1 DEF HeldBy
    <2> QED
      BY <2>1, <2>2, <2>3, <1>x DEF IsFlow
  <1>23. ASSUME NEW c \in Child, ChildRetires(c) PROVE SettleInv'
    <2>1. /\ UNCHANGED <<mode, at, level, out, x, home>>
          /\ life[c] # "retired" /\ life' = [life EXCEPT ![c] = "retired"]
      BY <1>23 DEF ChildRetires, frame
    <2>2. \A k \in Child : /\ life[k] # "running" => life'[k] # "running"
                           /\ life[k] = "retired" => life'[k] = "retired"
      BY <2>1, <1>x
    <2>3. HeldBy({level}) \subseteq Child /\ HeldBy({level})' = HeldBy({level})
      BY <2>1 DEF HeldBy
    <2> QED
      BY <2>1, <2>2, <2>3, <1>x DEF IsFlow
  <1>24. CASE UNCHANGED vars
    BY <1>24 DEF vars, HeldBy, IsFlow
  <1> QED
    BY <1>1, <1>2, <1>3, <1>4, <1>5, <1>6, <1>7, <1>8, <1>9, <1>10, <1>11,
       <1>12, <1>13, <1>14, <1>15, <1>16, <1>17, <1>18, <1>19, <1>20, <1>21,
       <1>22, <1>23, <1>24 DEF Next, Exit, User

\* No task is lost on the way out.
LEMMA AskedStep == ShapeInv /\ CauseInv /\ AskedInv /\ [Next]_vars => AskedInv'
  <1> SUFFICES ASSUME ShapeInv, CauseInv, AskedInv, [Next]_vars PROVE AskedInv'
    OBVIOUS
  <1> USE DEF AskedInv, LetGo, TornDown
  <1>x. /\ TypeOK /\ x.ctx \in Contexts /\ level \in 1..Depth
        /\ life \in [Child -> {"running", "terminal", "retired"}] /\ home \in [Child -> 0..Depth]
    BY DEF ShapeInv, TypeOK, ExitStates
  <1>1. ASSUME NEW handles \in SUBSET Child, Enter(handles) PROVE AskedInv'
    <2>1. /\ at' = "wait" /\ at = "exit"
          /\ UNCHANGED <<mode, level, guard, home, life, asked, released>>
          /\ out'.kind = out.kind
      BY <1>1, EnterFacts
    <2> QED
      BY <2>1
  <1>2. CASE PrepareTerminal
    <2>1. /\ at' \in {"release", "poll"} /\ UNCHANGED <<level, home, life, out, released>>
          /\ UNCHANGED asked \/ \E T : Ask(T, x.ctx)
      BY <1>2 DEF PrepareTerminal
    <2>2. \A k \in Child : Present(asked[k]) => Present(asked'[k])
      BY <2>1, <1>x, AskFacts
    <2> QED
      BY <2>1, <2>2
  <1>3. CASE PollTerminal
    <2>1. at' = "release" /\ UNCHANGED <<level, out, home, life, asked, released>>
      BY <1>3 DEF PollTerminal, Goes, child
    <2> QED
      BY <2>1
  <1>4. CASE ReleaseOwners
    <2> DEFINE ctx == ScopeCleanupContext(term, x.ctx, taskCancel)
    <2>1. /\ at' = "drop" /\ UNCHANGED <<level, home, life, out>>
          /\ Ask(x.handles, ctx) /\ released' = released \cup x.handles
      BY <1>4 DEF ReleaseOwners, ReleaseOwner, Goes
    <2>2. ctx \in Contexts
      BY ShapeFacts, CleanupContextFacts
    <2> HIDE DEF ctx
    <2>3. \A k \in Child : Present(asked[k]) => Present(asked'[k])
      BY <2>1, <2>2, <1>x, AskFacts
    <2> QED
      BY <2>1, <2>3
  <1>5. CASE DropHandles
    <2>1. at' = "teardown" /\ UNCHANGED <<level, out, home, life, asked, released>>
      BY <1>5 DEF DropHandles, Goes, child
    <2> QED
      BY <2>1
  <1>6. ASSUME NEW d \in 0..MaxTime + 1, Teardown(d) PROVE AskedInv'
    <2> DEFINE ctx == ScopeCleanupContext(term, x.ctx, taskCancel)
               drop == IF Present(ctx) THEN ctx ELSE Context("cancelled", now + Budget)
    <2>1. /\ at = "teardown" /\ at' \in {"retire", "check"} /\ UNCHANGED <<level, home, life, out>>
          /\ Ask(HeldBy({level}), drop) /\ released' = released \cup HeldBy({level})
      BY <1>6 DEF Teardown, Goes, ReleaseOwner
    <2>2. drop \in Contexts /\ Present(drop)
      BY ShapeFacts, CleanupContextFacts, ContextFacts, ScopeAssumption
    <2> HIDE DEF ctx, drop
    <2>3. /\ \A k \in Child : Present(asked[k]) => Present(asked'[k])
          /\ \A k \in HeldBy({level}) : life[k] = "running" => Present(asked'[k])
      BY <2>1, <2>2, <1>x, AskFacts DEF HeldBy
    <2>4. \A k \in Child : home[k] = level => k \in HeldBy({level})
      BY DEF HeldBy
    <2> QED
      BY <2>1, <2>3, <2>4
  <1>7. CASE PollRetirement
    <2>1. /\ at = "retire" /\ at' = "check" /\ UNCHANGED <<level, out, home, life, asked, released>>
      BY <1>7 DEF PollRetirement, Goes, child
    <2> QED
      BY <2>1
  <1>8. CASE DeadlineCheck
    <2>1. /\ at = "check" /\ at' = "arbitrate" /\ out' = Remember(out, x.ctx)
          /\ UNCHANGED <<level, home, life, asked, released>>
      BY <1>8 DEF DeadlineCheck, Goes, child
    <2>2. out'.kind = out.kind
      BY <2>1, ShapeFacts, RememberFacts
    <2> QED
      BY <2>1, <2>2
  <1>9. CASE Arbitrate
    <2> DEFINE ctx == Context("cancelled", now + Budget)
    <2>1. /\ at = "arbitrate" /\ at' \in {"done", "discard"} /\ UNCHANGED <<level, home, life>>
          /\ \/ UNCHANGED <<out, asked, released>>
             \/ Ask(HeldBy({0}), ctx) /\ released' = released \cup HeldBy({0})
      BY <1>9 DEF Arbitrate, ReleaseOwner
    <2>2. ctx \in Contexts /\ Present(ctx)
      BY ShapeFacts, ContextFacts, ScopeAssumption
    <2> HIDE DEF ctx
    <2>3. \A k \in Child : home[k] = 0 => k \in HeldBy({0})
      BY DEF HeldBy
    <2>4. CASE UNCHANGED <<out, asked, released>>
      BY <2>1, <2>4
    <2>5. CASE Ask(HeldBy({0}), ctx) /\ released' = released \cup HeldBy({0})
      <3>1. /\ \A k \in Child : Present(asked[k]) => Present(asked'[k])
            /\ \A k \in Child : k \in HeldBy({0}) /\ life[k] = "running" => Present(asked'[k])
        BY <2>2, <2>5, <1>x, AskFacts
      <3> QED
        BY <2>1, <2>3, <2>5, <3>1
    <2> QED
      BY <2>1, <2>4, <2>5
  <1>10. CASE Discard
    <2>1. /\ at \in Discards /\ UNCHANGED <<level, home, life, guard>>
          /\ Ask(HeldBy({0}), DiscardContext)
          /\ \/ at' = alt.then /\ released' = released \cup HeldBy({0})
             \/ at' = "discarding" /\ UNCHANGED <<out, released>>
      BY <1>10 DEF Discard, DropOutcome, ReleaseOwner, Discards
    <2>2. alt.then \in {"done", "leave"}
      BY DEF ShapeInv, TypeOK
    <2>3. DiscardContext \in Contexts /\ Present(DiscardContext)
      BY <2>1, DiscardFacts DEF CauseInv
    <2>4. /\ \A k \in Child : Present(asked[k]) => Present(asked'[k])
          /\ \A k \in Child : k \in HeldBy({0}) /\ life[k] = "running" => Present(asked'[k])
      BY <2>1, <2>3, <1>x, AskFacts
    <2>5. \A k \in Child : home[k] = 0 => k \in HeldBy({0})
      BY DEF HeldBy
    <2>6. \A k \in Child : LetGo(k) => LetGo(k)'
      BY <2>1, <2>4
    <2>7. CASE released' = released \cup HeldBy({0})
      <3>1. \A k \in Child : home[k] = 0 => LetGo(k)'
        BY <2>1, <2>4, <2>5, <2>7
      <3> QED
        BY <2>1, <2>2, <2>6, <3>1 DEF Discards
    <2>8. CASE at' = "discarding" /\ UNCHANGED <<out, released>>
      BY <2>1, <2>6, <2>8 DEF Discards
    <2> QED
      BY <2>1, <2>7, <2>8
  <1>11. CASE Discarding
    <2>1. /\ at \in Discards /\ UNCHANGED <<level, home, life, guard>>
          /\ Ask(HeldBy({0}), DiscardContext)
          /\ \/ at' = alt.then /\ released' = released \cup HeldBy({0})
             \/ at' = "discarding" /\ UNCHANGED <<out, released>>
      BY <1>11 DEF Discarding, DropOutcome, ReleaseOwner, Discards
    <2>2. alt.then \in {"done", "leave"}
      BY DEF ShapeInv, TypeOK
    <2>3. DiscardContext \in Contexts /\ Present(DiscardContext)
      BY <2>1, DiscardFacts DEF CauseInv
    <2>4. /\ \A k \in Child : Present(asked[k]) => Present(asked'[k])
          /\ \A k \in Child : k \in HeldBy({0}) /\ life[k] = "running" => Present(asked'[k])
      BY <2>1, <2>3, <1>x, AskFacts
    <2>5. \A k \in Child : home[k] = 0 => k \in HeldBy({0})
      BY DEF HeldBy
    <2>6. \A k \in Child : LetGo(k) => LetGo(k)'
      BY <2>1, <2>4
    <2>7. CASE released' = released \cup HeldBy({0})
      <3>1. \A k \in Child : home[k] = 0 => LetGo(k)'
        BY <2>1, <2>4, <2>5, <2>7
      <3> QED
        BY <2>1, <2>2, <2>6, <3>1 DEF Discards
    <2>8. CASE at' = "discarding" /\ UNCHANGED <<out, released>>
      BY <2>1, <2>6, <2>8 DEF Discards
    <2> QED
      BY <2>1, <2>7, <2>8
  <1>12. CASE PrepareFinally
    <2>1. /\ at = "done" /\ at' \in {"leave", "finally"} /\ ObserveTermination(out)
          /\ UNCHANGED <<mode, level, out, home, life, released>>
          /\ \/ out.kind = "term" /\ guard' = term' /\ Ask(Visible(level + 1), term')
             \/ out.kind # "term" /\ guard' = NoContext /\ UNCHANGED asked
      BY <1>12 DEF PrepareFinally
    <2>2. CASE out.kind # "term" /\ guard' = NoContext /\ UNCHANGED asked
      BY <2>1, <2>2, NoContextFacts
    <2>3. CASE out.kind = "term" /\ guard' = term' /\ Ask(Visible(level + 1), term')
      <3>1. term' \in Contexts /\ Present(term')
        BY <2>1, <2>3, ObserveFacts DEF CauseInv, Sound
      <3>2. /\ \A k \in Child : Present(asked[k]) => Present(asked'[k])
            /\ \A k \in Child : k \in Visible(level + 1) /\ life[k] = "running"
                                  => Present(asked'[k])
        BY <2>3, <3>1, <1>x, AskFacts
      <3>3. \A k \in Child : mode.opaque = {} /\ home[k] > level => k \in Visible(level + 1)
        BY <1>x, ScopeAssumption DEF Visible, HeldBy
      <3> QED
        BY <2>1, <3>2, <3>3
    <2> QED
      BY <2>1, <2>2, <2>3
  <1>13. CASE Leave
    <2>1. Outcome("none", NoContext).kind = "none"
      BY DEF Outcome
    <2>2. /\ at \in {"leave", "done"} /\ at' \in {"end", "body", "exit"}
          /\ UNCHANGED <<home, life, asked, released>>
          /\ \/ at' = "end" /\ UNCHANGED <<level, out>>
             \/ /\ at' \in {"body", "exit"} /\ level' = level + 1
                /\ out'.kind = "return" <=> out.kind = "return"
      BY <1>13, <2>1 DEF Leave, child
    <2>3. \A k \in Child : home[k] \in 1..level => home[k] \in 1..(level - 1) \/ home[k] = level
      BY <1>x
    <2>4. level' = level + 1 => level' - 1 = level
      BY <1>x
    <2> QED
      BY <2>2, <2>3, <2>4
  <1>14. ASSUME NEW kind \in Flows, BodyEnds(kind) PROVE AskedInv'
    <2>1. /\ at = "body" /\ at' = "exit" /\ UNCHANGED <<level, life, asked, released>>
          /\ out' = Outcome(kind, NoContext)
          /\ home' = [c \in Child |-> IF kind = "return" /\ c \in Movable /\ home[c] = level
                                      THEN 0 ELSE home[c]]
      BY <1>14 DEF BodyEnds, Goes
    <2>2. out'.kind = kind /\ out.kind = "none"
      BY <2>1 DEF Outcome, CauseInv
    <2>3. \A k \in Child : /\ home'[k] = home[k] \/ home'[k] = 0
                           /\ home'[k] = 0 /\ kind # "return" => home[k] = 0
      BY <2>1
    <2> QED
      BY <2>1, <2>2, <2>3
  <1>15. CASE BodyPolls
    <2>1. at = "body" /\ at' = "exit" /\ UNCHANGED <<level, home, life, asked, released>>
      BY <1>15 DEF BodyPolls, Goes, child
    <2>2. out.kind = "none"
      BY <2>1 DEF CauseInv
    <2> QED
      BY <2>1, <2>2
  <1>16. ASSUME NEW kind \in Flows, ProtectedEnds(kind) PROVE AskedInv'
    <2>1. /\ at = "finally" /\ at' = "leave" /\ Present(guard)
          /\ UNCHANGED <<level, home, life, asked, released>>
      BY <1>16 DEF ProtectedEnds, Goes, child
    <2>2. out.kind = "term"
      BY <2>1 DEF CauseInv
    <2> QED
      BY <2>1, <2>2
  <1>17. CASE ProtectedPolls
    <2>1. /\ at = "finally" /\ Present(guard) /\ UNCHANGED <<mode, level, home, life, asked, released>>
          /\ UNCHANGED <<at, guard>> \/ at' = "leave"
      BY <1>17 DEF ProtectedPolls, child
    <2>2. out.kind = "term"
      BY <2>1 DEF CauseInv
    <2> QED
      BY <2>1, <2>2
  <1>18. CASE OrdinaryContinues
    <2>1. at = "finally" /\ at' = "leave" /\ UNCHANGED <<level, out, home, life, asked, released>>
      BY <1>18 DEF OrdinaryContinues, Goes, child
    <2> QED
      BY <2>1
  <1>19. ASSUME NEW kind \in (Flows \ {"continue"}) \cup {"term"}, OrdinaryReplaces(kind) PROVE AskedInv'
    <2>1. /\ at = "finally" /\ at' = "discard"
          /\ UNCHANGED <<level, out, home, life, asked, released>>
      BY <1>19 DEF OrdinaryReplaces, Goes, child
    <2> QED
      BY <2>1
  <1>20. CASE Tick
    <2>1. UNCHANGED <<mode, at, level, out, guard, home, life, asked, released>>
      BY <1>20 DEF Tick, frame, child
    <2> QED
      BY <2>1
  <1>21. ASSUME NEW why \in {"cancelled", "timedout"}, NEW by \in {now, now + Budget},
           CancelTask(why, by)
    PROVE  AskedInv'
    <2>1. UNCHANGED <<mode, at, level, out, guard, home, life, asked, released>>
      BY <1>21 DEF CancelTask, frame, child
    <2> QED
      BY <2>1
  <1>22. ASSUME NEW c \in Child, ChildEnds(c) PROVE AskedInv'
    <2>1. /\ UNCHANGED <<mode, at, level, out, guard, home, asked, released>>
          /\ life' = [life EXCEPT ![c] = "terminal"]
      BY <1>22 DEF ChildEnds, frame
    <2>2. \A k \in Child : life'[k] = "running" => life[k] = "running"
      BY <2>1, <1>x
    <2> QED
      BY <2>1, <2>2
  <1>23. ASSUME NEW c \in Child, ChildRetires(c) PROVE AskedInv'
    <2>1. /\ UNCHANGED <<mode, at, level, out, guard, home, asked, released>>
          /\ life' = [life EXCEPT ![c] = "retired"]
      BY <1>23 DEF ChildRetires, frame
    <2>2. \A k \in Child : life'[k] = "running" => life[k] = "running"
      BY <2>1, <1>x
    <2> QED
      BY <2>1, <2>2
  <1>24. CASE UNCHANGED vars
    BY <1>24 DEF vars
  <1> QED
    BY <1>1, <1>2, <1>3, <1>4, <1>5, <1>6, <1>7, <1>8, <1>9, <1>10, <1>11,
       <1>12, <1>13, <1>14, <1>15, <1>16, <1>17, <1>18, <1>19, <1>20, <1>21,
       <1>22, <1>23, <1>24 DEF Next, Exit, User

-----------------------------------------------------------------------------
(* The theorems *)

\* The frame starts in its innermost scope with nothing to clean up.
LEMMA ExitInit == Init => ShapeInv /\ CauseInv /\ BudgetInv /\ SettleInv /\ AskedInv
  <1> SUFFICES ASSUME Init PROVE ShapeInv /\ CauseInv /\ BudgetInv /\ SettleInv /\ AskedInv
    OBVIOUS
  <1>1. /\ at = "body" /\ level = 1 /\ out = Outcome("none", NoContext) /\ x = NoExit
        /\ alt = [out |-> Outcome("none", NoContext), then |-> "done"]
        /\ guard = NoContext /\ term = NoContext /\ taskCancel = NoContext
        /\ requested = FALSE /\ now = 0 /\ mode \in Modes
        /\ home \in [Child -> 1..Depth] /\ life = [c \in Child |-> "running"]
        /\ asked = [c \in Child |-> NoContext] /\ released = {}
    BY DEF Init
  <1>2. /\ NoContext \in Sound /\ NoContext \in Contexts /\ ~Present(NoContext)
        /\ NoExit \in ExitStates /\ NoExit.ctx = NoContext
    BY NoContextFacts DEF NoExit, ExitStates, Results, Sound
  <1>3. /\ Outcome("none", NoContext) \in Outcomes
        /\ Outcome("none", NoContext).kind = "none"
        /\ Outcome("none", NoContext).cleanup = NoContext
    BY <1>2, OutcomeFacts
  <1>4. ShapeInv
    <2>1. home \in [Child -> 0..Depth]
      BY <1>1, ScopeAssumption
    <2>2. now \in 0..MaxTime /\ level \in 1..Depth
      BY <1>1, ScopeAssumption
    <2>a. at \in Labels /\ released \subseteq Child /\ requested \in BOOLEAN
      BY <1>1, Zenon DEF Labels
    <2>3. /\ alt \in [out : Outcomes, then : {"done", "leave"}]
          /\ life \in [Child -> {"running", "terminal", "retired"}]
          /\ asked \in [Child -> Contexts]
      BY <1>1, <1>2, <1>3
    <2>4. TypeOK
      BY <1>1, <1>2, <1>3, <2>1, <2>2, <2>a, <2>3 DEF TypeOK
    <2> QED
      BY <1>1, <1>2, <1>3, <2>4 DEF ShapeInv, SoundContexts
  <1>5. CauseInv
    BY <1>1, <1>2, <1>3 DEF CauseInv, Discards
  <1>6. BudgetInv
    BY <1>1, <1>2 DEF BudgetInv, Exiting, Discards
  <1>7. SettleInv
    BY <1>1 DEF SettleInv, Exiting
  <1>8. AskedInv
    BY <1>1, <1>2, ScopeAssumption DEF AskedInv, TornDown
  <1> QED
    BY <1>4, <1>5, <1>6, <1>7, <1>8

\* The inductive invariants hold in every reachable state.
LEMMA ExitInvariance == Spec => [](ShapeInv /\ CauseInv /\ BudgetInv /\ SettleInv /\ AskedInv)
  <1> DEFINE All == ShapeInv /\ CauseInv /\ BudgetInv /\ SettleInv /\ AskedInv
  <1>1. Init => All
    BY ExitInit
  <1>2. All /\ [Next]_vars => All'
    BY ShapeStep, CauseStep, BudgetStep, SettleStep, AskedStep
  <1> QED
    BY <1>1, <1>2, PTL DEF Spec

\* TypeOK of ScopeExit: contexts, outcomes and exit states stay records of
\* their kinds, deadlines within the clock (cancellation.rs, exit.rs).
THEOREM ScopeTypes == Spec => []TypeOK
  <1>1. ShapeInv => TypeOK
    BY DEF ShapeInv
  <1> QED
    BY <1>1, ExitInvariance, PTL

\* Neither a finally block nor a failed cleanup overwrites the first cause of
\* a termination (arbitrate, finish_finally), however deep the scopes nest.
THEOREM CauseSafety == Spec => CauseKept
  <1>1. ShapeInv /\ CauseInv /\ [Next]_vars =>
          [out.kind = "term" =>
             out'.kind = "term" /\ out'.cleanup.why = out.cleanup.why]_vars
    BY CauseStep DEF FirstCause
  <1> QED
    BY <1>1, ExitInvariance, PTL DEF Spec, CauseKept

\* A frame nobody cancelled and whose handler has time left is never marked
\* cancelled by the exits of its own scopes (install_cleanup_error).
THEOREM NormalParentSafety == Spec => []NormalParentNotCancelled
  <1>1. ShapeInv /\ CauseInv => NormalParentNotCancelled
    BY ShapeFacts, ScopeAssumption DEF CauseInv, NormalParentNotCancelled
  <1> QED
    BY <1>1, ExitInvariance, PTL

\* A scope returns its outcome only over tasks that have ended, and retired
\* where witnesses are kept (drop_handles, poll_retirement).
THEOREM SettledSafety == Spec => []SuccessMeansSettled
  <1>1. ShapeInv /\ SettleInv => SuccessMeansSettled
    BY DEF ShapeInv, SettleInv, SuccessMeansSettled
  <1> QED
    BY <1>1, ExitInvariance, PTL

\* No scope, finally block or discard renews the deadline of an outcome that
\* unwinds (remember_context, scope_cleanup_context).
THEOREM BudgetSafety == Spec => BudgetShared
  <1>1. ShapeInv /\ ShapeInv' /\ CauseInv /\ BudgetInv /\ [Next]_vars =>
          [ /\ Unwinding(out) /\ Unwinding(out')
            /\ Present(term) = Present(term')
            /\ out'.kind = "term" => out.kind = "term"
            => DueBy' <= DueBy ]_vars
    BY BudgetStep DEF Tightens
  <1> QED
    BY <1>1, ExitInvariance, PTL DEF Spec, BudgetShared

\* No task outlives its owner unasked (teardown, DiscardState,
\* cancel_visible_children in prepare_finally).
THEOREM OwnedSafety == Spec => []OwnedTasksAsked
  <1>1. ShapeInv /\ CauseInv /\ AskedInv => OwnedTasksAsked
    <2> SUFFICES ASSUME ShapeInv, AskedInv, NEW c \in Child
                 PROVE
      /\ \/ home[c] \in 1..Depth /\ (home[c] < level \/ (home[c] = level /\ at = "end"))
         \/ home[c] = 0 /\ at \in {"leave", "end"} /\ out.kind # "return"
         => c \in released /\ (life[c] = "running" => Present(asked[c]))
      /\ at = "finally" /\ Present(guard) /\ mode.opaque = {} /\ home[c] > level
         => (life[c] = "running" => Present(asked[c]))
      BY DEF OwnedTasksAsked
    <2>1. level \in 1..Depth /\ home[c] \in 0..Depth
      BY DEF ShapeInv, TypeOK
    <2>2. home[c] \in 1..Depth /\ home[c] < level => home[c] \in 1..(level - 1)
      BY <2>1, ScopeAssumption
    <2> QED
      BY <2>2 DEF AskedInv, LetGo, TornDown
  <1> QED
    BY <1>1, ExitInvariance, PTL

=============================================================================
