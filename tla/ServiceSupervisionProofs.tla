---------------------- MODULE ServiceSupervisionProofs ----------------------
(***************************************************************************)
(* Safety of ServiceSupervision for every policy.  The argument follows    *)
(* the instance: nothing of it is left when the coordinator holds none     *)
(* (NoOverlap is inductive as it stands), and what record_exit reported    *)
(* about it stays true until the next launch.  The restart intensity       *)
(* follows the deque: what it no longer holds has left the window.         *)
(***************************************************************************)
EXTENDS ServiceSupervision, FiniteSetTheorems, SequenceTheorems,
        WellFoundedInduction, TLAPS

Turning == {"control", "observe", "probe", "deadline", "drain"}

\* What the coordinator may have to report about the last instance.
MayBeUnfinished == killed \/ code \notin {"none", "zero"}

\* Strengthening of UnfinishedReported: only a drain deadline or an error
\* terminates the child, and both lead to cleanup at once; an exit observed in
\* a turn is final, so what was recorded before the cleanup stays true.
ReportInv ==
    /\ NoOverlap /\ after \in Continuations
    /\ at \in {"top", "launch", "decide", "backoff"} /\ MayBeUnfinished
         => unfinished_work_possible
    /\ at \in Turning => ~killed
    /\ at = "drain" => after \in {"stop", "failure"}
    /\ at = "cleanup" /\ after = "exit" =>
         /\ launcher = "exited" /\ ~killed
         /\ code \notin {"none", "zero"} => unfinished_work_possible

\* Before the first launch there is nothing to report.
LEMMA ReportInit == Init => ReportInv
  BY DEF Init, ReportInv, NoOverlap, MayBeUnfinished, Turning, Continuations

\* The strengthened invariant survives every step of the coordinator, of the
\* child and of the environment.
LEMMA ReportStep == ReportInv /\ [Next]_vars => ReportInv'
  <1> SUFFICES ASSUME ReportInv, [Next]_vars PROVE ReportInv'
    OBVIOUS
  <1> USE DEF ReportInv, NoOverlap, MayBeUnfinished, Turning,
              Continuations, statusVars, instanceVars, restartVars, osVars, stopVars
  <1>1. CASE StopIdle
    BY <1>1 DEF StopIdle, End, ServiceStop
  <1>2. CASE NextGeneration
    BY <1>2 DEF NextGeneration
  <1>3. CASE GenerationExhausted
    BY <1>3 DEF GenerationExhausted, End
  <1>4. CASE Launch
    BY <1>4 DEF Launch
  <1>5. CASE GrantRestart
    BY <1>5 DEF GrantRestart
  <1>6. CASE RefuseRestart
    BY <1>6 DEF RefuseRestart, End
  <1>7. CASE BackoffOver
    BY <1>7 DEF BackoffOver, AfterBackoff
  <1>8. CASE StopInstance
    BY <1>8 DEF StopInstance, BeginDrain
  <1>9. CASE ControlTurn
    BY <1>9 DEF ControlTurn
  <1>10. CASE ObserveExit
    BY <1>10 DEF ObserveExit, Unfinished
  <1>11. CASE ObserveRunning
    BY <1>11 DEF ObserveRunning
  <1>12. CASE NoHealth
    BY <1>12 DEF NoHealth
  <1>13. ASSUME NEW live \in BOOLEAN, NEW ready \in BOOLEAN, Health(live, ready)
         PROVE  ReportInv'
    BY <1>13 DEF Health, BeginDrain
  <1>14. CASE StartupTimedOut
    BY <1>14 DEF StartupTimedOut, BeginDrain
  <1>15. CASE NextTurn
    BY <1>15 DEF NextTurn
  <1>16. CASE DrainControl
    BY <1>16 DEF DrainControl, ServiceStop
  <1>17. CASE DrainExit
    BY <1>17 DEF DrainExit
  <1>18. CASE DrainDeadline
    BY <1>18 DEF DrainDeadline
  <1>19. CASE CleanupConfirmed
    <2>1. PICK oom \in {FALSE, Limited} : Retired(oom)
      BY <1>19 DEF CleanupConfirmed
    <2>2. launcher' = "none" /\ ~members' /\ UNCHANGED <<after, code, killed>>
      BY <1>19, <2>1 DEF CleanupConfirmed, Retired, GroupRetired
    <2>3. at' \in {"ended", "decide"} /\ (after = "error" => at' = "ended")
      BY <1>19 DEF CleanupConfirmed, End
    <2>4. CASE after \in {"stop", "failure"}
      <3>1. unfinished_work_possible' = (oom \/ Unfinished(killed, last_reason))
        BY <2>1, <2>4 DEF Retired
      <3>2. QED
        BY <2>2, <2>3, <3>1 DEF Unfinished
    <2>5. CASE after = "exit"
      <3>1. unfinished_work_possible' = (oom \/ unfinished_work_possible)
        BY <2>1, <2>5 DEF Retired
      <3>2. MayBeUnfinished => unfinished_work_possible
        BY <1>19, <2>5 DEF CleanupConfirmed
      <3>3. QED
        BY <2>2, <2>3, <3>1, <3>2
    <2>6. CASE after = "error"
      BY <2>2, <2>3, <2>6
    <2>7. QED
      BY <2>4, <2>5, <2>6
  <1>20. CASE FailIdle
    BY <1>20 DEF FailIdle, End
  <1>21. CASE LaunchFails
    BY <1>21 DEF LaunchFails
  <1>22. CASE LaunchUnconfirmed
    BY <1>22 DEF LaunchUnconfirmed, End
  <1>23. CASE FailInstance
    BY <1>23 DEF FailInstance
  <1>24. CASE CleanupUnconfirmed
    BY <1>24 DEF CleanupUnconfirmed, End
  <1>25. CASE MetricsFail
    BY <1>25 DEF MetricsFail, Retired, End
  <1>26. CASE ChildExits
    BY <1>26 DEF ChildExits
  <1>27. CASE GroupDies
    BY <1>27 DEF GroupDies
  <1>28. CASE Signal
    BY <1>28 DEF Signal
  <1>29. CASE PostStop
    BY <1>29 DEF PostStop
  <1>30. CASE Tick
    BY <1>30 DEF Tick
  <1>31. CASE UNCHANGED vars
    BY <1>31 DEF vars
  <1>32. QED
    BY <1>1, <1>2, <1>3, <1>4, <1>5, <1>6, <1>7, <1>8, <1>9, <1>10, <1>11,
       <1>12, <1>13, <1>14, <1>15, <1>16, <1>17, <1>18, <1>19, <1>20, <1>21,
       <1>22, <1>23, <1>24, <1>25, <1>26, <1>27, <1>28, <1>29, <1>30, <1>31
    DEF Next, Coordinator, Failure, Environment

\* The strengthened invariant holds in every reachable state.
LEMMA ReportInvariance == Spec => []ReportInv
  BY ReportInit, ReportStep, PTL DEF Spec

\* Replacement is exclusive under every policy: while the coordinator of
\* run_service_command holds no instance, no process of an earlier one is left.
THEOREM ReplacementExclusive == Spec => []NoOverlap
  <1>1. ReportInv => NoOverlap
    BY DEF ReportInv
  <1>2. QED
    BY <1>1, ReportInvariance, PTL

\* Under every policy, record_exit's verdict on an instance that was killed or
\* failed is still "unfinished work possible" when its replacement is decided.
THEOREM UnfinishedSafety == Spec => []UnfinishedReported
  <1>1. ReportInv => UnfinishedReported
    BY DEF ReportInv, UnfinishedReported, MayBeUnfinished
  <1>2. QED
    BY <1>1, ReportInvariance, PTL

-----------------------------------------------------------------------------
(* Restart intensity *)

\* Where a probe may still be counted.
Counting == {"launch", "control", "observe", "probe", "deadline"}

\* Strengthening of TypeOK: a round that reaches the threshold leaves the loop,
\* and the count starts over before the next launch.
PolicyInv == TypeOK /\ (at \in Counting => failures < FailureThreshold)

\* The deque is what is left of all replacements after popping d of them from
\* the front, every one of which has left the window.
DequeHolds(d) ==
    /\ d \in Nat
    /\ Len(replaced) = d + Len(restart_times)
    /\ \A i \in 1..Len(restart_times) : restart_times[i] = replaced[d + i]
    /\ \A i \in 1..d : replaced[i] = RestartWindow

\* Strengthening of IntensityBounded: what the deque no longer holds is no
\* longer in the window, so its length bounds the replacements in the window.
IntensityInv ==
    /\ PolicyInv
    /\ Len(restart_times) <= RestartLimit
    /\ \E d \in Nat : DequeHolds(d)

\* The policy's numbers, one by one.
LEMMA PolicyFacts ==
    /\ FailureThreshold \in Nat /\ FailureThreshold > 0
    /\ RestartLimit \in Nat /\ RestartLimit > 0
    /\ RestartWindow \in Nat /\ RestartWindow > 0
    /\ BaseBackoff \in Nat /\ BaseBackoff > 0
    /\ MaxBackoff \in Nat /\ BaseBackoff <= MaxBackoff
    /\ StartupTimeout \in Nat /\ DrainTimeout \in Nat /\ MaxGeneration \in Nat
    /\ Limited \in BOOLEAN
  BY PolicyAssumption

\* A function on the positions of a sequence is a sequence of the same length.
LEMMA SameLength ==
    ASSUME NEW S, NEW s \in Seq(S), NEW t \in [1..Len(s) -> S]
    PROVE  t \in Seq(S) /\ Len(t) = Len(s) /\ Len(s) \in Nat /\ DOMAIN s = 1..Len(s)
  OBVIOUS

\* Dropping e elements from the front of a sequence leaves a suffix.
LEMMA SuffixFacts ==
    ASSUME NEW S, NEW s \in Seq(S), NEW e \in 0..Len(s)
    PROVE  /\ SubSeq(s, e + 1, Len(s)) \in Seq(S)
           /\ Len(SubSeq(s, e + 1, Len(s))) = Len(s) - e
           /\ \A i \in 1..(Len(s) - e) : SubSeq(s, e + 1, Len(s))[i] = s[e + i]
  <1>1. /\ Len(s) \in Nat /\ e \in Nat /\ e + 1 \in Int /\ Len(s) \in Int
        /\ \A i \in (e + 1)..Len(s) : s[i] \in S
    OBVIOUS
  <1>2. /\ SubSeq(s, e + 1, Len(s)) \in Seq(S)
        /\ Len(SubSeq(s, e + 1, Len(s))) = IF e + 1 <= Len(s) THEN Len(s) - (e + 1) + 1 ELSE 0
        /\ \A i \in 1..(Len(s) - (e + 1) + 1) :
              SubSeq(s, e + 1, Len(s))[i] = s[(e + 1) + i - 1]
    BY <1>1, SubSeqProperties
  <1>3. \A i \in Int : (e + 1) + i - 1 = e + i
    BY <1>1
  <1>4. Len(s) - (e + 1) + 1 = Len(s) - e
    BY <1>1
  <1>5. Len(SubSeq(s, e + 1, Len(s))) = Len(s) - e
    <2>1. CASE e + 1 <= Len(s)
      BY <1>2, <1>4, <2>1
    <2>2. CASE ~(e + 1 <= Len(s))
      <3>1. e = Len(s) /\ Len(s) - e = 0
        BY <1>1, <2>2
      <3>2. QED
        BY <1>2, <2>2, <3>1
    <2>3. QED
      BY <2>1, <2>2
  <1>6. \A i \in 1..(Len(s) - e) : SubSeq(s, e + 1, Len(s))[i] = s[e + i]
    BY <1>2, <1>3, <1>4
  <1>7. QED
    BY <1>2, <1>5, <1>6

\* The pop_front loop stops, and it pops only what has left the window.
LEMMA ExpiredStops ==
    ASSUME restart_times \in Seq(0..RestartWindow)
    PROVE  /\ Expired \in 0..Len(restart_times)
           /\ \A i \in 1..Expired : restart_times[i] = RestartWindow
  <1> DEFINE k == Len(restart_times)
             Ages == 0..RestartWindow
             Stops == {n \in 0..k : n < k => restart_times[n + 1] < RestartWindow}
  <1>1. k \in Nat /\ Stops \subseteq Nat /\ k \in Stops
    OBVIOUS
  <1>2. Expired = Min(Stops)
    BY DEF Expired
  <1>3. \A n \in Stops : n \in 0..k
    OBVIOUS
  <1>4. ASSUME NEW n \in 0..k, n \notin Stops
        PROVE  n < k /\ ~(restart_times[n + 1] < RestartWindow)
    BY <1>4
  <1>5. \A i \in 1..k : restart_times[i] \in Ages
    <2> HIDE DEF Ages
    <2> QED
      BY ElementOfSeq DEF Ages
  <1> HIDE DEF k, Stops
  <1>6. PICK n \in Stops : \A m \in Stops : ~(<<m, n>> \in OpToRel(<, Nat))
    <2>1. Stops # {}
      BY <1>1
    <2>2. QED
      BY <1>1, <2>1, NatLessThanWellFounded, WFMin, Zenon
  <1>7. \A m \in Stops : ~(m < n)
    BY <1>1, <1>6 DEF OpToRel
  <1>8. \A m \in Stops : n <= m
    BY <1>1, <1>7
  <1>9. Expired \in Stops /\ \A m \in Stops : Expired <= m
    BY <1>2, <1>8 DEF Min
  <1>10. ASSUME NEW i \in 1..Expired PROVE restart_times[i] = RestartWindow
    <2>1. Expired \in 0..k
      BY <1>3, <1>9
    <2>2. i - 1 \in 0..k /\ i \in 1..k /\ (i - 1) + 1 = i /\ i - 1 < Expired
      BY <1>1, <2>1
    <2>3. i - 1 \notin Stops
      BY <1>1, <1>9, <2>2
    <2>4. ~(restart_times[(i - 1) + 1] < RestartWindow)
      BY <1>4, <2>2, <2>3
    <2>5. restart_times[i] \in 0..RestartWindow
      BY <1>5, <2>2
    <2>6. QED
      BY <2>2, <2>4, <2>5, PolicyFacts
  <1>11. QED
    BY <1>3, <1>9, <1>10 DEF k

\* What the pop_front loop leaves is a suffix of the deque.
LEMMA PrunedSuffix ==
    ASSUME restart_times \in Seq(0..RestartWindow)
    PROVE  /\ Pruned \in Seq(0..RestartWindow)
           /\ Len(Pruned) = Len(restart_times) - Expired
           /\ \A i \in 1..(Len(restart_times) - Expired) :
                 Pruned[i] = restart_times[Expired + i]
  <1>1. Expired \in 0..Len(restart_times)
    BY ExpiredStops
  <1>2. QED
    BY <1>1, SuffixFacts DEF Pruned

\* Passing time keeps an age within its bounds, and what left the window stays out.
LEMMA OlderAge ==
    ASSUME NEW age \in 0..RestartWindow
    PROVE  Older(age) \in 0..RestartWindow /\ (age = RestartWindow => Older(age) = age)
  BY PolicyFacts DEF Older, NotReady

\* Aging every replacement of a sequence keeps its length.
LEMMA AgedSeq ==
    ASSUME NEW s \in Seq(0..RestartWindow)
    PROVE  LET t == [i \in DOMAIN s |-> Older(s[i])]
           IN  /\ t \in Seq(0..RestartWindow) /\ Len(t) = Len(s)
               /\ \A i \in 1..Len(s) : t[i] = Older(s[i])
  <1> DEFINE Ages == 0..RestartWindow
             t == [i \in DOMAIN s |-> Older(s[i])]
  <1>1. \A age \in Ages : Older(age) \in Ages
    BY OlderAge
  <1>2. s \in Seq(Ages)
    OBVIOUS
  <1> HIDE DEF Ages
  <1>3. DOMAIN s = 1..Len(s) /\ \A i \in 1..Len(s) : s[i] \in Ages
    BY <1>2
  <1>4. t \in [1..Len(s) -> Ages] /\ \A i \in 1..Len(s) : t[i] = Older(s[i])
    BY <1>1, <1>3
  <1> HIDE DEF t
  <1>5. t \in Seq(Ages) /\ Len(t) = Len(s)
    BY <1>2, <1>4, SameLength
  <1>6. QED
    BY <1>4, <1>5 DEF Ages, t

\* Before the first launch no replacement was granted.
LEMMA IntensityInit == Init => IntensityInv
  <1> SUFFICES ASSUME Init PROVE IntensityInv
    OBVIOUS
  <1>1. PolicyInv
    <2>1. backoff \in 1..MaxBackoff /\ failures \in 0..FailureThreshold
          /\ generation \in 0..MaxGeneration /\ failures < FailureThreshold /\ timer \in Nat
      BY PolicyFacts DEF Init
    <2>2. restart_times \in Seq(0..RestartWindow) /\ replaced \in Seq(0..RestartWindow)
      BY DEF Init
    <2>3. /\ at \in Places /\ after \in Continuations /\ phase \in Phases
          /\ last_reason \in LastReasons /\ code \in Codes \cup {"none"}
      BY DEF Init, Places, Continuations, Phases, LastReasons
    <2>4. QED
      BY <2>1, <2>2, <2>3 DEF Init, PolicyInv, TypeOK
  <1>2. DequeHolds(0) /\ Len(restart_times) <= RestartLimit
    BY PolicyFacts DEF Init, DequeHolds
  <1>3. QED
    BY <1>1, <1>2 DEF IntensityInv

\* What Retired records about the instance is of its kind.
LEMMA RetiredTypes ==
    ASSUME TypeOK, NEW oom \in {FALSE, Limited}, Retired(oom)
    PROVE  /\ launcher' = "none" /\ last_reason' \in LastReasons
           /\ unfinished_work_possible' \in BOOLEAN
  <1>1. RecordedReason(killed, last_reason) \in LastReasons
    BY DEF RecordedReason, TypeOK, LastReasons
  <1>2. Unfinished(killed, last_reason) \in BOOLEAN
    BY DEF Unfinished
  <1>3. launcher' = "none" /\ last_reason' \in LastReasons
    BY <1>1 DEF Retired, TypeOK, LastReasons
  <1>4. unfinished_work_possible' \in BOOLEAN
    BY <1>2, PolicyFacts DEF Retired, TypeOK
  <1>5. QED
    BY <1>3, <1>4

\* No step leaves the types, passes the failure threshold, or the largest backoff.
LEMMA PolicyStep == PolicyInv /\ [Next]_vars => PolicyInv'
  <1> SUFFICES ASSUME PolicyInv, [Next]_vars PROVE PolicyInv'
    OBVIOUS
  <1> USE PolicyFacts
      DEF PolicyInv, TypeOK, Places, Continuations, Phases, LastReasons, ExitReasons,
          FailureReasons, Codes, Counting, statusVars, instanceVars, restartVars,
          osVars, stopVars, NotReady
  <1>1. CASE StopIdle
    BY <1>1 DEF StopIdle, End, ServiceStop
  <1>2. CASE NextGeneration
    BY <1>2 DEF NextGeneration
  <1>3. CASE GenerationExhausted
    BY <1>3 DEF GenerationExhausted, End
  <1>4. CASE Launch
    <2>1. ready_since' \in {NotReady} \cup 0..RestartWindow /\ timer' \in Nat
      BY <1>4 DEF Launch
    <2>2. code' \in Codes \cup {"none"} /\ at' \in Places
      BY <1>4 DEF Launch
    <2> HIDE DEF LastReasons, Codes, Phases, Continuations, NotReady
    <2>3. QED
      BY <1>4, <2>1, <2>2 DEF Launch
  <1>5. CASE GrantRestart
    <2>1. Append(Pruned, 0) \in Seq(0..RestartWindow) /\ Append(replaced, 0) \in Seq(0..RestartWindow)
      BY PrunedSuffix, AppendProperties
    <2>2. QED
      BY <1>5, <2>1 DEF GrantRestart
  <1>6. CASE RefuseRestart
    BY <1>6 DEF RefuseRestart, End
  <1>7. CASE BackoffOver
    <2>1. Doubled \in 1..MaxBackoff
      BY DEF Doubled
    <2>2. QED
      BY <1>7, <2>1 DEF BackoffOver, AfterBackoff
  <1>8. CASE StopInstance
    BY <1>8 DEF StopInstance, BeginDrain, ServiceStop
  <1>9. CASE ControlTurn
    BY <1>9 DEF ControlTurn
  <1>10. CASE ObserveExit
    <2>1. RecordedReason(FALSE, ExitReason) \in LastReasons
      BY DEF RecordedReason, ExitReason
    <2>2. Unfinished(FALSE, ExitReason) \in BOOLEAN
      BY DEF Unfinished
    <2> HIDE DEF LastReasons, Codes, Phases, NotReady
    <2>3. QED
      BY <1>10, <2>1, <2>2, ZenonT(30) DEF ObserveExit
  <1>11. CASE ObserveRunning
    BY <1>11 DEF ObserveRunning
  <1>12. CASE NoHealth
    BY <1>12 DEF NoHealth
  <1>13. ASSUME NEW live \in BOOLEAN, NEW ready \in BOOLEAN, Health(live, ready)
         PROVE  PolicyInv'
    <2>1. CASE live
      BY <1>13, <2>1 DEF Health, BeginDrain
    <2>2. CASE ~live
      BY <1>13, <2>2 DEF Health, BeginDrain
    <2>3. QED
      BY <2>1, <2>2
  <1>14. CASE StartupTimedOut
    BY <1>14 DEF StartupTimedOut, BeginDrain
  <1>15. CASE NextTurn
    BY <1>15 DEF NextTurn
  <1>16. CASE DrainControl
    BY <1>16 DEF DrainControl, ServiceStop
  <1>17. CASE DrainExit
    BY <1>17 DEF DrainExit
  <1>18. CASE DrainDeadline
    BY <1>18 DEF DrainDeadline
  <1>19. CASE CleanupConfirmed
    <2>1. PICK oom \in {FALSE, Limited} : Retired(oom)
      BY <1>19 DEF CleanupConfirmed
    <2>2. /\ launcher' = "none" /\ last_reason' \in LastReasons
          /\ unfinished_work_possible' \in BOOLEAN
      BY <2>1, RetiredTypes
    <2>3. at' \in {"ended", "decide"} /\ result' \in {"none", "ok", "error", "intensity"}
      BY <1>19 DEF CleanupConfirmed, End
    <2>4. backoff' \in 1..MaxBackoff /\ phase' \in Phases
      BY <1>19 DEF CleanupConfirmed
    <2>5. QED
      BY <1>19, <2>2, <2>3, <2>4, SMTT(30) DEF CleanupConfirmed
  <1>20. CASE FailIdle
    BY <1>20 DEF FailIdle, End
  <1>21. CASE LaunchFails
    BY <1>21 DEF LaunchFails
  <1>22. CASE LaunchUnconfirmed
    BY <1>22 DEF LaunchUnconfirmed, End
  <1>23. CASE FailInstance
    BY <1>23 DEF FailInstance
  <1>24. CASE CleanupUnconfirmed
    BY <1>24 DEF CleanupUnconfirmed, End
  <1>25. CASE MetricsFail
    <2>1. /\ launcher' = "none" /\ last_reason' \in LastReasons
          /\ unfinished_work_possible' \in BOOLEAN
      BY <1>25, RetiredTypes DEF MetricsFail
    <2>2. QED
      BY <1>25, <2>1 DEF MetricsFail, End
  <1>26. CASE ChildExits
    BY <1>26 DEF ChildExits
  <1>27. CASE GroupDies
    <2>1. code' \in Codes \cup {"none"} /\ launcher' = "exited" /\ members' = FALSE
      BY <1>27 DEF GroupDies
    <2> HIDE DEF LastReasons, Codes, Phases, Continuations, NotReady
    <2>2. QED
      BY <1>27, <2>1 DEF GroupDies
  <1>28. CASE Signal
    BY <1>28 DEF Signal
  <1>29. CASE PostStop
    BY <1>29 DEF PostStop
  <1>30. CASE Tick
    <2>1. timer' \in Nat /\ ready_since' \in {NotReady} \cup 0..RestartWindow
      BY <1>30 DEF Tick, Older, NotReady
    <2>2. restart_times' \in Seq(0..RestartWindow)
      BY <1>30, AgedSeq DEF Tick
    <2>3. replaced' \in Seq(0..RestartWindow)
      BY <1>30, AgedSeq DEF Tick
    <2>4. QED
      BY <1>30, <2>1, <2>2, <2>3 DEF Tick
  <1>31. CASE UNCHANGED vars
    BY <1>31 DEF vars
  <1>32. QED
    BY <1>1, <1>2, <1>3, <1>4, <1>5, <1>6, <1>7, <1>8, <1>9, <1>10, <1>11,
       <1>12, <1>13, <1>14, <1>15, <1>16, <1>17, <1>18, <1>19, <1>20, <1>21, <1>22,
       <1>23, <1>24, <1>25, <1>26, <1>27, <1>28, <1>29, <1>30, <1>31
    DEF Next, Coordinator, Failure, Environment

\* Only a granted replacement and the passing of time touch the deque.
LEMMA DequeFrame ==
    ASSUME [Next]_vars, ~GrantRestart, ~Tick
    PROVE  UNCHANGED <<restart_times, replaced>>
  <1> USE DEF restartVars
  <1>1. CASE StopIdle
    BY <1>1 DEF StopIdle
  <1>2. CASE NextGeneration
    BY <1>2 DEF NextGeneration
  <1>3. CASE GenerationExhausted
    BY <1>3 DEF GenerationExhausted
  <1>4. CASE Launch
    BY <1>4 DEF Launch
  <1>5. CASE RefuseRestart
    BY <1>5 DEF RefuseRestart
  <1>6. CASE BackoffOver
    BY <1>6 DEF BackoffOver
  <1>7. CASE StopInstance
    BY <1>7 DEF StopInstance
  <1>8. CASE ControlTurn
    BY <1>8 DEF ControlTurn
  <1>9. CASE ObserveExit
    BY <1>9 DEF ObserveExit
  <1>10. CASE ObserveRunning
    BY <1>10 DEF ObserveRunning
  <1>11. CASE NoHealth
    BY <1>11 DEF NoHealth
  <1>12. ASSUME NEW live \in BOOLEAN, NEW ready \in BOOLEAN, Health(live, ready)
         PROVE  UNCHANGED <<restart_times, replaced>>
    BY <1>12 DEF Health
  <1>13. CASE StartupTimedOut
    BY <1>13 DEF StartupTimedOut
  <1>14. CASE NextTurn
    BY <1>14 DEF NextTurn
  <1>15. CASE DrainControl
    BY <1>15 DEF DrainControl
  <1>16. CASE DrainExit
    BY <1>16 DEF DrainExit
  <1>17. CASE DrainDeadline
    BY <1>17 DEF DrainDeadline
  <1>18. CASE CleanupConfirmed
    BY <1>18 DEF CleanupConfirmed
  <1>19. CASE FailIdle
    BY <1>19 DEF FailIdle
  <1>20. CASE LaunchFails
    BY <1>20 DEF LaunchFails
  <1>21. CASE LaunchUnconfirmed
    BY <1>21 DEF LaunchUnconfirmed
  <1>22. CASE FailInstance
    BY <1>22 DEF FailInstance
  <1>23. CASE CleanupUnconfirmed
    BY <1>23 DEF CleanupUnconfirmed
  <1>24. CASE MetricsFail
    BY <1>24 DEF MetricsFail
  <1>25. CASE ChildExits
    BY <1>25 DEF ChildExits
  <1>26. CASE GroupDies
    BY <1>26 DEF GroupDies
  <1>27. CASE Signal
    BY <1>27 DEF Signal
  <1>28. CASE PostStop
    BY <1>28 DEF PostStop
  <1>29. CASE UNCHANGED vars
    BY <1>29 DEF vars
  <1>30. QED
    BY <1>1, <1>2, <1>3, <1>4, <1>5, <1>6, <1>7, <1>8, <1>9, <1>10, <1>11,
       <1>12, <1>13, <1>14, <1>15, <1>16, <1>17, <1>18, <1>19, <1>20, <1>21, <1>22,
       <1>23, <1>24, <1>25, <1>26, <1>27, <1>28, <1>29
    DEF Next, Coordinator, Failure, Environment

\* A granted replacement joins the deque and the history together, and only
\* when the pruned deque has room.
LEMMA GrantDeque ==
    ASSUME IntensityInv, GrantRestart
    PROVE  Len(restart_times') <= RestartLimit /\ (\E d \in Nat : DequeHolds(d))'
  <1>1. PICK d \in Nat : DequeHolds(d)
    BY DEF IntensityInv
  <1>2. restart_times \in Seq(0..RestartWindow) /\ replaced \in Seq(0..RestartWindow)
    BY DEF IntensityInv, PolicyInv, TypeOK
  <1>3. PICK e \in Nat, k \in Nat : e = Expired /\ k = Len(restart_times) /\ e <= k
    BY <1>2, ExpiredStops
  <1>4. /\ Pruned \in Seq(0..RestartWindow) /\ Len(Pruned) = k - e
        /\ \A i \in 1..(k - e) : Pruned[i] = restart_times[e + i]
        /\ \A i \in 1..e : restart_times[i] = RestartWindow
    BY <1>2, <1>3, PrunedSuffix, ExpiredStops
  <1>5. /\ restart_times' = Append(Pruned, 0) /\ replaced' = Append(replaced, 0)
        /\ k - e < RestartLimit
    BY <1>3, <1>4, PolicyFacts DEF GrantRestart, IntensityExceeded
  <1>6. /\ Len(replaced) = d + k
        /\ \A i \in 1..k : restart_times[i] = replaced[d + i]
        /\ \A i \in 1..d : replaced[i] = RestartWindow
    BY <1>1, <1>3 DEF DequeHolds
  <1>7. 0 \in 0..RestartWindow
    BY PolicyFacts
  <1>8. /\ Len(restart_times') = (k - e) + 1 /\ restart_times'[(k - e) + 1] = 0
        /\ \A i \in 1..(k - e) : restart_times'[i] = Pruned[i]
    BY <1>4, <1>5, <1>7, AppendProperties
  <1>9. /\ Len(replaced') = (d + k) + 1 /\ replaced'[(d + k) + 1] = 0
        /\ \A i \in 1..(d + k) : replaced'[i] = replaced[i]
    BY <1>2, <1>5, <1>6, <1>7, AppendProperties
  <1>10. ASSUME NEW i \in 1..((k - e) + 1)
         PROVE  restart_times'[i] = replaced'[(d + e) + i]
    <2>1. CASE i = (k - e) + 1
      <3>1. (d + e) + i = (d + k) + 1
        BY <1>3, <2>1
      <3>2. QED
        BY <1>8, <1>9, <2>1, <3>1
    <2>2. CASE i \in 1..(k - e)
      <3>1. restart_times'[i] = restart_times[e + i] /\ e + i \in 1..k
        BY <1>3, <1>4, <1>8, <2>2
      <3>2. restart_times[e + i] = replaced[d + (e + i)]
        BY <1>6, <3>1
      <3>3. d + (e + i) = (d + e) + i /\ (d + e) + i \in 1..(d + k)
        BY <1>3, <3>1
      <3>4. QED
        BY <1>9, <3>1, <3>2, <3>3
    <2>3. QED
      BY <1>3, <2>1, <2>2
  <1>11. ASSUME NEW i \in 1..(d + e) PROVE replaced'[i] = RestartWindow
    <2>1. replaced'[i] = replaced[i]
      BY <1>3, <1>9
    <2>2. CASE i \in 1..d
      BY <1>6, <2>1, <2>2
    <2>3. CASE i > d
      <3>1. i - d \in 1..e /\ i - d \in 1..k /\ d + (i - d) = i
        BY <1>3, <2>3
      <3>2. QED
        BY <1>4, <1>6, <2>1, <3>1
    <2>4. QED
      BY <2>2, <2>3
  <1>12. d + e \in Nat /\ (d + k) + 1 = (d + e) + ((k - e) + 1)
    BY <1>3
  <1>13. DequeHolds(d + e)'
    BY <1>8, <1>9, <1>10, <1>11, <1>12 DEF DequeHolds
  <1>14. (\E c \in Nat : DequeHolds(c))'
    BY <1>12, <1>13
  <1>15. (k - e) + 1 <= RestartLimit
    BY <1>3, <1>5, PolicyFacts
  <1>16. QED
    BY <1>8, <1>14, <1>15

\* Time ages the deque and the history alike.
LEMMA TickDeque ==
    ASSUME IntensityInv, Tick
    PROVE  Len(restart_times') <= RestartLimit /\ (\E d \in Nat : DequeHolds(d))'
  <1>1. PICK d \in Nat : DequeHolds(d)
    BY DEF IntensityInv
  <1>2. restart_times \in Seq(0..RestartWindow) /\ replaced \in Seq(0..RestartWindow)
    BY DEF IntensityInv, PolicyInv, TypeOK
  <1>3. /\ Len(restart_times') = Len(restart_times) /\ Len(replaced') = Len(replaced)
        /\ \A i \in 1..Len(restart_times) : restart_times'[i] = Older(restart_times[i])
        /\ \A i \in 1..Len(replaced) : replaced'[i] = Older(replaced[i])
    BY <1>2, AgedSeq DEF Tick
  <1>4. /\ Len(replaced) = d + Len(restart_times) /\ Len(restart_times) \in Nat
        /\ \A i \in 1..Len(restart_times) : restart_times[i] = replaced[d + i]
        /\ \A i \in 1..d : replaced[i] = RestartWindow
    BY <1>1, <1>2 DEF DequeHolds
  <1>5. ASSUME NEW i \in 1..Len(restart_times)
        PROVE  restart_times'[i] = replaced'[d + i]
    <2>1. d + i \in 1..Len(replaced)
      BY <1>4
    <2>2. QED
      BY <1>3, <1>4, <2>1
  <1>6. ASSUME NEW i \in 1..d PROVE replaced'[i] = RestartWindow
    <2>1. i \in 1..Len(replaced)
      BY <1>4
    <2>2. RestartWindow \in 0..RestartWindow
      BY PolicyFacts
    <2>3. QED
      BY <1>3, <1>4, <2>1, <2>2, OlderAge
  <1>7. DequeHolds(d)'
    BY <1>3, <1>4, <1>5, <1>6 DEF DequeHolds
  <1>8. QED
    BY <1>3, <1>7 DEF IntensityInv

\* The strengthened intensity bound survives every step.
LEMMA IntensityStep == IntensityInv /\ [Next]_vars => IntensityInv'
  <1> SUFFICES ASSUME IntensityInv, [Next]_vars PROVE IntensityInv'
    OBVIOUS
  <1>1. PolicyInv'
    BY PolicyStep DEF IntensityInv
  <1>2. Len(restart_times') <= RestartLimit /\ (\E d \in Nat : DequeHolds(d))'
    <2>1. CASE GrantRestart
      BY <2>1, GrantDeque
    <2>2. CASE Tick
      BY <2>2, TickDeque
    <2>3. CASE ~GrantRestart /\ ~Tick
      <3>1. UNCHANGED <<restart_times, replaced>>
        BY <2>3, DequeFrame
      <3>2. QED
        BY <3>1 DEF IntensityInv, DequeHolds
    <2>4. QED
      BY <2>1, <2>2, <2>3
  <1>3. QED
    BY <1>1, <1>2 DEF IntensityInv

\* The length of the deque bounds the replacements in the window.
LEMMA IntensityImplied == IntensityInv => IntensityBounded
  <1> SUFFICES ASSUME IntensityInv PROVE IntensityBounded
    OBVIOUS
  <1> DEFINE k == Len(restart_times)
             Fresh == {i \in DOMAIN replaced : replaced[i] < RestartWindow}
  <1>1. PICK d \in Nat : DequeHolds(d)
    BY DEF IntensityInv
  <1>2. /\ restart_times \in Seq(0..RestartWindow) /\ replaced \in Seq(0..RestartWindow)
        /\ TypeOK /\ k \in Nat /\ k <= RestartLimit
    BY DEF IntensityInv, PolicyInv, TypeOK
  <1>3. Fresh \subseteq (d + 1)..(d + k)
    BY <1>1, <1>2, PolicyFacts DEF DequeHolds
  <1> HIDE DEF k, Fresh
  <1>4. IsFiniteSet((d + 1)..(d + k)) /\ Cardinality((d + 1)..(d + k)) = k
    <2>1. d + 1 \in Int /\ d + k \in Int
      BY <1>2
    <2>2. IsFiniteSet((d + 1)..(d + k))
          /\ Cardinality((d + 1)..(d + k)) = IF d + 1 > d + k THEN 0 ELSE (d + k) - (d + 1) + 1
      BY <2>1, FS_Interval
    <2>3. QED
      BY <1>2, <2>2
  <1>5. IsFiniteSet(Fresh) /\ Cardinality(Fresh) <= k
    BY <1>3, <1>4, FS_Subset
  <1>6. Cardinality(Fresh) \in Nat
    BY <1>5, FS_CardinalityType
  <1>7. Cardinality(Fresh) <= RestartLimit
    BY <1>2, <1>5, <1>6, PolicyFacts
  <1>8. QED
    BY <1>2, <1>7 DEF IntensityBounded, Fresh

\* Under every policy, no window sees more replacements than restart_limit, the
\* probe failures stay within their threshold and the backoff within its
\* maximum: the pop_front loop of run_service_command forgets nothing too early.
THEOREM IntensitySafety == Spec => []IntensityBounded
  BY IntensityInit, IntensityStep, IntensityImplied, PTL DEF Spec

=============================================================================
