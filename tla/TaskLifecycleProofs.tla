------------------------ MODULE TaskLifecycleProofs ------------------------
(***************************************************************************)
(* Theorems about TaskLifecycle for every number of tasks, every limit and *)
(* every set of faults: types and the frame discipline first; on top of    *)
(* them, the runtime implements TaskContract, a positive witness and a     *)
(* successful shutdown leave nothing behind, and the counters are exact.   *)
(***************************************************************************)
EXTENDS TaskLifecycle, FiniteSetTheorems, TLAPS

-----------------------------------------------------------------------------
(* Type correctness *)

\* The statuses set_status moves between.
Waits == {"Running", "Waiting"}

\* The initial state of with_limits is well typed.
LEMMA TypeInit == Init => TypeOK
<1> SUFFICES ASSUME Init PROVE TypeOK
  OBVIOUS
<1> USE DEF Init
<1>1. /\ comp \in [Tasks -> [Roles -> CompletionLabels]]
      /\ frame \in [Tasks -> SUBSET Holders]
      /\ stats \in [StatNames -> Nat]
  BY DEF CompletionLabels
<1>2. /\ spawn \in [Tasks -> SpawnLabels] /\ body \in [Tasks -> BodyLabels]
      /\ owner \in [Tasks -> OwnerLabels] /\ status \in [Tasks -> Statuses]
      /\ shutdown \in ShutdownLabels
  BY DEF SpawnLabels, BodyLabels, OwnerLabels, Statuses, ShutdownLabels
<1>3. queue \in Seq(Tasks)
  OBVIOUS
<1>4. /\ cleanup_deadline \in [Tasks -> Nat] /\ head \in Tasks \cup {NoTask}
      /\ accounting \in [Tasks -> AccountingStages]
      /\ submission \in [Tasks -> {"Pending", "Accepted", "ProducerRetired"}]
      /\ reason \in [Tasks -> Reasons \cup {"none"}]
  BY DEF AccountingStages
<1>5. /\ result \in [Tasks -> BOOLEAN] /\ admitted \in [Tasks -> BOOLEAN]
      /\ completion_cleanup_done \in [Tasks -> BOOLEAN]
      /\ drain \in [Tasks -> BOOLEAN]
  OBVIOUS
<1>6. /\ producer_count \in Int /\ active_tasks \in Int /\ queued_tasks \in Int
      /\ states \subseteq Tasks /\ waiting_for \in Tasks \cup {NoTask}
      /\ todo \subseteq Tasks
  OBVIOUS
<1>7. observed \in BOOLEAN /\ expired \in BOOLEAN
  OBVIOUS
<1> HIDE DEF Init
<1> QED BY <1>1, <1>2, <1>3, <1>4, <1>5, <1>6, <1>7 DEF TypeOK

\* Moving one completion call to another label keeps comp well typed.
LEMMA GotoType ==
    ASSUME TypeOK, NEW t \in Tasks, NEW r \in Roles, NEW label \in CompletionLabels
    PROVE  Goto(t, r, label) \in [Tasks -> [Roles -> CompletionLabels]]
BY DEF TypeOK, Goto

\* Taking a frame out of one place and putting it in another keeps frame
\* well typed.
LEMMA MoveType ==
    ASSUME TypeOK, NEW t \in Tasks, NEW a \in Holders, NEW b \in Holders
    PROVE  Move(t, a, b) \in [Tasks -> SUBSET Holders]
<1>1. frame[t] \in SUBSET Holders
  BY DEF TypeOK
<1>2. (IF a \in frame[t] THEN (frame[t] \ {a}) \cup {b} ELSE frame[t]) \in SUBSET Holders
  BY <1>1
<1> QED BY <1>2 DEF TypeOK, Move

\* Incrementing counters keeps stats well typed.
LEMMA BumpType ==
    ASSUME TypeOK, NEW names
    PROVE  Bump(names) \in [StatNames -> Nat]
BY DEF TypeOK, Bump

\* request_cancel_with keeps the fields of the task it works on well typed.
LEMMA RequestCancelType ==
    ASSUME TypeOK, NEW t \in Tasks, NEW why \in Reasons, NEW d \in Deadlines,
           RequestCancel(t, why, d)
    PROVE  /\ reason' \in [Tasks -> Reasons \cup {"none"}]
           /\ cleanup_deadline' \in [Tasks -> Nat]
           /\ status' \in [Tasks -> Statuses]
           /\ frame' \in [Tasks -> SUBSET Holders]
           /\ comp' \in [Tasks -> [Roles -> CompletionLabels]]
<1>1. reason' \in [Tasks -> Reasons \cup {"none"}]
  BY DEF TypeOK, RequestCancel, ReasonAfter
<1>2. cleanup_deadline' \in [Tasks -> Nat]
  BY DeadlinesAssumption DEF TypeOK, RequestCancel, Min2
<1>3. status' \in [Tasks -> Statuses]
  BY DEF TypeOK, RequestCancel, Statuses
<1>4. "slot" \in Holders /\ "cancel" \in Holders /\ "cancel" \in Roles
        /\ "destroy" \in CompletionLabels
  BY DEF Holders, Completers, Roles, CompletionLabels
<1>5. frame' \in [Tasks -> SUBSET Holders]
  BY <1>4, MoveType DEF TypeOK, RequestCancel
<1>6. comp' \in [Tasks -> [Roles -> CompletionLabels]]
  BY <1>4, GotoType DEF TypeOK, RequestCancel
<1> QED BY <1>1, <1>2, <1>3, <1>5, <1>6

\* Every step keeps every variable well typed.
LEMMA TypeStep == TypeOK /\ [Next]_vars => TypeOK'
<1> SUFFICES ASSUME TypeOK, [Next]_vars PROVE TypeOK'
  OBVIOUS
<1> USE DeadlinesAssumption DEF TypeOK, countVars, queueVars, outcomeVars,
      ackVars, ownerVars, controlVars, shutdownVars, Statuses, TerminalStatuses,
      Reasons, Completers, Roles, Holders, CompletionLabels, SpawnLabels,
      BodyLabels, OwnerLabels, ShutdownLabels, StatNames, Waits, AccountingStages
<1>1. ASSUME NEW t \in Tasks, BeginSpawn(t) PROVE TypeOK'
  BY <1>1, SMTT(30) DEF BeginSpawn, SpawnStep
<1>2. ASSUME NEW t \in Tasks, DenySpawn(t) PROVE TypeOK'
  BY <1>2 DEF DenySpawn, SpawnStep
<1>3. ASSUME NEW t \in Tasks, CreateTask(t) PROVE TypeOK'
  BY <1>3, SMTT(30) DEF CreateTask, SpawnStep, Bump
<1>4. ASSUME NEW t \in Tasks, RejectClosed(t) PROVE TypeOK'
  BY <1>4, SMTT(30) DEF RejectClosed, SpawnStep, EarlyReject, Bump, Goto
<1>5. ASSUME NEW t \in Tasks, TakeActive(t) PROVE TypeOK'
  BY <1>5, SMTT(30) DEF TakeActive, SpawnStep
<1>6. ASSUME NEW t \in Tasks, RejectAtLimit(t) PROVE TypeOK'
  BY <1>6, SMTT(30) DEF RejectAtLimit, SpawnStep, EarlyReject, Bump, Goto
<1>7. ASSUME NEW t \in Tasks, Register(t) PROVE TypeOK'
  BY <1>7 DEF Register, SpawnStep
<1>8. ASSUME NEW t \in Tasks, RejectClosing(t) PROVE TypeOK'
  BY <1>8, SMTT(30) DEF RejectClosing, SpawnStep, EarlyReject, Rollback, Bump, Goto
<1>9. ASSUME NEW t \in Tasks, Build(t) PROVE TypeOK'
  BY <1>9 DEF Build, SpawnStep
<1>10. ASSUME NEW t \in Tasks, BuildPanic(t) PROVE TypeOK'
  BY <1>10, SMTT(30) DEF BuildPanic, SpawnStep, Rollback, EarlyReject, Bump, Goto
<1>11. ASSUME NEW t \in Tasks, InstallRun(t) PROVE TypeOK'
  BY <1>11 DEF InstallRun, SpawnStep, Move
<1>12. ASSUME NEW t \in Tasks, RefuseInstall(t) PROVE TypeOK'
  BY <1>12 DEF RefuseInstall, SpawnStep, Move, Goto
<1>13. ASSUME NEW t \in Tasks, AfterInstall(t) PROVE TypeOK'
  BY <1>13 DEF AfterInstall, SpawnStep
<1>14. ASSUME NEW t \in Tasks, HeaderOverflow(t) PROVE TypeOK'
  BY <1>14 DEF HeaderOverflow, SpawnStep, Rollback, Bump
<1>15. ASSUME NEW t \in Tasks, ReserveQueue(t) PROVE TypeOK'
  BY <1>15, SMTT(30) DEF ReserveQueue, SpawnStep
<1>16. ASSUME NEW t \in Tasks, RejectAtQueueLimit(t) PROVE TypeOK'
  BY <1>16, SMTT(30) DEF RejectAtQueueLimit, SpawnStep, Rollback, Bump
<1>17. ASSUME NEW t \in Tasks, Send(t) PROVE TypeOK'
  BY <1>17, SMTT(30) DEF Send, SpawnStep
<1>18. ASSUME NEW t \in Tasks, CountAccepted(t) PROVE TypeOK'
  BY <1>18, SMTT(30) DEF CountAccepted, SpawnStep, Bump
<1>19. ASSUME NEW t \in Tasks, RejectQueued(t) PROVE TypeOK'
  BY <1>19 DEF RejectQueued, SpawnStep, Move, Goto
<1>20. ASSUME NEW t \in Tasks, YieldRejection(t) PROVE TypeOK'
  BY <1>20, SMTT(30) DEF YieldRejection, SpawnStep
<1>21. ASSUME NEW t \in Tasks, AfterReject(t) PROVE TypeOK'
  BY <1>21 DEF AfterReject, SpawnStep
<1>22. ASSUME NEW t \in Tasks, DropConstructor(t) PROVE TypeOK'
  BY <1>22, SMTT(30) DEF DropConstructor
<1>23. ASSUME NEW t \in Tasks, Settle(t) PROVE TypeOK'
  BY <1>23 DEF Settle
<1>24. ASSUME NEW t \in Tasks, Leave(t) PROVE TypeOK'
  BY <1>24, SMTT(30) DEF Leave, SpawnStep, EndAdmission
<1>25. ASSUME NEW t \in Tasks, LeaveDenied(t) PROVE TypeOK'
  BY <1>25, SMTT(30) DEF LeaveDenied, SpawnStep, EndAdmission
<1>26. ASSUME NEW t \in Tasks, ReturnCredit(t) PROVE TypeOK'
  BY <1>26, SMTT(30) DEF ReturnCredit
<1>27. ASSUME NEW t \in Tasks, ClaimRun(t) PROVE TypeOK'
  BY <1>27, SMTT(30) DEF ClaimRun, Move
<1>28. ASSUME NEW t \in Tasks, ClaimNothing(t) PROVE TypeOK'
  BY <1>28 DEF ClaimNothing
<1>29. ASSUME NEW t \in Tasks, RefuseExecution(t) PROVE TypeOK'
  BY <1>29 DEF RefuseExecution, Move, Goto
<1>30. ASSUME NEW t \in Tasks, YieldRefusal(t) PROVE TypeOK'
  BY <1>30 DEF YieldRefusal
<1>31. ASSUME NEW t \in Tasks, FinishBody(t) PROVE TypeOK'
  BY <1>31 DEF FinishBody, Goto
<1>32. ASSUME NEW t \in Tasks, AfterComplete(t) PROVE TypeOK'
  BY <1>32, SMTT(30) DEF AfterComplete
<1>33. ASSUME NEW t \in Tasks, FinishTaskJob(t) PROVE TypeOK'
  BY <1>33 DEF FinishTaskJob, Goto
<1>34. ASSUME NEW t \in Tasks, CancelHandle(t) PROVE TypeOK'
  <2> PICK why \in Reasons, d \in Deadlines : RequestCancel(t, why, d)
    BY <1>34 DEF CancelHandle
  <2>1. /\ reason' \in [Tasks -> Reasons \cup {"none"}]
        /\ cleanup_deadline' \in [Tasks -> Nat]
        /\ status' \in [Tasks -> Statuses]
        /\ frame' \in [Tasks -> SUBSET Holders]
        /\ comp' \in [Tasks -> [Roles -> CompletionLabels]]
    <3> HIDE DEF TypeOK, Reasons
    <3> QED BY RequestCancelType
  <2> QED BY <1>34, <2>1 DEF CancelHandle
<1>35. ASSUME NEW t \in Tasks, RememberDeadline(t) PROVE TypeOK'
  BY <1>35, SMTT(30) DEF RememberDeadline, Min2
<1>36. ASSUME NEW t \in Tasks, AwaitResult(t) PROVE TypeOK'
  BY <1>36 DEF AwaitResult
<1>37. ASSUME NEW t \in Tasks, ReleaseOwner(t) PROVE TypeOK'
  BY <1>37 DEF ReleaseOwner
<1>38. ASSUME NEW t \in Tasks, DropResult(t) PROVE TypeOK'
  <2>1. drain' \in [Tasks -> BOOLEAN]
    BY <1>38, ZenonT(30) DEF DropResult
  <2>2. owner' \in [Tasks -> OwnerLabels]
    BY <1>38 DEF DropResult
  <2> QED BY <1>38, <2>1, <2>2 DEF DropResult
<1>39. ASSUME NEW t \in Tasks, OwnerCancel(t) PROVE TypeOK'
  <2> PICK why \in Reasons, d \in Deadlines : RequestCancel(t, why, d)
    BY <1>39 DEF OwnerCancel
  <2>1. /\ reason' \in [Tasks -> Reasons \cup {"none"}]
        /\ cleanup_deadline' \in [Tasks -> Nat]
        /\ status' \in [Tasks -> Statuses]
        /\ frame' \in [Tasks -> SUBSET Holders]
        /\ comp' \in [Tasks -> [Roles -> CompletionLabels]]
    <3> HIDE DEF TypeOK, Reasons
    <3> QED BY RequestCancelType
  <2> QED BY <1>39, <2>1 DEF OwnerCancel, AfterOwnerRequest
<1>40. ASSUME NEW t \in Tasks, AfterOwnerCancel(t) PROVE TypeOK'
  BY <1>40, SMTT(30) DEF AfterOwnerCancel
<1>41. ASSUME NEW t \in Tasks, PublishOwner(t) PROVE TypeOK'
  BY <1>41 DEF PublishOwner
<1>42. ASSUME NEW t \in Tasks, DrainOwnerResult(t) PROVE TypeOK'
  BY <1>42 DEF DrainOwnerResult
<1>43. ASSUME NEW t \in Tasks, CancelSnapshot(t) PROVE TypeOK'
  <2> PICK d \in Deadlines : RequestCancel(t, "Cancelled", d)
    BY <1>43 DEF CancelSnapshot
  <2>1. /\ reason' \in [Tasks -> Reasons \cup {"none"}]
        /\ cleanup_deadline' \in [Tasks -> Nat]
        /\ status' \in [Tasks -> Statuses]
        /\ frame' \in [Tasks -> SUBSET Holders]
        /\ comp' \in [Tasks -> [Roles -> CompletionLabels]]
    <3>1. "Cancelled" \in Reasons
      BY DEF Reasons
    <3> HIDE DEF TypeOK, Reasons
    <3> QED BY <3>1, RequestCancelType
  <2> QED BY <1>43, <2>1 DEF CancelSnapshot
<1>44. ASSUME NEW t \in Tasks, NEW from \in Waits, NEW to \in Waits,
             SetStatus(t, from, to)
       PROVE TypeOK'
  BY <1>44 DEF SetStatus
<1>45. ASSUME NEW t \in Tasks, NEW r \in Roles, DestroyFrame(t, r) PROVE TypeOK'
  BY <1>45 DEF DestroyFrame, Goto
<1>46. ASSUME NEW t \in Tasks, NEW r \in Roles, Publish(t, r) PROVE TypeOK'
  <2> PICK kind \in Outcomes(r), incoming \in Terminations(r), d \in Deadlines :
        LET why == IF CancelledTask(t) THEN reason[t] ELSE incoming
        IN /\ reason' = [reason EXCEPT ![t] = Commit(t, @, why)]
           /\ cleanup_deadline' = [cleanup_deadline EXCEPT ![t] = Commit(t, @,
                 IF incoming = "none" THEN @
                 ELSE IF CancelledTask(t) THEN Min2(@, d) ELSE d)]
           /\ status' = [status EXCEPT ![t] = Commit(t, @,
                 IF why = "none" THEN kind ELSE TerminationStatus(why))]
           /\ result' = [result EXCEPT ![t] = Commit(t, @, ~OwnerReleased(t))]
    <3> HIDE DEF TypeOK, outcomeVars, Statuses, Roles, Reasons
    <3> QED BY <1>46 DEF Publish
  <2>1. incoming \in Reasons \cup {"none"}
    BY DEF Terminations
  <2>2. kind \in Statuses
    BY DEF Outcomes
  <2>3. reason' \in [Tasks -> Reasons \cup {"none"}]
    BY <2>1 DEF Commit
  <2>4. cleanup_deadline' \in [Tasks -> Nat]
    BY DEF Min2, Commit
  <2>5. status' \in [Tasks -> Statuses]
    BY <2>2 DEF TerminationStatus, Commit
  <2>6. result' \in [Tasks -> BOOLEAN]
    BY DEF Commit, OwnerReleased
  <2>7. comp' \in [Tasks -> [Roles -> CompletionLabels]]
    BY <1>46 DEF Publish, Goto
  <2> QED BY <1>46, <2>3, <2>4, <2>5, <2>6, <2>7 DEF Publish
<1>47. ASSUME NEW t \in Tasks, NEW r \in Roles, Discard(t, r) PROVE TypeOK'
  BY <1>47, SMTT(30) DEF Discard, Goto
<1>48. ASSUME NEW t \in Tasks, NEW r \in Roles, ClaimAccounting(t, r) PROVE TypeOK'
  BY <1>48, SMTT(30) DEF ClaimAccounting, Goto
<1>49. ASSUME NEW t \in Tasks, NEW r \in Roles, CountFinished(t, r) PROVE TypeOK'
  <2>1. stats' \in [StatNames -> Nat]
    BY <1>49, BumpType DEF CountFinished
  <2>2. accounting' \in [Tasks -> AccountingStages]
    BY <1>49 DEF CountFinished, Accounts
  <2>3. UNCHANGED <<producer_count, active_tasks, states, queueVars, outcomeVars,
                    submission, completion_cleanup_done, controlVars, shutdownVars>>
    BY <1>49 DEF CountFinished
  <2> QED BY <2>1, <2>2, <2>3
<1>63. ASSUME NEW t \in Tasks, NEW r \in Roles, Unregister(t, r) PROVE TypeOK'
  BY <1>63, SMTT(30) DEF Unregister, Accounts
<1>64. ASSUME NEW t \in Tasks, NEW r \in Roles, ReleaseActive(t, r) PROVE TypeOK'
  BY <1>64, SMTT(30) DEF ReleaseActive, Accounts
<1>50. ASSUME NEW t \in Tasks, NEW r \in Roles, AckAccounting(t, r) PROVE TypeOK'
  BY <1>50, SMTT(30) DEF AckAccounting, Accounts, Goto
<1>51. ASSUME Dequeue PROVE TypeOK'
  BY <1>51 DEF Dequeue, TakeJob, QueueEmpty, NextJob
<1>52. ASSUME RetirePrefix PROVE TypeOK'
  BY <1>52 DEF RetirePrefix, TakeJob, QueueEmpty, NextJob
<1>53. ASSUME CachePrefix PROVE TypeOK'
  BY <1>53, SMTT(30) DEF CachePrefix, NextJob
<1>54. ASSUME BeginShutdown PROVE TypeOK'
  BY <1>54 DEF BeginShutdown, ShutdownStep
<1>55. ASSUME SetClosing PROVE TypeOK'
  BY <1>55 DEF SetClosing, ShutdownStep
<1>56. ASSUME CloseGate PROVE TypeOK'
  BY <1>56 DEF CloseGate, ShutdownStep
<1>57. ASSUME Snapshot PROVE TypeOK'
  BY <1>57 DEF Snapshot, ShutdownStep
<1>58. ASSUME EndCancelAll PROVE TypeOK'
  BY <1>58 DEF EndCancelAll, ShutdownStep
<1>59. ASSUME PollProducers PROVE TypeOK'
  BY <1>59 DEF PollProducers, StillOutstanding, AfterOutstanding
<1>60. ASSUME PollActive PROVE TypeOK'
  BY <1>60 DEF PollActive, StillOutstanding, AfterOutstanding
<1>61. ASSUME Expire PROVE TypeOK'
  BY <1>61 DEF Expire
<1>62. CASE UNCHANGED vars
  BY <1>62, SMTT(30) DEF vars
<1> HIDE DEF TypeOK
<1> QED
  BY <1>1, <1>2, <1>3, <1>4, <1>5, <1>6, <1>7, <1>8, <1>9, <1>10, <1>11,
     <1>12, <1>13, <1>14, <1>15, <1>16, <1>17, <1>18, <1>19, <1>20, <1>21,
     <1>22, <1>23, <1>24, <1>25, <1>26, <1>27, <1>28, <1>29, <1>30, <1>31,
     <1>32, <1>33, <1>34, <1>35, <1>36, <1>37, <1>38, <1>39, <1>40, <1>41,
     <1>42, <1>43, <1>44, <1>45, <1>46, <1>47, <1>48, <1>49, <1>50, <1>51,
     <1>52, <1>53, <1>54, <1>55, <1>56, <1>57, <1>58, <1>59, <1>60, <1>61,
     <1>62, <1>63, <1>64 DEF Next, Submission, Execution, Ownership, Completion, Shutdown

\* Every variable keeps its type.
THEOREM TypeCorrect == Spec => []TypeOK
<1>1. QED
  BY TypeInit, TypeStep, PTL DEF Spec, HungSpec

-----------------------------------------------------------------------------
(* Who holds the frame and who completes: the inductive invariant            *)

Idle(t) == \A r \in Completers : comp[t][r] = "idle"

Queued(t) == t = head \/ \E i \in 1..Len(queue) : queue[i] = t

\* A task has at most one queue node.
QueueOnce ==
    /\ \A i, j \in 1..Len(queue) : queue[i] = queue[j] => i = j
    /\ \A i \in 1..Len(queue) : queue[i] # head

BeforeInstall == {"none", "admit", "limit", "register", "build", "install"}
BeforeSend == {"installing", "reserve", "send", "reject"}
AfterSend == {"sent", "accepted", "leave", "returned", "refused"}

\* Where the frame can be, and what its place says about the other threads.
FramePlace(t) ==
    /\ spawn[t] = "none" => frame[t] = {}
    /\ spawn[t] \in BeforeInstall \ {"none"} => frame[t] = {"spawn"}
    /\ spawn[t] \in BeforeInstall => Idle(t)
    /\ "spawn" \in frame[t] =>
          frame[t] = {"spawn"} /\ spawn[t] \in BeforeInstall \cup {"rejecting", "settle"}
    /\ "slot" \in frame[t] => frame[t] = {"slot"} /\ Idle(t)
    /\ "body" \in frame[t] => body[t] = "running"
    /\ body[t] = "running" => frame[t] = {"body"} /\ Idle(t)
    /\ \A r \in Completers \ {"body"} : r \in frame[t] => comp[t][r] = "destroy"

\* At most one completion call starts, and it alone publishes.
CompletionOnce(t) ==
    /\ comp[t]["body"] # "destroy"
    /\ comp[t]["node"] \in {"idle", "account", "count", "done"}
    /\ \A a, b \in Completers : comp[t][a] # "idle" /\ comp[t][b] # "idle" => a = b
    /\ Terminal(t) \/ result[t] =>
          \E r \in Completers : comp[t][r] \notin {"idle", "destroy"}

\* A task that still has to meet a rejection or a claimant either has its frame
\* in the slot or was cancelled, and its node is in one place.
NodePlace(t) ==
    /\ spawn[t] \in BeforeSend \/ body[t] \in {"dequeued", "claim"} \/ Queued(t) =>
          "slot" \in frame[t] \/ CancelledTask(t)
    /\ Queued(t) => body[t] = "none" /\ spawn[t] \in AfterSend
    /\ body[t] # "none" => spawn[t] \in AfterSend

FrameInv ==
    /\ QueueOnce
    /\ \A t \in Tasks : FramePlace(t) /\ CompletionOnce(t) /\ NodePlace(t)

\* recv and try_recv take the cached head first, and leave the other nodes in
\* place, each of them once.
LEMMA TakeJobQueue ==
    ASSUME TypeOK, QueueOnce, ~QueueEmpty, TakeJob
    PROVE  /\ NextJob \in Tasks /\ Queued(NextJob) /\ QueueOnce'
           /\ \A u \in Tasks : Queued(u)' => Queued(u) /\ u # NextJob
<1>1. queue \in Seq(Tasks) /\ head \in Tasks \cup {NoTask}
  BY DEF TypeOK
<1>2. CASE head # NoTask
  BY <1>1, <1>2, NoTaskAssumption DEF QueueOnce, Queued, NextJob, TakeJob
<1>3. CASE head = NoTask
  <2>1. queue # << >> /\ head' = NoTask /\ queue' = Tail(queue)
    BY <1>3 DEF QueueEmpty, TakeJob
  <2>2. /\ Len(queue) \in Nat \ {0} /\ Len(queue') = Len(queue) - 1
        /\ \A i \in 1..Len(queue') : queue'[i] = queue[i + 1]
        /\ \A i \in 1..Len(queue) : queue[i] \in Tasks
    BY <1>1, <2>1
  <2>3. NextJob = queue[1]
    BY <1>1, <1>3, <2>1 DEF NextJob
  <2> QED BY <1>3, <2>1, <2>2, <2>3, NoTaskAssumption DEF QueueOnce, Queued
<1> QED BY <1>2, <1>3

\* request_cancel_with, whenever it comes, keeps the inductive invariant.
LEMMA RequestCancelFrame ==
    ASSUME TypeOK, FrameInv, NEW t \in Tasks, NEW why \in Reasons,
           NEW d \in Deadlines, RequestCancel(t, why, d),
           UNCHANGED <<spawn, body, result, queue, head>>
    PROVE  FrameInv'
<1>t. /\ status \in [Tasks -> Statuses] /\ result \in [Tasks -> BOOLEAN]
      /\ reason \in [Tasks -> Reasons \cup {"none"}]
      /\ frame \in [Tasks -> SUBSET Holders]
      /\ comp \in [Tasks -> [Roles -> CompletionLabels]]
  BY DEF TypeOK
<1>1. \A u \in Tasks : CancelledTask(u) => CancelledTask(u)'
  BY <1>t DEF RequestCancel, ReasonAfter, CancelledTask, Reasons
<1>2. \A u \in Tasks : Terminal(u)' => Terminal(u)
  BY <1>t DEF RequestCancel, Terminal, TerminalStatuses
<1> USE <1>t DEF FrameInv, QueueOnce, Queued, FramePlace, CompletionOnce,
      NodePlace, Idle, BeforeInstall, BeforeSend, AfterSend, Completers, Roles
<1>3. CASE WinsFrame(t)
  <2>1. /\ frame[t] = {"slot"} /\ Idle(t) /\ CancelledTask(t)'
        /\ body[t] # "running" /\ spawn[t] \notin BeforeInstall
    BY <1>3 DEF WinsFrame, RequestCancel, ReasonAfter, CancelledTask, Reasons
  <2>2. frame' = [frame EXCEPT ![t] = {"cancel"}]
    BY <1>3, <2>1 DEF RequestCancel, Move
  <2>3. comp' = [comp EXCEPT ![t]["cancel"] = "destroy"]
    BY <1>3 DEF RequestCancel, Goto
  <2>4. ~Terminal(t)' /\ ~result[t]
    BY <1>2, <1>3 DEF WinsFrame, CanCancel
  <2> QED BY <1>1, <1>2, <2>1, <2>2, <2>3, <2>4
<1>4. CASE ~WinsFrame(t)
  <2>1. UNCHANGED <<frame, comp>>
    BY <1>4 DEF RequestCancel
  <2> QED BY <1>1, <1>2, <2>1
<1> QED BY <1>3, <1>4

\* The inductive invariant survives every step: one case per action.
LEMMA FrameStep == TypeOK /\ FrameInv /\ [Next]_vars => FrameInv'
<1> SUFFICES ASSUME TypeOK, FrameInv, [Next]_vars PROVE FrameInv'
  OBVIOUS
<1>t. /\ status \in [Tasks -> Statuses] /\ result \in [Tasks -> BOOLEAN]
      /\ reason \in [Tasks -> Reasons \cup {"none"}]
      /\ spawn \in [Tasks -> SpawnLabels] /\ frame \in [Tasks -> SUBSET Holders]
      /\ body \in [Tasks -> BodyLabels]
      /\ comp \in [Tasks -> [Roles -> CompletionLabels]]
      /\ queue \in Seq(Tasks) /\ head \in Tasks \cup {NoTask}
  BY DEF TypeOK
<1> USE <1>t DEF FrameInv, QueueOnce, Queued, FramePlace, CompletionOnce, NodePlace,
      Idle, Terminal, CancelledTask, BeforeInstall, BeforeSend, AfterSend,
      Completers, Roles, TerminalStatuses, countVars, queueVars, outcomeVars,
      ackVars, ownerVars, controlVars, shutdownVars
<1>1. ASSUME NEW t \in Tasks, BeginSpawn(t) PROVE FrameInv'
  BY <1>1 DEF BeginSpawn, SpawnStep
<1>2. ASSUME NEW t \in Tasks, DenySpawn(t) PROVE FrameInv'
  BY <1>2 DEF DenySpawn, SpawnStep
<1>3. ASSUME NEW t \in Tasks, CreateTask(t) PROVE FrameInv'
  BY <1>3 DEF CreateTask, SpawnStep, Bump
<1>4. ASSUME NEW t \in Tasks, RejectClosed(t) PROVE FrameInv'
  BY <1>4 DEF RejectClosed, SpawnStep, EarlyReject, Bump, Goto
<1>5. ASSUME NEW t \in Tasks, TakeActive(t) PROVE FrameInv'
  BY <1>5 DEF TakeActive, SpawnStep
<1>6. ASSUME NEW t \in Tasks, RejectAtLimit(t) PROVE FrameInv'
  BY <1>6 DEF RejectAtLimit, SpawnStep, EarlyReject, Bump, Goto
<1>7. ASSUME NEW t \in Tasks, Register(t) PROVE FrameInv'
  BY <1>7 DEF Register, SpawnStep
<1>8. ASSUME NEW t \in Tasks, RejectClosing(t) PROVE FrameInv'
  BY <1>8 DEF RejectClosing, SpawnStep, EarlyReject, Rollback, Bump, Goto
<1>9. ASSUME NEW t \in Tasks, Build(t) PROVE FrameInv'
  BY <1>9 DEF Build, SpawnStep
<1>10. ASSUME NEW t \in Tasks, BuildPanic(t) PROVE FrameInv'
  BY <1>10 DEF BuildPanic, SpawnStep, Rollback, EarlyReject, Bump, Goto
<1>11. ASSUME NEW t \in Tasks, InstallRun(t) PROVE FrameInv'
  BY <1>11 DEF InstallRun, SpawnStep, Move
<1>12. ASSUME NEW t \in Tasks, RefuseInstall(t) PROVE FrameInv'
  <2>1. Idle(t) /\ frame[t] = {"spawn"} /\ CancelledTask(t)
    BY <1>12
    DEF RefuseInstall, SpawnStep, CanInstall, CanPublish, CanClaim,
        CancellationOwnsCompletion
  <2>2. frame'[t] = {"install"}
    BY <1>12, <2>1 DEF RefuseInstall, Move
  <2> QED BY <1>12, <2>1, <2>2 DEF RefuseInstall, SpawnStep, Move, Goto
<1>13. ASSUME NEW t \in Tasks, AfterInstall(t) PROVE FrameInv'
  BY <1>13 DEF AfterInstall, SpawnStep
<1>14. ASSUME NEW t \in Tasks, HeaderOverflow(t) PROVE FrameInv'
  BY <1>14 DEF HeaderOverflow, SpawnStep, Rollback, Bump
<1>15. ASSUME NEW t \in Tasks, ReserveQueue(t) PROVE FrameInv'
  BY <1>15 DEF ReserveQueue, SpawnStep
<1>16. ASSUME NEW t \in Tasks, RejectAtQueueLimit(t) PROVE FrameInv'
  BY <1>16 DEF RejectAtQueueLimit, SpawnStep, Rollback, Bump
<1>17. ASSUME NEW t \in Tasks, Send(t) PROVE FrameInv'
  <2>1. ~Queued(t) /\ body[t] = "none"
    BY <1>17 DEF Send, SpawnStep
  <2>2. /\ queue' = Append(queue, t) /\ head' = head
        /\ spawn' = [spawn EXCEPT ![t] = "sent"]
        /\ UNCHANGED <<status, result, reason, frame, body, comp>>
    BY <1>17 DEF Send, SpawnStep
  <2>3. QueueOnce' /\ \A u \in Tasks : Queued(u)' => Queued(u) \/ u = t
    BY <2>1, <2>2
  <2>4. spawn[t] = "send"
    BY <1>17 DEF Send, SpawnStep
  <2> HIDE DEF QueueOnce, Queued
  <2> QED BY <2>1, <2>2, <2>3, <2>4
<1>18. ASSUME NEW t \in Tasks, CountAccepted(t) PROVE FrameInv'
  BY <1>18 DEF CountAccepted, SpawnStep, Bump
<1>19. ASSUME NEW t \in Tasks, RejectQueued(t) PROVE FrameInv'
  <2>1. Idle(t) /\ frame[t] = {"slot"} /\ body[t] = "none"
    BY <1>19
    DEF RejectQueued, SpawnStep, CanInstall, CanPublish, CanClaim,
        CancellationOwnsCompletion
  <2>2. frame'[t] = {"reject"}
    BY <1>19, <2>1 DEF RejectQueued, Move
  <2> QED BY <1>19, <2>1, <2>2 DEF RejectQueued, SpawnStep, Move, Goto
<1>20. ASSUME NEW t \in Tasks, YieldRejection(t) PROVE FrameInv'
  BY <1>20 DEF YieldRejection, SpawnStep
<1>21. ASSUME NEW t \in Tasks, AfterReject(t) PROVE FrameInv'
  BY <1>21 DEF AfterReject, SpawnStep
<1>22. ASSUME NEW t \in Tasks, DropConstructor(t) PROVE FrameInv'
  BY <1>22 DEF DropConstructor
<1>23. ASSUME NEW t \in Tasks, Settle(t) PROVE FrameInv'
  BY <1>23 DEF Settle
<1>24. ASSUME NEW t \in Tasks, Leave(t) PROVE FrameInv'
  BY <1>24 DEF Leave, SpawnStep, EndAdmission
<1>25. ASSUME NEW t \in Tasks, LeaveDenied(t) PROVE FrameInv'
  BY <1>25 DEF LeaveDenied, SpawnStep, EndAdmission
<1>26. ASSUME NEW t \in Tasks, ReturnCredit(t) PROVE FrameInv'
  BY <1>26 DEF ReturnCredit
<1>27. ASSUME NEW t \in Tasks, ClaimRun(t) PROVE FrameInv'
  <2>1. Idle(t) /\ frame[t] = {"slot"} /\ spawn[t] \in AfterSend
    BY <1>27 DEF ClaimRun, CanInstall, CanPublish, CanClaim, CancellationOwnsCompletion
  <2>2. frame'[t] = {"body"}
    BY <1>27, <2>1 DEF ClaimRun, Move
  <2> QED BY <1>27, <2>1, <2>2 DEF ClaimRun, Move, Goto
<1>28. ASSUME NEW t \in Tasks, ClaimNothing(t) PROVE FrameInv'
  BY <1>28 DEF ClaimNothing
<1>29. ASSUME NEW t \in Tasks, RefuseExecution(t) PROVE FrameInv'
  <2>1. Idle(t) /\ frame[t] = {"slot"} /\ spawn[t] \in AfterSend
    BY <1>29 DEF RefuseExecution, CanInstall, CanPublish, CanClaim, CancellationOwnsCompletion
  <2>2. frame'[t] = {"refuse"}
    BY <1>29, <2>1 DEF RefuseExecution, Move
  <2> QED BY <1>29, <2>1, <2>2 DEF RefuseExecution, Move, Goto
<1>30. ASSUME NEW t \in Tasks, YieldRefusal(t) PROVE FrameInv'
  BY <1>30 DEF YieldRefusal
<1>31. ASSUME NEW t \in Tasks, FinishBody(t) PROVE FrameInv'
  BY <1>31 DEF FinishBody, Goto
<1>32. ASSUME NEW t \in Tasks, AfterComplete(t) PROVE FrameInv'
  BY <1>32 DEF AfterComplete
<1>33. ASSUME NEW t \in Tasks, FinishTaskJob(t) PROVE FrameInv'
  BY <1>33 DEF FinishTaskJob, Goto
<1>34. ASSUME NEW t \in Tasks, CancelHandle(t) PROVE FrameInv'
  <2> PICK why \in Reasons, d \in Deadlines : RequestCancel(t, why, d)
    BY <1>34 DEF CancelHandle
  <2>1. UNCHANGED <<spawn, body, result, queue, head>>
    BY <1>34 DEF CancelHandle
  <2> QED BY <2>1, RequestCancelFrame
<1>35. ASSUME NEW t \in Tasks, RememberDeadline(t) PROVE FrameInv'
  BY <1>35 DEF RememberDeadline, Min2
<1>36. ASSUME NEW t \in Tasks, AwaitResult(t) PROVE FrameInv'
  BY <1>36 DEF AwaitResult
<1>37. ASSUME NEW t \in Tasks, ReleaseOwner(t) PROVE FrameInv'
  BY <1>37 DEF ReleaseOwner
<1>38. ASSUME NEW t \in Tasks, DropResult(t) PROVE FrameInv'
  BY <1>38 DEF DropResult
<1>39. ASSUME NEW t \in Tasks, OwnerCancel(t) PROVE FrameInv'
  <2> PICK why \in Reasons, d \in Deadlines : RequestCancel(t, why, d)
    BY <1>39 DEF OwnerCancel
  <2>1. UNCHANGED <<spawn, body, result, queue, head>>
    BY <1>39 DEF OwnerCancel
  <2> QED BY <2>1, RequestCancelFrame
<1>40. ASSUME NEW t \in Tasks, AfterOwnerCancel(t) PROVE FrameInv'
  BY <1>40 DEF AfterOwnerCancel
<1>41. ASSUME NEW t \in Tasks, PublishOwner(t) PROVE FrameInv'
  BY <1>41 DEF PublishOwner
<1>42. ASSUME NEW t \in Tasks, DrainOwnerResult(t) PROVE FrameInv'
  BY <1>42 DEF DrainOwnerResult
<1>43. ASSUME NEW t \in Tasks, CancelSnapshot(t) PROVE FrameInv'
  <2> PICK d \in Deadlines : RequestCancel(t, "Cancelled", d)
    BY <1>43 DEF CancelSnapshot
  <2>1. UNCHANGED <<spawn, body, result, queue, head>>
    BY <1>43 DEF CancelSnapshot
  <2> QED BY <2>1, RequestCancelFrame DEF Reasons
<1>44. ASSUME NEW t \in Tasks, NEW from \in Waits, NEW to \in Waits,
             SetStatus(t, from, to)
       PROVE FrameInv'
  BY <1>44 DEF SetStatus, Waits
<1>45. ASSUME NEW t \in Tasks, NEW r \in Roles, DestroyFrame(t, r) PROVE FrameInv'
  BY <1>45 DEF DestroyFrame, Goto
<1>46. ASSUME NEW t \in Tasks, NEW r \in Roles, Publish(t, r) PROVE FrameInv'
  <2>1. r \in Completers /\ frame[t] \cap {"slot", "body"} = {}
    BY <1>46, SMTT(30) DEF Publish
  <2>2. comp' = [comp EXCEPT ![t][r] = IF CanPublish(t) THEN "discard" ELSE "lost"]
    BY <1>46 DEF Publish, Goto
  <2>3. UNCHANGED <<spawn, frame, body, queue, head>>
    BY <1>46 DEF Publish
  <2>4. /\ \A u \in Tasks : CancelledTask(u) => CancelledTask(u)'
        /\ \A u \in Tasks \ {t} : Terminal(u)' = Terminal(u) /\ result'[u] = result[u]
    BY <1>46 DEF Publish, Commit
  <2> HIDE DEF Terminal, CancelledTask
  <2> QED BY <1>46, <2>1, <2>2, <2>3, <2>4 DEF Publish
<1>47. ASSUME NEW t \in Tasks, NEW r \in Roles, Discard(t, r) PROVE FrameInv'
  BY <1>47 DEF Discard, Goto
<1>48. ASSUME NEW t \in Tasks, NEW r \in Roles, ClaimAccounting(t, r) PROVE FrameInv'
  BY <1>48 DEF ClaimAccounting, Goto
<1>49. ASSUME NEW t \in Tasks, NEW r \in Roles, CountFinished(t, r) PROVE FrameInv'
  BY <1>49 DEF CountFinished
<1>63. ASSUME NEW t \in Tasks, NEW r \in Roles, Unregister(t, r) PROVE FrameInv'
  BY <1>63 DEF Unregister
<1>64. ASSUME NEW t \in Tasks, NEW r \in Roles, ReleaseActive(t, r) PROVE FrameInv'
  BY <1>64 DEF ReleaseActive
<1>50. ASSUME NEW t \in Tasks, NEW r \in Roles, AckAccounting(t, r) PROVE FrameInv'
  BY <1>50 DEF AckAccounting, Accounts, Goto
<1>51. ASSUME Dequeue PROVE FrameInv'
  <2>1. /\ NextJob \in Tasks /\ Queued(NextJob) /\ QueueOnce'
        /\ \A u \in Tasks : Queued(u)' => Queued(u) /\ u # NextJob
    BY <1>51, TakeJobQueue DEF Dequeue
  <2>2. body[NextJob] = "none" /\ spawn[NextJob] \in AfterSend
    BY <2>1
  <2> HIDE DEF QueueOnce, Queued, NextJob
  <2> QED BY <1>51, <2>1, <2>2 DEF Dequeue
<1>52. ASSUME RetirePrefix PROVE FrameInv'
  <2>1. /\ NextJob \in Tasks /\ Queued(NextJob) /\ QueueOnce'
        /\ \A u \in Tasks : Queued(u)' => Queued(u) /\ u # NextJob
    BY <1>52, TakeJobQueue DEF RetirePrefix
  <2>2. body[NextJob] = "none" /\ spawn[NextJob] \in AfterSend
    BY <2>1
  <2> HIDE DEF QueueOnce, Queued, NextJob
  <2> QED BY <1>52, <2>1, <2>2 DEF RetirePrefix
<1>53. ASSUME CachePrefix PROVE FrameInv'
  BY <1>53 DEF CachePrefix, NextJob
<1>54. ASSUME BeginShutdown PROVE FrameInv'
  BY <1>54 DEF BeginShutdown, ShutdownStep
<1>55. ASSUME SetClosing PROVE FrameInv'
  BY <1>55 DEF SetClosing, ShutdownStep
<1>56. ASSUME CloseGate PROVE FrameInv'
  BY <1>56 DEF CloseGate, ShutdownStep
<1>57. ASSUME Snapshot PROVE FrameInv'
  BY <1>57 DEF Snapshot, ShutdownStep
<1>58. ASSUME EndCancelAll PROVE FrameInv'
  BY <1>58 DEF EndCancelAll, ShutdownStep
<1>59. ASSUME PollProducers PROVE FrameInv'
  BY <1>59 DEF PollProducers, StillOutstanding, AfterOutstanding
<1>60. ASSUME PollActive PROVE FrameInv'
  BY <1>60 DEF PollActive, StillOutstanding, AfterOutstanding
<1>61. ASSUME Expire PROVE FrameInv'
  BY <1>61 DEF Expire
<1>62. CASE UNCHANGED vars
  BY <1>62 DEF vars
<1> HIDE DEF FrameInv, QueueOnce, Queued, FramePlace, CompletionOnce, NodePlace
<1> QED
  BY <1>1, <1>2, <1>3, <1>4, <1>5, <1>6, <1>7, <1>8, <1>9, <1>10, <1>11,
     <1>12, <1>13, <1>14, <1>15, <1>16, <1>17, <1>18, <1>19, <1>20, <1>21,
     <1>22, <1>23, <1>24, <1>25, <1>26, <1>27, <1>28, <1>29, <1>30, <1>31,
     <1>32, <1>33, <1>34, <1>35, <1>36, <1>37, <1>38, <1>39, <1>40, <1>41,
     <1>42, <1>43, <1>44, <1>45, <1>46, <1>47, <1>48, <1>49, <1>50, <1>51,
     <1>52, <1>53, <1>54, <1>55, <1>56, <1>57, <1>58, <1>59, <1>60, <1>61,
     <1>62, <1>63, <1>64 DEF Next, Submission, Execution, Ownership, Completion, Shutdown,
     Waits

\* No frame, node or completion exists before the first submission.
LEMMA FrameInit == Init => FrameInv
BY NoTaskAssumption DEF Init, FrameInv, QueueOnce, Queued, FramePlace, CompletionOnce,
   NodePlace, Idle, Terminal, TerminalStatuses, BeforeInstall, BeforeSend,
   AfterSend, Completers, Roles

\* The inductive invariant holds in every reachable state.
LEMMA Invariance == Spec => [](TypeOK /\ FrameInv)
BY TypeInit, TypeStep, FrameInit, FrameStep, PTL DEF Spec, HungSpec

\* Under the invariant a frame has one owner.
LEMMA FrameOwner ==
    ASSUME TypeOK, FrameInv, NEW t \in Tasks, NEW a \in frame[t], NEW b \in frame[t]
    PROVE  a = b
<1>1. a \in Holders /\ b \in Holders
  BY DEF TypeOK
<1>2. FramePlace(t) /\ CompletionOnce(t)
  BY DEF FrameInv
<1>3. CASE {a, b} \cap {"spawn", "slot", "body"} # {}
  BY <1>2, <1>3 DEF FramePlace
<1>4. CASE {a, b} \cap {"spawn", "slot", "body"} = {}
  <2>1. a \in Completers \ {"body"} /\ b \in Completers \ {"body"}
    BY <1>1, <1>4 DEF Holders
  <2>2. comp[t][a] # "idle" /\ comp[t][b] # "idle"
    BY <1>2, <2>1 DEF FramePlace
  <2> QED BY <1>2, <2>1, <2>2 DEF CompletionOnce
<1> QED BY <1>3, <1>4

\* The captured frame of a task never has two owners, for any number of tasks,
\* threads and faults: pending_run.take, install_run, claim_run, reject_queued
\* and request_cancel_with hand it on, they never copy it.
THEOREM OwnerSafety == Spec => []FrameOwnedOnce
<1>1. TypeOK /\ FrameInv => FrameOwnedOnce
  BY FrameOwner DEF FrameOwnedOnce
<1> QED BY <1>1, Invariance, PTL

\* Cancellation, rejection, refusal and the body never complete a task twice.
THEOREM CompletionSafety == Spec => []OneCompleter
<1>1. FrameInv => OneCompleter
  BY DEF FrameInv, CompletionOnce, OneCompleter
<1> QED BY <1>1, Invariance, PTL

\* Under the invariant the frame of a terminal task is gone, or is the
\* unused constructor of a rejected submission.
LEMMA TerminalFrame ==
    ASSUME TypeOK, FrameInv, NEW t \in Tasks, NEW r \in Completers,
           comp[t][r] \notin {"idle", "destroy"}
    PROVE  /\ frame[t] \subseteq {"spawn"}
           /\ frame[t] # {} => spawn[t] \in {"rejecting", "settle"}
<1>1. FramePlace(t) /\ CompletionOnce(t) /\ frame[t] \subseteq Holders
  BY DEF FrameInv, TypeOK
<1>2. ~Idle(t)
  BY DEF Idle
<1>3. "slot" \notin frame[t] /\ "body" \notin frame[t]
  BY <1>1, <1>2 DEF FramePlace
<1>4. \A q \in Completers : q \notin frame[t]
  BY <1>1, <1>3 DEF FramePlace, CompletionOnce
<1>5. frame[t] \subseteq {"spawn"}
  BY <1>1, <1>3, <1>4 DEF Holders
<1>6. frame[t] # {} => spawn[t] \in {"rejecting", "settle"}
  BY <1>1, <1>2, <1>5 DEF FramePlace
<1> QED BY <1>5, <1>6

\* An outcome is visible only after the frame is gone: await, scope exit and
\* shutdown cannot overtake a running body or a running destructor.
THEOREM OutcomeSafety == Spec => []OutcomeAfterFrame
<1>1. TypeOK /\ FrameInv => OutcomeAfterFrame
  <2> SUFFICES ASSUME TypeOK, FrameInv, NEW t \in Tasks, Terminal(t)
               PROVE  /\ frame[t] \subseteq {"spawn"}
                      /\ frame[t] # {} => spawn[t] \in {"rejecting", "settle"}
    BY DEF OutcomeAfterFrame
  <2>1. PICK r \in Completers : comp[t][r] \notin {"idle", "destroy"}
    BY DEF FrameInv, CompletionOnce
  <2> QED BY <2>1, TerminalFrame
<1> QED BY <1>1, Invariance, PTL

\* The frame discipline of the runtime, for any number of tasks, workers and
\* queue slots: one owner, one completer, and no outcome before the frame is gone.
THEOREM FrameSafety == Spec => []FrameDiscipline
<1>1. TypeOK /\ FrameOwnedOnce /\ OneCompleter /\ OutcomeAfterFrame => FrameDiscipline
  BY DEF FrameDiscipline
<1> QED BY <1>1, TypeCorrect, OwnerSafety, CompletionSafety, OutcomeSafety, PTL

-----------------------------------------------------------------------------
(* Outcomes and causes                                                      *)

\* The steps that write an outcome, a cause or a cleanup deadline.
OutcomeStep ==
    \/ \E t \in Tasks : CreateTask(t) \/ RejectClosed(t) \/ ClaimRun(t)
    \/ \E t \in Tasks, from \in Waits, to \in Waits : SetStatus(t, from, to)
    \/ \E t \in Tasks, r \in Roles : Publish(t, r)
    \/ \E t \in Tasks : CancelHandle(t) \/ OwnerCancel(t) \/ CancelSnapshot(t)
    \/ \E t \in Tasks : AwaitResult(t) \/ ReleaseOwner(t) \/ RememberDeadline(t)

\* Every other step leaves outcomes, causes and cleanup deadlines alone.
LEMMA OutcomeSteps == [Next]_vars => OutcomeStep \/ UNCHANGED outcomeVars
<1> SUFFICES ASSUME [Next]_vars, ~OutcomeStep PROVE UNCHANGED outcomeVars
  OBVIOUS
<1>1. ASSUME NEW t \in Tasks, Submission(t) PROVE UNCHANGED outcomeVars
  <2>1. ~CreateTask(t) /\ ~RejectClosed(t)
    BY DEF OutcomeStep
  <2> QED
    BY <1>1, <2>1 DEF outcomeVars, Submission, BeginSpawn, DenySpawn,
       TakeActive, RejectAtLimit, Register, RejectClosing, Build, BuildPanic,
       InstallRun, RefuseInstall, AfterInstall, HeaderOverflow, ReserveQueue,
       RejectAtQueueLimit, Send, CountAccepted, RejectQueued, YieldRejection,
       AfterReject, DropConstructor, Settle, Leave, LeaveDenied
<1>2. ASSUME NEW t \in Tasks, Execution(t) PROVE UNCHANGED outcomeVars
  <2>1. /\ ~ClaimRun(t)
        /\ ~SetStatus(t, "Running", "Waiting") /\ ~SetStatus(t, "Waiting", "Running")
    BY DEF OutcomeStep, Waits
  <2> QED
    BY <1>2, <2>1 DEF outcomeVars, Execution, ReturnCredit, ClaimNothing,
       RefuseExecution, YieldRefusal, FinishBody, AfterComplete,
       FinishTaskJob
<1>3. ASSUME NEW t \in Tasks, Ownership(t) PROVE UNCHANGED outcomeVars
  <2>1. /\ ~CancelHandle(t) /\ ~OwnerCancel(t) /\ ~AwaitResult(t)
        /\ ~ReleaseOwner(t) /\ ~RememberDeadline(t)
    BY DEF OutcomeStep
  <2> QED
    BY <1>3, <2>1 DEF outcomeVars, Ownership, DropResult, AfterOwnerCancel,
       PublishOwner, DrainOwnerResult
<1>4. ASSUME NEW t \in Tasks, NEW r \in Roles, Completion(t, r)
      PROVE  UNCHANGED outcomeVars
  <2>1. ~Publish(t, r)
    BY DEF OutcomeStep
  <2> QED
    BY <1>4, <2>1 DEF outcomeVars, Completion, DestroyFrame, Discard,
       ClaimAccounting, Unregister, ReleaseActive, CountFinished, AckAccounting
<1>5. ASSUME Dequeue \/ RetirePrefix \/ CachePrefix PROVE UNCHANGED outcomeVars
  BY <1>5 DEF outcomeVars, Dequeue, RetirePrefix, CachePrefix
<1>6. ASSUME Shutdown PROVE UNCHANGED outcomeVars
  <2>1. \A t \in Tasks : ~CancelSnapshot(t)
    BY DEF OutcomeStep
  <2> QED
    BY <1>6, <2>1 DEF outcomeVars, Shutdown, BeginShutdown, SetClosing,
       CloseGate, Snapshot, EndCancelAll, PollProducers, PollActive, Expire
<1>7. CASE UNCHANGED vars
  BY <1>7 DEF vars
<1> QED BY <1>1, <1>2, <1>3, <1>4, <1>5, <1>6, <1>7 DEF Next

\* No step replaces an outcome, and a step that stores one finds the task
\* without an outcome and its owner present.
LEMMA OutcomeFinalStep ==
    ASSUME TypeOK, FrameInv, [Next]_vars, NEW u \in Tasks
    PROVE  /\ Terminal(u) => status'[u] = status[u]
           /\ result'[u] /\ ~result[u] => ~Terminal(u) /\ ~OwnerReleased(u)
<1> USE DEF Terminal, TerminalStatuses
<1>t. /\ status \in [Tasks -> Statuses] /\ result \in [Tasks -> BOOLEAN]
  BY DEF TypeOK
<1>1. ASSUME NEW t \in Tasks, CreateTask(t) \/ RejectClosed(t)
      PROVE  (Terminal(u) => status'[u] = status[u]) /\ result' = result
  <2>1. ~Terminal(t)
    BY <1>1 DEF CreateTask, RejectClosed, SpawnStep, FrameInv, FramePlace,
       CompletionOnce, Idle, BeforeInstall
  <2> QED BY <1>1, <1>t, <2>1 DEF CreateTask, RejectClosed
<1>2. ASSUME NEW t \in Tasks, ClaimRun(t)
      PROVE  (Terminal(u) => status'[u] = status[u]) /\ result' = result
  BY <1>2, <1>t DEF ClaimRun, CanClaim
<1>3. ASSUME NEW t \in Tasks, NEW from \in Waits, NEW to \in Waits, SetStatus(t, from, to)
      PROVE  (Terminal(u) => status'[u] = status[u]) /\ result' = result
  BY <1>3, <1>t DEF SetStatus, Waits
<1>4. ASSUME NEW t \in Tasks, NEW r \in Roles, Publish(t, r)
      PROVE  /\ Terminal(u) => status'[u] = status[u]
             /\ result'[u] /\ ~result[u] => ~Terminal(u) /\ ~OwnerReleased(u)
  <2>1. Terminal(u) => status'[u] = status[u]
    BY <1>4, <1>t DEF Publish, Commit, CanPublish
  <2>2. result'[u] /\ ~result[u] => u = t /\ CanPublish(t) /\ ~OwnerReleased(t)
    BY <1>4, <1>t DEF Publish, Commit
  <2> QED BY <2>1, <2>2 DEF CanPublish
<1>5. ASSUME NEW t \in Tasks, NEW why \in Reasons, NEW d \in Deadlines,
             RequestCancel(t, why, d)
      PROVE  Terminal(u) => status'[u] = status[u]
  BY <1>5, <1>t DEF RequestCancel, CanCancel
<1>6. ASSUME NEW t \in Tasks, CancelHandle(t) \/ OwnerCancel(t) \/ CancelSnapshot(t)
      PROVE  (Terminal(u) => status'[u] = status[u]) /\ result' = result
  <2>1. \E why \in Reasons, d \in Deadlines : RequestCancel(t, why, d)
    BY <1>6 DEF CancelHandle, OwnerCancel, CancelSnapshot, Reasons
  <2>2. result' = result
    BY <1>6 DEF CancelHandle, OwnerCancel, CancelSnapshot
  <2> QED BY <1>5, <2>1, <2>2
<1>7. ASSUME NEW t \in Tasks, AwaitResult(t) \/ ReleaseOwner(t) \/ RememberDeadline(t)
      PROVE  status' = status /\ (result'[u] => result[u])
  BY <1>7, <1>t DEF AwaitResult, ReleaseOwner, RememberDeadline
<1>8. CASE UNCHANGED outcomeVars
  BY <1>8 DEF outcomeVars
<1> QED BY <1>1, <1>2, <1>3, <1>4, <1>6, <1>7, <1>8, OutcomeSteps DEF OutcomeStep

\* An outcome is final: a consuming await empties the slot, but the status keeps
\* late completions and cancellations out.
THEOREM OutcomeFinality == Spec => OutcomeFinal
<1>1. TypeOK /\ FrameInv /\ [Next]_vars =>
        [\A t \in Tasks :
           /\ Terminal(t) => status'[t] = status[t]
           /\ result'[t] /\ ~result[t] => ~Terminal(t) /\ ~OwnerReleased(t)]_vars
  BY OutcomeFinalStep
<1> QED BY <1>1, Invariance, PTL DEF Spec, HungSpec, OutcomeFinal

\* No step replaces a cause or extends a cleanup deadline.
LEMMA FirstCauseStep ==
    ASSUME TypeOK, [Next]_vars, NEW u \in Tasks, CancelledTask(u)
    PROVE  reason'[u] = reason[u] /\ cleanup_deadline'[u] <= cleanup_deadline[u]
<1>t. /\ reason \in [Tasks -> Reasons \cup {"none"}] /\ Deadlines \subseteq Nat
      /\ cleanup_deadline \in [Tasks -> Nat]
  BY DeadlinesAssumption DEF TypeOK
<1> USE <1>t DEF CancelledTask, Min2
<1>1. ASSUME NEW t \in Tasks, NEW r \in Roles, Publish(t, r)
      PROVE  reason'[u] = reason[u] /\ cleanup_deadline'[u] <= cleanup_deadline[u]
  <2>1. reason'[u] = reason[u]
    BY <1>1 DEF Publish, Commit
  <2>2. PICK incoming \in Terminations(r), d \in Deadlines :
          cleanup_deadline' = [cleanup_deadline EXCEPT ![t] = Commit(t, @,
             IF incoming = "none" THEN @
             ELSE IF CancelledTask(t) THEN Min2(@, d) ELSE d)]
    BY <1>1 DEF Publish
  <2>3. cleanup_deadline'[u] <= cleanup_deadline[u]
    BY <2>2 DEF Commit
  <2> QED BY <2>1, <2>3
<1>2. ASSUME NEW t \in Tasks, NEW why \in Reasons, NEW d \in Deadlines,
             RequestCancel(t, why, d)
      PROVE  reason'[u] = reason[u] /\ cleanup_deadline'[u] <= cleanup_deadline[u]
  <2>1. reason'[u] = reason[u]
    BY <1>2 DEF RequestCancel, ReasonAfter
  <2>2. cleanup_deadline'[u] <= cleanup_deadline[u]
    BY <1>2 DEF RequestCancel
  <2> QED BY <2>1, <2>2
<1>3. ASSUME NEW t \in Tasks, CancelHandle(t) \/ OwnerCancel(t) \/ CancelSnapshot(t)
      PROVE  reason'[u] = reason[u] /\ cleanup_deadline'[u] <= cleanup_deadline[u]
  <2>1. \E why \in Reasons, d \in Deadlines : RequestCancel(t, why, d)
    BY <1>3 DEF CancelHandle, OwnerCancel, CancelSnapshot, Reasons
  <2> QED BY <1>2, <2>1
<1>4. ASSUME NEW t \in Tasks, RememberDeadline(t)
      PROVE  reason'[u] = reason[u] /\ cleanup_deadline'[u] <= cleanup_deadline[u]
  BY <1>4 DEF RememberDeadline
<1>5. ASSUME NEW t \in Tasks,
             CreateTask(t) \/ RejectClosed(t) \/ ClaimRun(t)
               \/ AwaitResult(t) \/ ReleaseOwner(t)
      PROVE  UNCHANGED <<reason, cleanup_deadline>>
  BY <1>5 DEF CreateTask, RejectClosed, ClaimRun, AwaitResult, ReleaseOwner
<1>6. ASSUME NEW t \in Tasks, NEW from \in Waits, NEW to \in Waits, SetStatus(t, from, to)
      PROVE  UNCHANGED <<reason, cleanup_deadline>>
  BY <1>6 DEF SetStatus
<1>7. ASSUME UNCHANGED <<reason, cleanup_deadline>>
      PROVE  reason'[u] = reason[u] /\ cleanup_deadline'[u] <= cleanup_deadline[u]
  BY <1>7
<1>8. CASE UNCHANGED outcomeVars
  BY <1>7, <1>8 DEF outcomeVars
<1> HIDE DEF CancelledTask
<1> QED BY <1>1, <1>3, <1>4, <1>5, <1>6, <1>7, <1>8, OutcomeSteps DEF OutcomeStep

\* Whoever cancels first decides the reason, and every later request or cleanup
\* feedback can only shorten the deadline.
THEOREM FirstCause == Spec => FirstCauseWins
<1>1. TypeOK /\ [Next]_vars =>
        [\A t \in Tasks : CancelledTask(t) =>
           /\ reason'[t] = reason[t]
           /\ cleanup_deadline'[t] <= cleanup_deadline[t]]_vars
  BY FirstCauseStep
<1> QED BY <1>1, TypeCorrect, PTL DEF Spec, HungSpec, FirstCauseWins

-----------------------------------------------------------------------------
(* Where a submission, its accounting and its owner are                     *)

\* The task is not registered yet.
Early == {"none", "admit", "limit", "register"}

\* Labels of a submission that owns a unit of active_tasks.
Admitting == {"register", "build", "install", "installing", "reserve", "send"}

\* The queue has, or had, a node of the task.
Handed(t) == spawn[t] \in {"sent", "accepted"} \/ submission[t] = "Accepted"

\* The accounting has not removed the task from the registry.
Unaccounted(t) == accounting[t] \in {"open", "claimed"}

\* What each stage of spawn_start_deferred says about the rest.
SubmissionPlace(t) ==
    /\ owner[t] # "none" => spawn[t] = "returned"
    /\ spawn[t] \in Early => reason[t] = "none"
    /\ spawn[t] = "none" => ~admitted[t]
    /\ submission[t] # "Pending" => spawn[t] \in {"leave", "returned"}
    /\ status[t] = "Absent" =>
          spawn[t] \in {"none", "admit", "leave", "refused"} /\ submission[t] = "Pending"
    /\ body[t] # "none" \/ Queued(t) => Handed(t)
    /\ spawn[t] \in Admitting \cup {"limit", "sent", "accepted", "reject"} => admitted[t]
    /\ t \in todo => spawn[t] \notin Early
    /\ t \in states <=>
          \/ spawn[t] \in Admitting \ {"register"}
          \/ Handed(t) /\ Unaccounted(t)

\* Who can have the frame or be destroying it, and where its thread is.
HolderPlace(t) ==
    /\ "slot" \in frame[t] => spawn[t] \in {"reserve", "send", "reject"} \/ Handed(t)
    /\ comp[t]["body"] # "idle" => body[t] \in {"complete", "retire", "done"}
    /\ comp[t]["install"] = "destroy" => spawn[t] = "installing"
    /\ comp[t]["reject"] = "destroy" => spawn[t] = "rejecting" /\ admitted[t]
    /\ comp[t]["refuse"] = "destroy" => body[t] = "complete"
    /\ comp[t]["cancel"] = "destroy" =>
          Handed(t) \/ (shutdown = "cancelling" /\ waiting_for = t)

\* One role accounts, and only after the outcome, its cleanup and the node.
AccountingOnce(t) ==
    /\ \A r \in Roles : comp[t][r] = "count" => accounting[t] \notin {"open", "done"}
    /\ \A r, s \in Roles : comp[t][r] = "count" /\ comp[t][s] = "count" => r = s
    /\ accounting[t] # "open" => Terminal(t) /\ body[t] = "done"
    /\ Terminal(t) =>
          \E r \in Completers : comp[t][r] \notin {"idle", "destroy", "publish"}
    /\ OwnerReleased(t) => ~result[t]

LifeInv == \A t \in Tasks : SubmissionPlace(t) /\ HolderPlace(t) /\ AccountingOnce(t)

-----------------------------------------------------------------------------
(* Counters and shutdown                                                    *)

Started == {t \in Tasks : spawn[t] # "none"}
Admitted == {t \in Tasks : admitted[t]}
Residents == {t \in Tasks : Resident(t)}

\* Submissions and claimants that hold a queue credit without a queued node.
CreditHolders == {t \in Tasks : spawn[t] = "send" \/ body[t] = "dequeued"}

\* Submissions that were counted, but not yet as accepted or rejected.
Undecided == {t \in Tasks : spawn[t] \in Admitting \cup {"limit", "sent"}}

\* Submissions with a unit of active_tasks that are not counted as accepted.
Unaccepted == {t \in Tasks : spawn[t] \in Admitting \cup {"sent"}}

HeadCount == IF head = NoTask THEN 0 ELSE 1

\* A task owns a unit of active_tasks while it is registered, just before and
\* just after.
HasUnit(t) == t \in states \/ spawn[t] = "register" \/ accounting[t] = "unregistered"

CounterInv ==
    /\ IsFiniteSet(Started)
    /\ producer_count = Cardinality(Admitted)
    /\ active_tasks = Cardinality(Residents) /\ active_tasks <= MaxTasks
    /\ queued_tasks = Len(queue) + HeadCount + Cardinality(CreditHolders)
    /\ queued_tasks <= TaskQueueLimit
    /\ stats["total_submissions"] =
          stats["accepted_submissions"] + stats["rejected_task_limit"]
            + stats["rejected_task_queue"] + stats["rejected_task_internal"]
            + Cardinality(Undecided)
    /\ stats["accepted_submissions"] + Cardinality(Unaccepted) =
          stats["finished_tasks"] + active_tasks + Cardinality(InTransit)

\* Once the closed gate has been seen without producers, there are none; the
\* success of the shutdown means that no task is resident either.
ShutdownInv ==
    /\ shutdown \in {"pollActive", "ok"} => Admitted = {}
    /\ shutdown = "ok" => Residents = {}

\* request_cancel_with keeps the stages in order: whoever takes the frame is an
\* owner of a handed task or the shutdown.
LEMMA RequestCancelLife ==
    ASSUME TypeOK, FrameInv, LifeInv, NEW t \in Tasks, NEW why \in Reasons,
           NEW d \in Deadlines, RequestCancel(t, why, d), spawn[t] \notin Early,
           UNCHANGED <<submission, spawn, admitted, body, result, queue, head, states,
                       accounting>>,
           \A u \in Tasks : owner'[u] # "none" => owner[u] # "none",
           \A u \in Tasks : OwnerReleased(u)' => OwnerReleased(u),
           todo' \subseteq todo,
           \A u \in Tasks : comp[u]["cancel"] = "destroy" =>
              Handed(u) \/ (shutdown' = "cancelling" /\ waiting_for' = u),
           WinsFrame(t) => Handed(t) \/ (shutdown' = "cancelling" /\ waiting_for' = t)
    PROVE  LifeInv'
<1>t. /\ status \in [Tasks -> Statuses] /\ result \in [Tasks -> BOOLEAN]
      /\ reason \in [Tasks -> Reasons \cup {"none"}]
      /\ frame \in [Tasks -> SUBSET Holders]
      /\ comp \in [Tasks -> [Roles -> CompletionLabels]]
  BY DEF TypeOK
<1>1. /\ \A u \in Tasks : Terminal(u)' = Terminal(u)
      /\ \A u \in Tasks : status'[u] = "Absent" => status[u] = "Absent"
  BY <1>t DEF RequestCancel, Terminal, TerminalStatuses, CanCancel
<1>2. \A u \in Tasks : u # t => reason'[u] = reason[u]
  BY <1>t DEF RequestCancel
<1>3. \A u \in Tasks : "slot" \in frame'[u] => "slot" \in frame[u]
  BY <1>t DEF RequestCancel, Move
<1>4. /\ \A u \in Tasks, r \in Roles :
            comp'[u][r] = comp[u][r] \/ (u = t /\ r = "cancel" /\ WinsFrame(t))
      /\ \A u \in Tasks, r \in Roles :
            comp'[u][r] = comp[u][r] \/ (comp[u][r] = "idle" /\ comp'[u][r] = "destroy")
  <2>1. CASE WinsFrame(t)
    <3>1. comp' = [comp EXCEPT ![t]["cancel"] = "destroy"]
      BY <2>1 DEF RequestCancel, Goto
    <3>2. comp[t]["cancel"] = "idle"
      BY <2>1 DEF WinsFrame, FrameInv, FramePlace, Idle, Completers
    <3> QED BY <1>t, <2>1, <3>1, <3>2 DEF Roles, Completers
  <2>2. CASE ~WinsFrame(t)
    BY <2>2 DEF RequestCancel
  <2> QED BY <2>1, <2>2
<1>5. ASSUME NEW u \in Tasks PROVE SubmissionPlace(u)'
  <2>1. SubmissionPlace(u)
    BY DEF LifeInv
  <2>2. Unaccounted(u)' = Unaccounted(u)
    BY DEF Unaccounted
  <2>3. Queued(u)' = Queued(u) /\ Handed(u)' = Handed(u)
    BY DEF Queued, Handed
  <2> QED BY <1>1, <1>2, <2>1, <2>2, <2>3 DEF SubmissionPlace
<1>6. ASSUME NEW u \in Tasks PROVE HolderPlace(u)'
  <2>1. HolderPlace(u)
    BY DEF LifeInv
  <2>2. Handed(u)' = Handed(u)
    BY DEF Handed
  <2> QED BY <1>3, <1>4, <2>1, <2>2 DEF HolderPlace, Roles, Completers
<1>7. ASSUME NEW u \in Tasks PROVE AccountingOnce(u)'
  <2>1. AccountingOnce(u)
    BY DEF LifeInv
  <2>2. \A r \in Completers : r \in Roles
    BY DEF Roles
  <2> QED BY <1>1, <1>4, <2>1, <2>2 DEF AccountingOnce
<1> QED BY <1>5, <1>6, <1>7 DEF LifeInv

\* Taking the only frame of a task out of its place.
LEMMA MoveOnly ==
    ASSUME TypeOK, NEW t \in Tasks, NEW a, NEW b, frame[t] = {a}
    PROVE  Move(t, a, b) = [frame EXCEPT ![t] = {b}]
<1>1. (IF a \in frame[t] THEN (frame[t] \ {a}) \cup {b} ELSE frame[t]) = {b}
  OBVIOUS
<1> QED BY <1>1 DEF Move, TypeOK

\* Every step keeps the stages of submissions, holders and accounting in order.
LEMMA LifeStep == TypeOK /\ FrameInv /\ LifeInv /\ [Next]_vars => LifeInv'
<1> SUFFICES ASSUME TypeOK, FrameInv, LifeInv, [Next]_vars PROVE LifeInv'
  OBVIOUS
<1>t. /\ status \in [Tasks -> Statuses] /\ result \in [Tasks -> BOOLEAN]
      /\ reason \in [Tasks -> Reasons \cup {"none"}]
      /\ submission \in [Tasks -> {"Pending", "Accepted", "ProducerRetired"}]
      /\ accounting \in [Tasks -> AccountingStages]
      /\ spawn \in [Tasks -> SpawnLabels] /\ frame \in [Tasks -> SUBSET Holders]
      /\ admitted \in [Tasks -> BOOLEAN] /\ body \in [Tasks -> BodyLabels]
      /\ comp \in [Tasks -> [Roles -> CompletionLabels]]
      /\ owner \in [Tasks -> OwnerLabels] /\ states \subseteq Tasks
      /\ queue \in Seq(Tasks) /\ head \in Tasks \cup {NoTask}
  BY DEF TypeOK
<1>f. \A t \in Tasks : FramePlace(t) /\ CompletionOnce(t) /\ NodePlace(t)
  BY DEF FrameInv
<1> USE <1>t, <1>f DEF LifeInv, SubmissionPlace, HolderPlace, AccountingOnce,
      Handed, Unaccounted, Early, Admitting, OwnerReleased, Queued, FramePlace,
      CompletionOnce, NodePlace, Idle, Terminal, TerminalStatuses,
      CancelledTask, BeforeInstall, BeforeSend, AfterSend, Completers, Roles,
      countVars, queueVars, outcomeVars, ackVars, ownerVars, controlVars,
      shutdownVars
<1>1. ASSUME NEW t \in Tasks, BeginSpawn(t) PROVE LifeInv'
  BY <1>1 DEF BeginSpawn, SpawnStep
<1>2. ASSUME NEW t \in Tasks, DenySpawn(t) PROVE LifeInv'
  BY <1>2 DEF DenySpawn, SpawnStep
<1>3. ASSUME NEW t \in Tasks, CreateTask(t) PROVE LifeInv'
  <2>1. accounting[t] = "open" /\ ~Terminal(t) /\ submission[t] = "Pending"
    BY <1>3 DEF CreateTask, SpawnStep
  <2>2. /\ \A u \in Tasks : Terminal(u)' = Terminal(u)
        /\ \A u \in Tasks : status'[u] = "Absent" => status[u] = "Absent" /\ u # t
    BY <1>3, <2>1 DEF CreateTask
  <2> HIDE DEF Terminal
  <2> QED BY <1>3, <2>1, <2>2 DEF CreateTask, SpawnStep, Rejecting
<1>4. ASSUME NEW t \in Tasks, RejectClosed(t) PROVE LifeInv'
  BY <1>4 DEF RejectClosed, SpawnStep, EarlyReject, Bump, Goto
<1>5. ASSUME NEW t \in Tasks, TakeActive(t) PROVE LifeInv'
  BY <1>5 DEF TakeActive, SpawnStep
<1>6. ASSUME NEW t \in Tasks, RejectAtLimit(t) PROVE LifeInv'
  BY <1>6 DEF RejectAtLimit, SpawnStep, EarlyReject, Bump, Goto
<1>7. ASSUME NEW t \in Tasks, Register(t) PROVE LifeInv'
  BY <1>7 DEF Register, SpawnStep
<1>8. ASSUME NEW t \in Tasks, RejectClosing(t) PROVE LifeInv'
  BY <1>8 DEF RejectClosing, SpawnStep, EarlyReject, Rollback, Bump, Goto
<1>9. ASSUME NEW t \in Tasks, Build(t) PROVE LifeInv'
  BY <1>9 DEF Build, SpawnStep
<1>10. ASSUME NEW t \in Tasks, BuildPanic(t) PROVE LifeInv'
  BY <1>10 DEF BuildPanic, SpawnStep, Rollback, EarlyReject, Bump, Goto
<1>11. ASSUME NEW t \in Tasks, InstallRun(t) PROVE LifeInv'
  BY <1>11 DEF InstallRun, SpawnStep, Move
<1>12. ASSUME NEW t \in Tasks, RefuseInstall(t) PROVE LifeInv'
  BY <1>12 DEF RefuseInstall, SpawnStep, Move, Goto
<1>13. ASSUME NEW t \in Tasks, AfterInstall(t) PROVE LifeInv'
  BY <1>13 DEF AfterInstall, SpawnStep
<1>14. ASSUME NEW t \in Tasks, HeaderOverflow(t) PROVE LifeInv'
  BY <1>14 DEF HeaderOverflow, SpawnStep, Rollback, Bump
<1>15. ASSUME NEW t \in Tasks, ReserveQueue(t) PROVE LifeInv'
  BY <1>15 DEF ReserveQueue, SpawnStep
<1>16. ASSUME NEW t \in Tasks, RejectAtQueueLimit(t) PROVE LifeInv'
  BY <1>16 DEF RejectAtQueueLimit, SpawnStep, Rollback, Bump
<1>17. ASSUME NEW t \in Tasks, Send(t) PROVE LifeInv'
  <2>1. spawn[t] = "send" /\ body[t] = "none"
    BY <1>17 DEF Send, SpawnStep
  <2>2. accounting[t] = "open" /\ Unaccounted(t)
    BY <2>1
  <2>3. \A u \in Tasks : Queued(u)' => Queued(u) \/ u = t
    BY <1>17 DEF Send
  <2> HIDE DEF Queued
  <2> QED BY <1>17, <2>1, <2>2, <2>3 DEF Send, SpawnStep
<1>18. ASSUME NEW t \in Tasks, CountAccepted(t) PROVE LifeInv'
  BY <1>18 DEF CountAccepted, SpawnStep, Bump
<1>19. ASSUME NEW t \in Tasks, RejectQueued(t) PROVE LifeInv'
  <2>1. Idle(t) /\ frame[t] = {"slot"} /\ body[t] = "none"
    BY <1>19 DEF RejectQueued, SpawnStep, CancellationOwnsCompletion
  <2>2. frame' = [frame EXCEPT ![t] = {"reject"}]
    <3>1. frame' = Move(t, "slot", "reject")
      BY <1>19 DEF RejectQueued
    <3> QED BY <2>1, <3>1, MoveOnly
  <2>3. comp' = [comp EXCEPT ![t]["reject"] = "destroy"]
    BY <1>19 DEF RejectQueued, Goto
  <2>4. \A u \in Tasks : Unaccounted(u)' = Unaccounted(u)
    BY <1>19 DEF RejectQueued
  <2>5. /\ spawn[t] = "reject" /\ admitted[t] /\ spawn' = [spawn EXCEPT ![t] = "rejecting"]
        /\ UNCHANGED <<countVars, queueVars, outcomeVars, ackVars, admitted, body,
                       ownerVars, shutdownVars>>
    BY <1>19 DEF RejectQueued, SpawnStep
  <2>6. ~Handed(t) /\ ~Terminal(t) /\ accounting[t] = "open"
    <3>1. submission[t] = "Pending"
      BY <2>5
    <3>2. ~Terminal(t)
      BY <2>1
    <3> QED BY <2>5, <3>1, <3>2
  <2> HIDE DEF Unaccounted, Queued, Terminal
  <2>7. ASSUME NEW u \in Tasks PROVE SubmissionPlace(u)'
    BY <2>4, <2>5, <2>6 DEF Queued
  <2>8. ASSUME NEW u \in Tasks PROVE HolderPlace(u)'
    BY <2>1, <2>2, <2>3, <2>5, <2>6
  <2>9. ASSUME NEW u \in Tasks PROVE AccountingOnce(u)'
    BY <2>1, <2>3, <2>5, <2>6 DEF Terminal
  <2> QED BY <2>7, <2>8, <2>9
<1>20. ASSUME NEW t \in Tasks, YieldRejection(t) PROVE LifeInv'
  BY <1>20 DEF YieldRejection, SpawnStep, CancellationOwnsCompletion
<1>21. ASSUME NEW t \in Tasks, AfterReject(t) PROVE LifeInv'
  BY <1>21 DEF AfterReject, SpawnStep
<1>22. ASSUME NEW t \in Tasks, DropConstructor(t) PROVE LifeInv'
  BY <1>22 DEF DropConstructor
<1>23. ASSUME NEW t \in Tasks, Settle(t) PROVE LifeInv'
  BY <1>23 DEF Settle
<1>24. ASSUME NEW t \in Tasks, Leave(t) PROVE LifeInv'
  BY <1>24 DEF Leave, SpawnStep, EndAdmission
<1>25. ASSUME NEW t \in Tasks, LeaveDenied(t) PROVE LifeInv'
  BY <1>25 DEF LeaveDenied, SpawnStep, EndAdmission
<1>26. ASSUME NEW t \in Tasks, ReturnCredit(t) PROVE LifeInv'
  BY <1>26 DEF ReturnCredit
<1>27. ASSUME NEW t \in Tasks, ClaimRun(t) PROVE LifeInv'
  BY <1>27 DEF ClaimRun, Move
<1>28. ASSUME NEW t \in Tasks, ClaimNothing(t) PROVE LifeInv'
  BY <1>28 DEF ClaimNothing
<1>29. ASSUME NEW t \in Tasks, RefuseExecution(t) PROVE LifeInv'
  <2>1. Idle(t) /\ frame[t] = {"slot"} /\ accounting[t] = "open"
    BY <1>29 DEF RefuseExecution, CancellationOwnsCompletion
  <2>2. frame' = [frame EXCEPT ![t] = {"refuse"}]
    <3>1. frame' = Move(t, "slot", "refuse")
      BY <1>29 DEF RefuseExecution
    <3> QED BY <2>1, <3>1, MoveOnly, SMTT(30)
  <2>3. comp' = [comp EXCEPT ![t]["refuse"] = "destroy"]
    BY <1>29 DEF RefuseExecution, Goto
  <2>4. \A u \in Tasks : Unaccounted(u)' = Unaccounted(u)
    BY <1>29 DEF RefuseExecution
  <2> HIDE DEF Unaccounted
  <2> QED BY <1>29, <2>1, <2>2, <2>3, <2>4 DEF RefuseExecution
<1>30. ASSUME NEW t \in Tasks, YieldRefusal(t) PROVE LifeInv'
  BY <1>30 DEF YieldRefusal, CancellationOwnsCompletion
<1>31. ASSUME NEW t \in Tasks, FinishBody(t) PROVE LifeInv'
  BY <1>31 DEF FinishBody, Goto
<1>32. ASSUME NEW t \in Tasks, AfterComplete(t) PROVE LifeInv'
  BY <1>32 DEF AfterComplete
<1>33. ASSUME NEW t \in Tasks, FinishTaskJob(t) PROVE LifeInv'
  BY <1>33 DEF FinishTaskJob, Goto
<1>34. ASSUME NEW t \in Tasks, CancelHandle(t) PROVE LifeInv'
  <2> PICK why \in Reasons, d \in Deadlines : RequestCancel(t, why, d)
    BY <1>34 DEF CancelHandle
  <2>1. /\ UNCHANGED <<submission, spawn, admitted, body, result, queue, head, states,
                       accounting, shutdown, waiting_for, todo>>
        /\ owner[t] # "none"
        /\ \A u \in Tasks : owner'[u] # "none" => owner[u] # "none"
        /\ \A u \in Tasks : OwnerReleased(u)' => OwnerReleased(u)
    BY <1>34 DEF CancelHandle
  <2>2. spawn[t] \notin Early /\ (WinsFrame(t) => Handed(t))
    BY <2>1, SMTT(30) DEF WinsFrame
  <2>3. \A u \in Tasks : comp[u]["cancel"] = "destroy" =>
           Handed(u) \/ (shutdown' = "cancelling" /\ waiting_for' = u)
    BY <2>1
  <2> HIDE DEF LifeInv, Handed, OwnerReleased, Early
  <2> QED BY <2>1, <2>2, <2>3, RequestCancelLife
<1>35. ASSUME NEW t \in Tasks, RememberDeadline(t) PROVE LifeInv'
  BY <1>35 DEF RememberDeadline, Min2
<1>36. ASSUME NEW t \in Tasks, AwaitResult(t) PROVE LifeInv'
  BY <1>36 DEF AwaitResult
<1>37. ASSUME NEW t \in Tasks, ReleaseOwner(t) PROVE LifeInv'
  BY <1>37 DEF ReleaseOwner
<1>38. ASSUME NEW t \in Tasks, DropResult(t) PROVE LifeInv'
  BY <1>38 DEF DropResult
<1>39. ASSUME NEW t \in Tasks, OwnerCancel(t) PROVE LifeInv'
  <2> PICK why \in Reasons, d \in Deadlines : RequestCancel(t, why, d)
    BY <1>39 DEF OwnerCancel
  <2>1. /\ UNCHANGED <<submission, spawn, admitted, body, result, queue, head, states,
                       accounting, shutdown, waiting_for, todo>>
        /\ owner[t] # "none"
        /\ \A u \in Tasks : owner'[u] # "none" => owner[u] # "none"
        /\ \A u \in Tasks : OwnerReleased(u)' => OwnerReleased(u)
    BY <1>39 DEF OwnerCancel, AfterOwnerRequest
  <2>2. spawn[t] \notin Early /\ (WinsFrame(t) => Handed(t))
    BY <2>1, SMTT(60) DEF WinsFrame
  <2>3. \A u \in Tasks : comp[u]["cancel"] = "destroy" =>
           Handed(u) \/ (shutdown' = "cancelling" /\ waiting_for' = u)
    BY <2>1
  <2> HIDE DEF LifeInv, Handed, OwnerReleased, Early
  <2> QED BY <2>1, <2>2, <2>3, RequestCancelLife
<1>40. ASSUME NEW t \in Tasks, AfterOwnerCancel(t) PROVE LifeInv'
  BY <1>40 DEF AfterOwnerCancel
<1>41. ASSUME NEW t \in Tasks, PublishOwner(t) PROVE LifeInv'
  BY <1>41 DEF PublishOwner
<1>42. ASSUME NEW t \in Tasks, DrainOwnerResult(t) PROVE LifeInv'
  BY <1>42 DEF DrainOwnerResult
<1>43. ASSUME NEW t \in Tasks, CancelSnapshot(t) PROVE LifeInv'
  <2> PICK d \in Deadlines : RequestCancel(t, "Cancelled", d)
    BY <1>43 DEF CancelSnapshot
  <2>1. /\ UNCHANGED <<submission, spawn, admitted, body, result, queue, head, states,
                       accounting, owner, shutdown>>
        /\ shutdown = "cancelling" /\ todo' \subseteq todo /\ spawn[t] \notin Early
        /\ WinsFrame(t) => waiting_for' = t
        /\ \A u \in Tasks : owner'[u] # "none" => owner[u] # "none"
    BY <1>43 DEF CancelSnapshot
  <2>2. \A u \in Tasks : comp[u]["cancel"] = "destroy" => Handed(u)
    BY <1>43, NoTaskAssumption DEF CancelSnapshot, ShutdownFree
  <2>3. /\ "Cancelled" \in Reasons
        /\ \A u \in Tasks : OwnerReleased(u)' => OwnerReleased(u)
    BY <2>1 DEF Reasons
  <2> HIDE DEF LifeInv, Handed, OwnerReleased, Early
  <2> QED BY <2>1, <2>2, <2>3, RequestCancelLife, SMTT(30)
<1>44. ASSUME NEW t \in Tasks, NEW from \in Waits, NEW to \in Waits,
             SetStatus(t, from, to)
       PROVE LifeInv'
  <2>1. \A u \in Tasks : Terminal(u)' = Terminal(u) /\ (status'[u] = "Absent" => status[u] = "Absent")
    BY <1>44 DEF SetStatus, Waits
  <2> HIDE DEF Terminal
  <2> QED BY <1>44, <2>1 DEF SetStatus
<1>45. ASSUME NEW t \in Tasks, NEW r \in Roles, DestroyFrame(t, r) PROVE LifeInv'
  BY <1>45, SMTT(30) DEF DestroyFrame, Goto
<1>46. ASSUME NEW t \in Tasks, NEW r \in Roles, Publish(t, r) PROVE LifeInv'
  <2>1. r \in Completers /\ ~Terminal(t)
    <3>1. comp[t][r] = "publish"
      BY <1>46 DEF Publish
    <3>2. r \in Completers
      BY <3>1
    <3> QED BY <3>1, <3>2, SMTT(30)
  <2>2. comp' = [comp EXCEPT ![t][r] = IF CanPublish(t) THEN "discard" ELSE "lost"]
    BY <1>46 DEF Publish, Goto
  <2>3. UNCHANGED <<submission, spawn, admitted, frame, body, queue, head, states, todo,
                    accounting, owner, shutdown, waiting_for>>
    BY <1>46 DEF Publish
  <2>4. /\ \A u \in Tasks \ {t} : /\ Terminal(u)' = Terminal(u)
                                  /\ result'[u] = result[u] /\ reason'[u] = reason[u]
                                  /\ status'[u] = status[u]
        /\ OwnerReleased(t) /\ ~result[t] => ~result'[t]
        /\ status'[t] = "Absent" => status[t] = "Absent"
    BY <1>46 DEF Publish, Commit, Outcomes, TerminationStatus
  <2>5. \A u \in Tasks : Unaccounted(u)' = Unaccounted(u)
    BY <2>3
  <2>6. spawn[t] \notin Early
    BY <1>46, <2>1 DEF Publish
  <2> HIDE DEF Terminal, Unaccounted, Queued
  <2> QED BY <1>46, <2>1, <2>2, <2>3, <2>4, <2>5, <2>6 DEF Publish, Queued
<1>47. ASSUME NEW t \in Tasks, NEW r \in Roles, Discard(t, r) PROVE LifeInv'
  BY <1>47, SMTT(30) DEF Discard, Goto
<1>48. ASSUME NEW t \in Tasks, NEW r \in Roles, ClaimAccounting(t, r) PROVE LifeInv'
  BY <1>48 DEF ClaimAccounting, Goto, CanAccount, ExecutionQueueRetired
<1>49. ASSUME NEW t \in Tasks, NEW r \in Roles, CountFinished(t, r) PROVE LifeInv'
  BY <1>49 DEF CountFinished, Accounts
<1>63. ASSUME NEW t \in Tasks, NEW r \in Roles, Unregister(t, r) PROVE LifeInv'
  BY <1>63 DEF Unregister, Accounts
<1>64. ASSUME NEW t \in Tasks, NEW r \in Roles, ReleaseActive(t, r) PROVE LifeInv'
  BY <1>64 DEF ReleaseActive, Accounts
<1>50. ASSUME NEW t \in Tasks, NEW r \in Roles, AckAccounting(t, r) PROVE LifeInv'
  BY <1>50 DEF AckAccounting, Accounts, Goto
<1>51. ASSUME Dequeue PROVE LifeInv'
  <2>1. /\ NextJob \in Tasks /\ Queued(NextJob)
        /\ \A u \in Tasks : Queued(u)' => Queued(u) /\ u # NextJob
    BY <1>51, TakeJobQueue DEF Dequeue, FrameInv
  <2>2. /\ body[NextJob] = "none" /\ comp[NextJob]["body"] = "idle"
        /\ comp[NextJob]["refuse"] # "destroy" /\ accounting[NextJob] = "open"
    BY <2>1 DEF FrameInv, NodePlace
  <2> HIDE DEF Queued, NextJob
  <2> QED BY <1>51, <2>1, <2>2 DEF Dequeue
<1>52. ASSUME RetirePrefix PROVE LifeInv'
  <2>1. /\ NextJob \in Tasks /\ Queued(NextJob)
        /\ \A u \in Tasks : Queued(u)' => Queued(u) /\ u # NextJob
    BY <1>52, TakeJobQueue DEF RetirePrefix, FrameInv
  <2>2. /\ body[NextJob] = "none" /\ comp[NextJob]["body"] = "idle"
        /\ comp[NextJob]["refuse"] # "destroy" /\ accounting[NextJob] = "open"
    BY <2>1 DEF FrameInv, NodePlace
  <2> HIDE DEF Queued, NextJob
  <2> QED BY <1>52, <2>1, <2>2 DEF RetirePrefix
<1>53. ASSUME CachePrefix PROVE LifeInv'
  <2>1. \A u \in Tasks : Queued(u)' => Queued(u)
    BY <1>53 DEF CachePrefix, NextJob, Queued
  <2> HIDE DEF Queued
  <2> QED BY <1>53, <2>1 DEF CachePrefix
<1>54. ASSUME BeginShutdown PROVE LifeInv'
  BY <1>54 DEF BeginShutdown, ShutdownStep
<1>55. ASSUME SetClosing PROVE LifeInv'
  BY <1>55 DEF SetClosing, ShutdownStep
<1>56. ASSUME CloseGate PROVE LifeInv'
  BY <1>56 DEF CloseGate, ShutdownStep
<1>57. ASSUME Snapshot PROVE LifeInv'
  BY <1>57 DEF Snapshot, ShutdownStep
<1>58. ASSUME EndCancelAll PROVE LifeInv'
  BY <1>58, NoTaskAssumption DEF EndCancelAll, ShutdownStep, ShutdownFree
<1>59. ASSUME PollProducers PROVE LifeInv'
  BY <1>59 DEF PollProducers, StillOutstanding, AfterOutstanding
<1>60. ASSUME PollActive PROVE LifeInv'
  BY <1>60 DEF PollActive, StillOutstanding, AfterOutstanding
<1>61. ASSUME Expire PROVE LifeInv'
  BY <1>61 DEF Expire
<1>62. CASE UNCHANGED vars
  BY <1>62 DEF vars
<1> HIDE DEF LifeInv, SubmissionPlace, HolderPlace, AccountingOnce, Queued,
      FramePlace, CompletionOnce, NodePlace
<1> QED
  BY <1>1, <1>2, <1>3, <1>4, <1>5, <1>6, <1>7, <1>8, <1>9, <1>10, <1>11,
     <1>12, <1>13, <1>14, <1>15, <1>16, <1>17, <1>18, <1>19, <1>20, <1>21,
     <1>22, <1>23, <1>24, <1>25, <1>26, <1>27, <1>28, <1>29, <1>30, <1>31,
     <1>32, <1>33, <1>34, <1>35, <1>36, <1>37, <1>38, <1>39, <1>40, <1>41,
     <1>42, <1>43, <1>44, <1>45, <1>46, <1>47, <1>48, <1>49, <1>50, <1>51,
     <1>52, <1>53, <1>54, <1>55, <1>56, <1>57, <1>58, <1>59, <1>60, <1>61,
     <1>62, <1>63, <1>64 DEF Next, Submission, Execution, Ownership, Completion, Shutdown,
     Waits

\* No task has entered any stage initially.
LEMMA LifeInit == Init => LifeInv
BY NoTaskAssumption DEF Init, LifeInv, SubmissionPlace, HolderPlace, AccountingOnce, Handed,
   Unaccounted, Early, Admitting, OwnerReleased, Queued, Terminal,
   TerminalStatuses, Completers, Roles

\* The three parts of the inductive invariant hold together.
LEMMA LifeInvariance == Spec => [](TypeOK /\ FrameInv /\ LifeInv)
BY LifeInit, LifeStep, Invariance, PTL DEF Spec, HungSpec

\* A positive witness of a terminal task leaves nothing of it behind: an owner
\* that is done has returned from its submission, a retired producer never
\* handed the task to the queue, and a finished accounting is the last step of
\* the task.
LEMMA WitnessLeavesNothing ==
    ASSUME TypeOK, FrameInv, LifeInv, NEW t \in Tasks, WitnessRetired(t), Terminal(t)
    PROVE  /\ frame[t] = {} /\ ~result[t]
           /\ body[t] \in {"none", "done"}
           /\ t # head /\ \A i \in DOMAIN queue : queue[i] # t
           /\ t \notin states /\ ~Resident(t)
           /\ \A r \in Roles : comp[t][r] \notin {"destroy", "publish", "count"}
<1>1. /\ SubmissionPlace(t) /\ HolderPlace(t) /\ AccountingOnce(t)
      /\ CompletionOnce(t) /\ NodePlace(t)
  BY DEF LifeInv, FrameInv
<1>2. owner[t] = "done" /\ spawn[t] = "returned" /\ ~result[t]
  BY <1>1 DEF WitnessRetired, OwnerCleanupDone, OwnerReleased, SubmissionPlace,
     AccountingOnce
<1>3. frame[t] = {}
  <2>1. PICK r \in Completers : comp[t][r] \notin {"idle", "destroy", "publish"}
    BY <1>1 DEF AccountingOnce
  <2> QED BY <1>2, <2>1, TerminalFrame
<1>4. \A r \in Roles : comp[t][r] \notin {"destroy", "publish"}
  <2>1. PICK r \in Completers : comp[t][r] \notin {"idle", "destroy", "publish"}
    BY <1>1 DEF AccountingOnce
  <2>2. \A s \in Completers : comp[t][s] # "idle" => s = r
    BY <1>1, <2>1 DEF CompletionOnce
  <2> QED BY <1>1, <2>1, <2>2 DEF CompletionOnce, Roles
<1>5. \/ submission[t] = "ProducerRetired"
      \/ /\ submission[t] = "Accepted" /\ body[t] = "done" /\ accounting[t] = "done"
  BY DEF WitnessRetired, ExecutionQueueRetired
<1>6. \A r \in Roles : comp[t][r] # "count"
  BY <1>1, <1>2, <1>5 DEF AccountingOnce, SubmissionPlace, Handed
<1>7. body[t] \in {"none", "done"} /\ ~Queued(t)
  BY <1>1, <1>2, <1>5 DEF SubmissionPlace, NodePlace, Handed
<1>8. t \notin states /\ ~Resident(t)
  BY <1>1, <1>2, <1>5 DEF SubmissionPlace, Handed, Admitting, Resident, Unaccounted, Released
<1>9. t # head /\ \A i \in DOMAIN queue : queue[i] # t
  BY <1>7 DEF Queued, TypeOK
<1> QED BY <1>2, <1>3, <1>4, <1>6, <1>7, <1>8, <1>9

\* The retirement witness a scope exit waits for is sound, whichever of the
\* completing, the retiring and the releasing thread comes last.
THEOREM WitnessSafety == Spec => []WitnessSound
<1>1. TypeOK /\ FrameInv /\ LifeInv => WitnessSound
  BY WitnessLeavesNothing DEF WitnessSound
<1> QED BY <1>1, LifeInvariance, PTL

-----------------------------------------------------------------------------
(* The runtime implements TaskContract                                      *)

\* What the contract sees of one task.
IsCaptured(t) == frame[t] # {}
IsStarted(t)  == body[t] = "running" \/ comp[t]["body"] # "idle"
OutcomeOf(t)  == IF Terminal(t) THEN status[t] ELSE "none"
IsRetired(t)  == accounting[t] = "done"

SameCaptured(t) == IsCaptured(t)' <=> IsCaptured(t)
SameStarted(t)  == IsStarted(t)' <=> IsStarted(t)
SameCause(t)    == reason'[t] = reason[t]
SameOutcome(t)  == OutcomeOf(t)' = OutcomeOf(t)
SameRetired(t)  == IsRetired(t)' <=> IsRetired(t)

SameTask(t) ==
    SameCaptured(t) /\ SameStarted(t) /\ SameCause(t) /\ SameOutcome(t) /\ SameRetired(t)

\* The actions of the contract, in terms of one task of the runtime.
SubmitSeen(t) ==
    /\ ~IsCaptured(t) /\ OutcomeOf(t) = "none" /\ ~IsStarted(t) /\ reason[t] = "none"
    /\ IsCaptured(t)'
    /\ SameStarted(t) /\ SameCause(t) /\ SameOutcome(t) /\ SameRetired(t)

CancelSeen(t) ==
    /\ reason[t] = "none" /\ OutcomeOf(t) = "none" /\ reason'[t] \in Reasons
    /\ SameCaptured(t) /\ SameStarted(t) /\ SameOutcome(t) /\ SameRetired(t)

StartSeen(t) ==
    /\ IsCaptured(t) /\ ~IsStarted(t) /\ reason[t] = "none" /\ OutcomeOf(t) = "none"
    /\ IsStarted(t)'
    /\ SameCaptured(t) /\ SameCause(t) /\ SameOutcome(t) /\ SameRetired(t)

DropSeen(t) ==
    /\ IsCaptured(t) /\ ~IsCaptured(t)'
    /\ SameStarted(t) /\ SameCause(t) /\ SameOutcome(t) /\ SameRetired(t)

SettleSeen(t) ==
    /\ OutcomeOf(t) = "none" /\ (IsCaptured(t) => ~IsStarted(t))
    /\ reason'[t] \in Reasons \cup {"none"}
    /\ reason[t] # "none" => SameCause(t)
    /\ IF reason'[t] = "none"
       THEN OutcomeOf(t)' \in {"Completed", "Failed", "Panicked"}
       ELSE OutcomeOf(t)' = TerminationStatus(reason'[t])
    /\ SameCaptured(t) /\ SameStarted(t) /\ SameRetired(t)

RetireSeen(t) ==
    /\ OutcomeOf(t) # "none" /\ ~IsCaptured(t) /\ ~IsRetired(t) /\ IsRetired(t)'
    /\ SameCaptured(t) /\ SameStarted(t) /\ SameCause(t) /\ SameOutcome(t)

TaskSeen(t) ==
    SameTask(t) \/ SubmitSeen(t) \/ CancelSeen(t) \/ StartSeen(t) \/ DropSeen(t)
      \/ SettleSeen(t) \/ RetireSeen(t)

\* At most one task changes, by a step of the contract.
ContractSeen ==
    \/ \A u \in Tasks : SameTask(u)
    \/ \E t \in Tasks : TaskSeen(t) /\ \A u \in Tasks \ {t} : SameTask(u)

\* A step that changes one task the way the contract allows is a step of the
\* contract under the refinement mapping.
LEMMA SeenIsContract ==
    ASSUME TypeOK, TypeOK', ContractSeen
    PROVE  [Contract!Next]_(Contract!vars)
<1>r. reason \in [Tasks -> Reasons \cup {"none"}] /\ reason' \in [Tasks -> Reasons \cup {"none"}]
  BY DEF TypeOK
<1> DEFINE Captured == [u \in Tasks |-> frame[u] # {}]
           StartedFn == [u \in Tasks |-> body[u] = "running" \/ comp[u]["body"] # "idle"]
           OutcomeFn == [u \in Tasks |-> IF Terminal(u) THEN status[u] ELSE "none"]
           RetiredFn == [u \in Tasks |-> accounting[u] = "done"]
<1>c. ASSUME \A u \in Tasks : SameCaptured(u) PROVE Captured' = Captured
  BY <1>c DEF SameCaptured, IsCaptured
<1>s. ASSUME \A u \in Tasks : SameStarted(u) PROVE StartedFn' = StartedFn
  BY <1>s DEF SameStarted, IsStarted
<1>y. ASSUME \A u \in Tasks : SameCause(u) PROVE reason' = reason
  BY <1>r, <1>y DEF SameCause
<1>o. ASSUME \A u \in Tasks : SameOutcome(u) PROVE OutcomeFn' = OutcomeFn
  BY <1>o DEF SameOutcome, OutcomeOf
<1>d. ASSUME \A u \in Tasks : SameRetired(u) PROVE RetiredFn' = RetiredFn
  BY <1>d DEF SameRetired, IsRetired
<1>1. CASE \A u \in Tasks : SameTask(u)
  <2>1. /\ Captured' = Captured /\ StartedFn' = StartedFn /\ reason' = reason
        /\ OutcomeFn' = OutcomeFn /\ RetiredFn' = RetiredFn
    BY <1>1, <1>c, <1>s, <1>y, <1>o, <1>d DEF SameTask
  <2> QED BY <2>1 DEF Contract!vars
<1>2. ASSUME NEW t \in Tasks, \A u \in Tasks \ {t} : SameTask(u), SubmitSeen(t)
      PROVE  Contract!Next
  <2>1. /\ StartedFn' = StartedFn /\ reason' = reason /\ OutcomeFn' = OutcomeFn
        /\ RetiredFn' = RetiredFn
    BY <1>2, <1>s, <1>y, <1>o, <1>d DEF SameTask, SubmitSeen
  <2>2. Captured' = [Captured EXCEPT ![t] = TRUE]
    BY <1>2 DEF SameTask, SubmitSeen, SameCaptured, IsCaptured
  <2>3. ~Captured[t] /\ OutcomeFn[t] = "none" /\ ~StartedFn[t] /\ reason[t] = "none"
    BY <1>2 DEF SubmitSeen, IsCaptured, OutcomeOf, IsStarted
  <2>4. Contract!Submit(t)
    BY <2>1, <2>2, <2>3 DEF Contract!Submit
  <2> QED BY <2>4 DEF Contract!Next
<1>3. ASSUME NEW t \in Tasks, \A u \in Tasks \ {t} : SameTask(u), CancelSeen(t)
      PROVE  Contract!Next
  <2>1. /\ Captured' = Captured /\ StartedFn' = StartedFn /\ OutcomeFn' = OutcomeFn
        /\ RetiredFn' = RetiredFn
    BY <1>3, <1>c, <1>s, <1>o, <1>d DEF SameTask, CancelSeen
  <2>2. /\ reason' = [reason EXCEPT ![t] = reason'[t]]
        /\ reason'[t] \in {"Cancelled", "TimedOut"}
    BY <1>3, <1>r DEF SameTask, CancelSeen, SameCause, Reasons
  <2>3. OutcomeFn[t] = "none" /\ reason[t] = "none"
    BY <1>3 DEF CancelSeen, OutcomeOf
  <2>4. Contract!Cancel(t)
    BY <2>1, <2>2, <2>3 DEF Contract!Cancel, Contract!Terminations
  <2> QED BY <2>4 DEF Contract!Next
<1>4. ASSUME NEW t \in Tasks, \A u \in Tasks \ {t} : SameTask(u), StartSeen(t)
      PROVE  Contract!Next
  <2>1. Captured' = Captured /\ reason' = reason /\ OutcomeFn' = OutcomeFn /\ RetiredFn' = RetiredFn
    BY <1>4, <1>c, <1>y, <1>o, <1>d DEF SameTask, StartSeen
  <2>2. StartedFn' = [StartedFn EXCEPT ![t] = TRUE]
    BY <1>4 DEF SameTask, StartSeen, SameStarted, IsStarted
  <2>3. Captured[t] /\ ~StartedFn[t] /\ OutcomeFn[t] = "none" /\ reason[t] = "none"
    BY <1>4 DEF StartSeen, OutcomeOf, IsCaptured, IsStarted
  <2>4. Contract!Start(t)
    BY <2>1, <2>2, <2>3 DEF Contract!Start
  <2> QED BY <2>4 DEF Contract!Next
<1>5. ASSUME NEW t \in Tasks, \A u \in Tasks \ {t} : SameTask(u), DropSeen(t)
      PROVE  Contract!Next
  <2>1. /\ StartedFn' = StartedFn /\ reason' = reason /\ OutcomeFn' = OutcomeFn
        /\ RetiredFn' = RetiredFn
    BY <1>5, <1>s, <1>y, <1>o, <1>d DEF SameTask, DropSeen
  <2>2. Captured' = [Captured EXCEPT ![t] = FALSE] /\ Captured[t]
    BY <1>5 DEF SameTask, DropSeen, SameCaptured, IsCaptured
  <2>3. Contract!Drop(t)
    BY <2>1, <2>2 DEF Contract!Drop
  <2> QED BY <2>3 DEF Contract!Next
<1>6. ASSUME NEW t \in Tasks, \A u \in Tasks \ {t} : SameTask(u), SettleSeen(t)
      PROVE  Contract!Next
  <2>1. Captured' = Captured /\ StartedFn' = StartedFn /\ RetiredFn' = RetiredFn
    BY <1>6, <1>c, <1>s, <1>d DEF SameTask, SettleSeen
  <2>2. /\ reason' = [reason EXCEPT ![t] = reason'[t]]
        /\ reason'[t] \in {"none", "Cancelled", "TimedOut"}
        /\ reason[t] # "none" => reason'[t] = reason[t]
    BY <1>6, <1>r DEF SameTask, SettleSeen, SameCause, Reasons
  <2>3. OutcomeFn[t] = "none" /\ (Captured[t] => ~StartedFn[t])
    BY <1>6 DEF SettleSeen, OutcomeOf, IsCaptured, IsStarted
  <2>4. OutcomeFn' = [OutcomeFn EXCEPT ![t] = OutcomeFn'[t]]
    BY <1>6 DEF SameTask, SameOutcome, OutcomeOf
  <2>5. /\ reason'[t] = "none" => OutcomeFn'[t] \in Contract!Outcomes
        /\ reason'[t] # "none" => OutcomeFn'[t] = Contract!Terminations[reason'[t]]
    BY <1>6, <2>2
    DEF SettleSeen, OutcomeOf, TerminationStatus, Contract!Outcomes,
        Contract!Terminations
  <2> HIDE DEF Captured, StartedFn, RetiredFn, OutcomeFn
  <2>6. reason'[t] \in {"none"} \cup DOMAIN Contract!Terminations
    BY <2>2 DEF Contract!Terminations
  <2>7. \E why \in {"none"} \cup DOMAIN Contract!Terminations :
           /\ reason[t] # "none" => why = reason[t]
           /\ reason' = [reason EXCEPT ![t] = why]
           /\ IF why = "none"
              THEN \E o \in Contract!Outcomes : OutcomeFn' = [OutcomeFn EXCEPT ![t] = o]
              ELSE OutcomeFn' = [OutcomeFn EXCEPT ![t] = Contract!Terminations[why]]
    BY <2>2, <2>4, <2>5, <2>6, Zenon
  <2>8. Contract!Settle(t)
    BY <2>1, <2>3, <2>7, Zenon DEF Contract!Settle, Captured, StartedFn, RetiredFn, OutcomeFn
  <2> QED BY <2>8 DEF Contract!Next
<1>7. ASSUME NEW t \in Tasks, \A u \in Tasks \ {t} : SameTask(u), RetireSeen(t)
      PROVE  Contract!Next
  <2>1. Captured' = Captured /\ StartedFn' = StartedFn /\ reason' = reason /\ OutcomeFn' = OutcomeFn
    BY <1>7, <1>c, <1>s, <1>y, <1>o DEF SameTask, RetireSeen
  <2>2. RetiredFn' = [RetiredFn EXCEPT ![t] = TRUE]
    BY <1>7 DEF SameTask, RetireSeen, SameRetired, IsRetired
  <2>3. OutcomeFn[t] # "none" /\ ~Captured[t] /\ ~RetiredFn[t]
    BY <1>7 DEF RetireSeen, OutcomeOf, IsCaptured, IsRetired
  <2>4. Contract!Retire(t)
    BY <2>1, <2>2, <2>3 DEF Contract!Retire
  <2> QED BY <2>4 DEF Contract!Next
<1>8. ASSUME NEW t \in Tasks, \A u \in Tasks \ {t} : SameTask(u), SameTask(t)
      PROVE  \A u \in Tasks : SameTask(u)
  BY <1>8
<1> QED BY <1>1, <1>2, <1>3, <1>4, <1>5, <1>6, <1>7, <1>8 DEF ContractSeen, TaskSeen

\* Option::take hands a frame on: the work stays captured.
LEMMA MoveCaptured ==
    ASSUME TypeOK, NEW t \in Tasks, NEW a, NEW b, frame' = Move(t, a, b)
    PROVE  \A u \in Tasks : SameCaptured(u)
<1>1. (IF a \in frame[t] THEN (frame[t] \ {a}) \cup {b} ELSE frame[t]) # {}
        <=> frame[t] # {}
  OBVIOUS
<1> QED BY <1>1 DEF Move, SameCaptured, IsCaptured, TypeOK

\* Only the body's own completion call says that the work was started.
LEMMA GotoStarted ==
    ASSUME TypeOK, NEW t \in Tasks, NEW r \in Roles, NEW label, comp' = Goto(t, r, label),
           r = "body" => comp[t][r] # "idle" /\ label # "idle", body' = body
    PROVE  \A u \in Tasks : SameStarted(u)
BY DEF Goto, SameStarted, IsStarted, TypeOK, Roles

\* A request is a cancellation of the contract, or changes nothing it sees.
LEMMA RequestCancelSeen ==
    ASSUME TypeOK, NEW t \in Tasks, NEW why \in Reasons, NEW d \in Deadlines,
           RequestCancel(t, why, d), UNCHANGED <<body, accounting>>
    PROVE  ContractSeen
<1>t. /\ status \in [Tasks -> Statuses] /\ reason \in [Tasks -> Reasons \cup {"none"}]
      /\ frame \in [Tasks -> SUBSET Holders]
  BY DEF TypeOK
<1>1. \A u \in Tasks : SameCaptured(u)
  BY MoveCaptured DEF RequestCancel, SameCaptured, IsCaptured
<1>2. \A u \in Tasks : SameStarted(u)
  BY GotoStarted DEF RequestCancel, SameStarted, IsStarted, Roles, Completers
<1>3. \A u \in Tasks : SameOutcome(u)
  BY <1>t DEF RequestCancel, SameOutcome, OutcomeOf, Terminal, TerminalStatuses, CanCancel
<1>4. \A u \in Tasks : SameRetired(u)
  BY DEF SameRetired, IsRetired
<1>5. \A u \in Tasks \ {t} : SameCause(u)
  BY <1>t DEF RequestCancel, SameCause
<1>6. SameCause(t) \/ (reason[t] = "none" /\ OutcomeOf(t) = "none" /\ reason'[t] \in Reasons)
  BY <1>t DEF RequestCancel, SameCause, ReasonAfter, CanCancel, CancelledTask, OutcomeOf
<1> QED BY <1>1, <1>2, <1>3, <1>4, <1>5, <1>6 DEF ContractSeen, TaskSeen, SameTask, CancelSeen

\* Every step of the runtime changes at most one task, the way the contract allows.
LEMMA ContractStep ==
    ASSUME TypeOK, FrameInv, LifeInv, [Next]_vars
    PROVE  ContractSeen
<1>t. /\ status \in [Tasks -> Statuses] /\ accounting \in [Tasks -> AccountingStages]
      /\ reason \in [Tasks -> Reasons \cup {"none"}]
      /\ spawn \in [Tasks -> SpawnLabels] /\ frame \in [Tasks -> SUBSET Holders]
      /\ body \in [Tasks -> BodyLabels]
      /\ comp \in [Tasks -> [Roles -> CompletionLabels]]
  BY DEF TypeOK
<1>f. \A t \in Tasks : FramePlace(t) /\ CompletionOnce(t) /\ NodePlace(t)
  BY DEF FrameInv
<1>l. \A t \in Tasks : spawn[t] \in Early => reason[t] = "none"
  BY DEF LifeInv, SubmissionPlace
<1> USE <1>t, <1>f, <1>l DEF ContractSeen, TaskSeen, SameTask, SubmitSeen, CancelSeen,
      StartSeen, DropSeen, SettleSeen, RetireSeen, SameCaptured, SameStarted,
      SameCause, SameOutcome, SameRetired, IsCaptured, IsStarted, OutcomeOf,
      IsRetired, Early, FramePlace, CompletionOnce, NodePlace, Idle, Terminal,
      TerminalStatuses, CancelledTask, BeforeInstall, Completers, Roles,
      countVars, queueVars, outcomeVars, ackVars, ownerVars, controlVars,
      shutdownVars
<1>1. ASSUME NEW t \in Tasks, BeginSpawn(t) PROVE ContractSeen
  <2>s. spawn[t] = "none"
    BY <1>1 DEF BeginSpawn, SpawnStep
  <2>0. ~IsCaptured(t) /\ ~IsStarted(t) /\ reason[t] = "none"
    BY <2>s
  <2>4. frame' = [frame EXCEPT ![t] = {"spawn"}]
    BY <1>1 DEF BeginSpawn
  <2>1. IsCaptured(t)' /\ \A u \in Tasks \ {t} : SameCaptured(u)
    BY <2>4
  <2>2. OutcomeOf(t) = "none"
    BY <2>s
  <2>3. \A u \in Tasks : SameStarted(u) /\ SameCause(u) /\ SameOutcome(u) /\ SameRetired(u)
    BY <1>1 DEF BeginSpawn
  <2> HIDE DEF SameCaptured, SameStarted, SameCause, SameOutcome, SameRetired,
        IsCaptured, IsStarted, OutcomeOf, IsRetired
  <2> QED BY <2>0, <2>1, <2>2, <2>3
<1>2. ASSUME NEW t \in Tasks, DenySpawn(t) PROVE ContractSeen
  <2>s. spawn[t] = "admit"
    BY <1>2 DEF DenySpawn, SpawnStep
  <2>f. frame' = [frame EXCEPT ![t] = {}]
    BY <1>2 DEF DenySpawn
  <2>c. IsCaptured(t)
    BY <2>s
  <2>1. IsCaptured(t) /\ ~IsCaptured(t)' /\ \A u \in Tasks \ {t} : SameCaptured(u)
    BY <2>f, <2>c
  <2>2. \A u \in Tasks : SameStarted(u)
    BY <1>2 DEF DenySpawn
  <2>3. \A u \in Tasks : SameCause(u) /\ SameOutcome(u) /\ SameRetired(u)
    BY <1>2 DEF DenySpawn
  <2> HIDE DEF SameCaptured, SameStarted, SameCause, SameOutcome, SameRetired,
        IsCaptured, IsStarted, OutcomeOf, IsRetired
  <2> QED BY <2>1, <2>2, <2>3
<1>3. ASSUME NEW t \in Tasks, CreateTask(t) PROVE ContractSeen
  BY <1>3 DEF CreateTask, SpawnStep, Bump
<1>4. ASSUME NEW t \in Tasks, RejectClosed(t) PROVE ContractSeen
  BY <1>4 DEF RejectClosed, SpawnStep, EarlyReject, Bump, Goto
<1>5. ASSUME NEW t \in Tasks, TakeActive(t) PROVE ContractSeen
  BY <1>5 DEF TakeActive, SpawnStep
<1>6. ASSUME NEW t \in Tasks, RejectAtLimit(t) PROVE ContractSeen
  BY <1>6 DEF RejectAtLimit, SpawnStep, EarlyReject, Bump, Goto
<1>7. ASSUME NEW t \in Tasks, Register(t) PROVE ContractSeen
  BY <1>7 DEF Register, SpawnStep
<1>8. ASSUME NEW t \in Tasks, RejectClosing(t) PROVE ContractSeen
  BY <1>8 DEF RejectClosing, SpawnStep, EarlyReject, Rollback, Bump, Goto
<1>9. ASSUME NEW t \in Tasks, Build(t) PROVE ContractSeen
  BY <1>9 DEF Build, SpawnStep
<1>10. ASSUME NEW t \in Tasks, BuildPanic(t) PROVE ContractSeen
  <2>1. IsCaptured(t) /\ ~IsCaptured(t)' /\ \A u \in Tasks \ {t} : SameCaptured(u)
    BY <1>10 DEF BuildPanic, SpawnStep
  <2>2. \A u \in Tasks : SameStarted(u)
    BY <1>10 DEF BuildPanic, EarlyReject, Goto
  <2>3. \A u \in Tasks : SameCause(u) /\ SameOutcome(u) /\ SameRetired(u)
    BY <1>10 DEF BuildPanic
  <2> HIDE DEF SameCaptured, SameStarted, SameCause, SameOutcome, SameRetired,
        IsCaptured, IsStarted, OutcomeOf, IsRetired
  <2> QED BY <2>1, <2>2, <2>3
<1>11. ASSUME NEW t \in Tasks, InstallRun(t) PROVE ContractSeen
  <2>1. \A u \in Tasks : SameCaptured(u)
    BY <1>11, MoveCaptured DEF InstallRun
  <2>2. \A u \in Tasks : SameStarted(u)
    BY <1>11 DEF InstallRun
  <2> HIDE DEF SameCaptured, SameStarted
  <2> QED BY <1>11, <2>1, <2>2 DEF InstallRun
<1>12. ASSUME NEW t \in Tasks, RefuseInstall(t) PROVE ContractSeen
  <2>1. \A u \in Tasks : SameCaptured(u)
    BY <1>12, MoveCaptured DEF RefuseInstall
  <2>2. \A u \in Tasks : SameStarted(u)
    BY <1>12, GotoStarted DEF RefuseInstall
  <2> HIDE DEF SameCaptured, SameStarted
  <2> QED BY <1>12, <2>1, <2>2 DEF RefuseInstall
<1>13. ASSUME NEW t \in Tasks, AfterInstall(t) PROVE ContractSeen
  BY <1>13 DEF AfterInstall, SpawnStep
<1>14. ASSUME NEW t \in Tasks, HeaderOverflow(t) PROVE ContractSeen
  BY <1>14 DEF HeaderOverflow, SpawnStep, Rollback, Bump
<1>15. ASSUME NEW t \in Tasks, ReserveQueue(t) PROVE ContractSeen
  BY <1>15 DEF ReserveQueue, SpawnStep
<1>16. ASSUME NEW t \in Tasks, RejectAtQueueLimit(t) PROVE ContractSeen
  BY <1>16 DEF RejectAtQueueLimit, SpawnStep, Rollback, Bump
<1>17. ASSUME NEW t \in Tasks, Send(t) PROVE ContractSeen
  BY <1>17 DEF Send, SpawnStep
<1>18. ASSUME NEW t \in Tasks, CountAccepted(t) PROVE ContractSeen
  BY <1>18 DEF CountAccepted, SpawnStep, Bump
<1>19. ASSUME NEW t \in Tasks, RejectQueued(t) PROVE ContractSeen
  <2>1. \A u \in Tasks : SameCaptured(u)
    BY <1>19, MoveCaptured DEF RejectQueued
  <2>2. \A u \in Tasks : SameStarted(u)
    BY <1>19, GotoStarted DEF RejectQueued
  <2> HIDE DEF SameCaptured, SameStarted
  <2> QED BY <1>19, <2>1, <2>2 DEF RejectQueued
<1>20. ASSUME NEW t \in Tasks, YieldRejection(t) PROVE ContractSeen
  BY <1>20 DEF YieldRejection, SpawnStep
<1>21. ASSUME NEW t \in Tasks, AfterReject(t) PROVE ContractSeen
  BY <1>21 DEF AfterReject, SpawnStep
<1>22. ASSUME NEW t \in Tasks, DropConstructor(t) PROVE ContractSeen
  <2>1. IsCaptured(t) /\ ~IsCaptured(t)' /\ \A u \in Tasks \ {t} : SameCaptured(u)
    BY <1>22 DEF DropConstructor
  <2>2. \A u \in Tasks : SameStarted(u)
    BY <1>22 DEF DropConstructor
  <2>3. \A u \in Tasks : SameCause(u) /\ SameOutcome(u) /\ SameRetired(u)
    BY <1>22 DEF DropConstructor
  <2> HIDE DEF SameCaptured, SameStarted, SameCause, SameOutcome, SameRetired,
        IsCaptured, IsStarted, OutcomeOf, IsRetired
  <2> QED BY <2>1, <2>2, <2>3
<1>23. ASSUME NEW t \in Tasks, Settle(t) PROVE ContractSeen
  BY <1>23 DEF Settle
<1>24. ASSUME NEW t \in Tasks, Leave(t) PROVE ContractSeen
  BY <1>24 DEF Leave, SpawnStep, EndAdmission
<1>25. ASSUME NEW t \in Tasks, LeaveDenied(t) PROVE ContractSeen
  BY <1>25 DEF LeaveDenied, SpawnStep, EndAdmission
<1>26. ASSUME NEW t \in Tasks, ReturnCredit(t) PROVE ContractSeen
  BY <1>26 DEF ReturnCredit
<1>27. ASSUME NEW t \in Tasks, ClaimRun(t) PROVE ContractSeen
  <2>1. \A u \in Tasks : SameCaptured(u)
    BY <1>27, MoveCaptured DEF ClaimRun
  <2>2. \A u \in Tasks : SameOutcome(u)
    BY <1>27 DEF ClaimRun, CanClaim
  <2>3. IsCaptured(t) /\ ~IsStarted(t) /\ reason[t] = "none" /\ OutcomeOf(t) = "none"
    BY <1>27 DEF ClaimRun, CanClaim
  <2>4. IsStarted(t)' /\ \A u \in Tasks \ {t} : SameStarted(u)
    BY <1>27 DEF ClaimRun
  <2>5. \A u \in Tasks : SameCause(u) /\ SameRetired(u)
    BY <1>27 DEF ClaimRun
  <2> HIDE DEF SameCaptured, SameStarted, SameOutcome, SameCause, SameRetired,
        IsCaptured, IsStarted, OutcomeOf, Terminal
  <2> QED BY <2>1, <2>2, <2>3, <2>4, <2>5
<1>28. ASSUME NEW t \in Tasks, ClaimNothing(t) PROVE ContractSeen
  BY <1>28 DEF ClaimNothing
<1>29. ASSUME NEW t \in Tasks, RefuseExecution(t) PROVE ContractSeen
  <2>1. \A u \in Tasks : SameCaptured(u)
    BY <1>29, MoveCaptured, SMTT(30) DEF RefuseExecution
  <2>2. \A u \in Tasks : SameStarted(u)
    BY <1>29 DEF RefuseExecution, Goto
  <2> HIDE DEF SameCaptured, SameStarted
  <2> QED BY <1>29, <2>1, <2>2 DEF RefuseExecution
<1>30. ASSUME NEW t \in Tasks, YieldRefusal(t) PROVE ContractSeen
  BY <1>30 DEF YieldRefusal
<1>31. ASSUME NEW t \in Tasks, FinishBody(t) PROVE ContractSeen
  <2>1. IsCaptured(t) /\ ~IsCaptured(t)' /\ \A u \in Tasks \ {t} : SameCaptured(u)
    <3>1. frame[t] = {"body"}
      BY <1>31 DEF FinishBody
    <3>2. frame[t] \ {"body"} = {}
      BY <3>1
    <3>3. frame' = [frame EXCEPT ![t] = frame[t] \ {"body"}]
      BY <1>31 DEF FinishBody
    <3> QED BY <3>1, <3>2, <3>3
  <2>2. \A u \in Tasks : SameStarted(u)
    BY <1>31 DEF FinishBody, Goto
  <2>3. \A u \in Tasks : SameCause(u) /\ SameOutcome(u) /\ SameRetired(u)
    BY <1>31 DEF FinishBody
  <2> HIDE DEF SameCaptured, SameStarted, SameCause, SameOutcome, SameRetired,
        IsCaptured, IsStarted, OutcomeOf, IsRetired
  <2> QED BY <2>1, <2>2, <2>3
<1>32. ASSUME NEW t \in Tasks, AfterComplete(t) PROVE ContractSeen
  BY <1>32 DEF AfterComplete
<1>33. ASSUME NEW t \in Tasks, FinishTaskJob(t) PROVE ContractSeen
  BY <1>33 DEF FinishTaskJob, Goto
<1>34. ASSUME NEW t \in Tasks, CancelHandle(t) PROVE ContractSeen
  <2>1. \E why \in Reasons, d \in Deadlines : RequestCancel(t, why, d)
    BY <1>34 DEF CancelHandle, Reasons
  <2>2. UNCHANGED <<body, accounting>>
    BY <1>34 DEF CancelHandle
  <2> HIDE DEF ContractSeen
  <2> QED BY <2>1, <2>2, RequestCancelSeen
<1>35. ASSUME NEW t \in Tasks, RememberDeadline(t) PROVE ContractSeen
  BY <1>35 DEF RememberDeadline, Min2
<1>36. ASSUME NEW t \in Tasks, AwaitResult(t) PROVE ContractSeen
  BY <1>36 DEF AwaitResult
<1>37. ASSUME NEW t \in Tasks, ReleaseOwner(t) PROVE ContractSeen
  BY <1>37 DEF ReleaseOwner
<1>38. ASSUME NEW t \in Tasks, DropResult(t) PROVE ContractSeen
  BY <1>38 DEF DropResult
<1>39. ASSUME NEW t \in Tasks, OwnerCancel(t) PROVE ContractSeen
  <2>1. \E why \in Reasons, d \in Deadlines : RequestCancel(t, why, d)
    BY <1>39 DEF OwnerCancel, Reasons
  <2>2. UNCHANGED <<body, accounting>>
    BY <1>39 DEF OwnerCancel
  <2> HIDE DEF ContractSeen
  <2> QED BY <2>1, <2>2, RequestCancelSeen
<1>40. ASSUME NEW t \in Tasks, AfterOwnerCancel(t) PROVE ContractSeen
  BY <1>40 DEF AfterOwnerCancel
<1>41. ASSUME NEW t \in Tasks, PublishOwner(t) PROVE ContractSeen
  BY <1>41 DEF PublishOwner
<1>42. ASSUME NEW t \in Tasks, DrainOwnerResult(t) PROVE ContractSeen
  BY <1>42 DEF DrainOwnerResult
<1>43. ASSUME NEW t \in Tasks, CancelSnapshot(t) PROVE ContractSeen
  <2>1. \E why \in Reasons, d \in Deadlines : RequestCancel(t, why, d)
    BY <1>43 DEF CancelSnapshot, Reasons
  <2>2. UNCHANGED <<body, accounting>>
    BY <1>43 DEF CancelSnapshot
  <2> HIDE DEF ContractSeen
  <2> QED BY <2>1, <2>2, RequestCancelSeen
<1>44. ASSUME NEW t \in Tasks, NEW from \in Waits, NEW to \in Waits,
             SetStatus(t, from, to)
       PROVE ContractSeen
  <2>1. \A u \in Tasks : SameOutcome(u)
    BY <1>44 DEF SetStatus, Waits
  <2>2. \A u \in Tasks : SameCaptured(u) /\ SameStarted(u) /\ SameCause(u) /\ SameRetired(u)
    BY <1>44 DEF SetStatus
  <2> HIDE DEF SameCaptured, SameStarted, SameCause, SameOutcome, SameRetired,
        IsCaptured, IsStarted, OutcomeOf, IsRetired
  <2> QED BY <2>1, <2>2
<1>45. ASSUME NEW t \in Tasks, NEW r \in Roles, DestroyFrame(t, r) PROVE ContractSeen
  <2>1. \A u \in Tasks : SameStarted(u)
    BY <1>45, GotoStarted DEF DestroyFrame
  <2>2. /\ \A u \in Tasks \ {t} : SameCaptured(u)
        /\ SameCaptured(t) \/ (IsCaptured(t) /\ ~IsCaptured(t)')
    BY <1>45 DEF DestroyFrame
  <2>3. \A u \in Tasks : SameCause(u) /\ SameOutcome(u) /\ SameRetired(u)
    BY <1>45 DEF DestroyFrame
  <2> HIDE DEF SameCaptured, SameStarted, SameCause, SameOutcome, SameRetired,
        IsCaptured, IsStarted, OutcomeOf, IsRetired
  <2> QED BY <2>1, <2>2, <2>3
<1>46. ASSUME NEW t \in Tasks, NEW r \in Roles, Publish(t, r) PROVE ContractSeen
  <2>1. comp[t][r] = "publish" /\ r \in Completers
    BY <1>46 DEF Publish
  <2>2. IsCaptured(t) => ~IsStarted(t)
    <3> HIDE DEF Terminal, Idle
    <3>1. frame[t] # {} => spawn[t] \in {"rejecting", "settle"}
      BY <2>1, TerminalFrame
    <3>2. comp[t]["body"] # "idle" => body[t] # "none"
      BY DEF LifeInv, HolderPlace
    <3>3. body[t] # "none" => spawn[t] \notin {"rejecting", "settle"}
      BY <1>f DEF AfterSend
    <3> QED BY <3>1, <3>2, <3>3
  <2>3. \A u \in Tasks : SameStarted(u)
    <3>1. PICK label : comp' = Goto(t, r, label) /\ label # "idle"
      BY <1>46 DEF Publish
    <3>2. body' = body
      BY <1>46 DEF Publish
    <3> QED BY <2>1, <3>1, <3>2, GotoStarted
  <2>4. \A u \in Tasks : SameCaptured(u) /\ SameRetired(u)
    BY <1>46 DEF Publish
  <2>5. \A u \in Tasks \ {t} : SameCause(u) /\ SameOutcome(u)
    BY <1>46 DEF Publish
  <2>6. CASE ~CanPublish(t)
    <3>1. SameCause(t) /\ SameOutcome(t)
      BY <1>46, <2>6 DEF Publish, Commit
    <3> HIDE DEF SameCaptured, SameStarted, SameCause, SameOutcome, SameRetired
    <3> QED BY <2>3, <2>4, <2>5, <3>1
  <2>7. CASE CanPublish(t)
    <3>1. PICK kind \in Outcomes(r), incoming \in Terminations(r) :
            /\ reason'[t] = IF CancelledTask(t) THEN reason[t] ELSE incoming
            /\ status'[t] = IF reason'[t] = "none" THEN kind ELSE TerminationStatus(reason'[t])
      BY <1>46, <2>7 DEF Publish, Commit
    <3>2. /\ OutcomeOf(t) = "none" /\ kind \in {"Completed", "Failed", "Panicked"}
          /\ incoming \in Reasons \cup {"none"}
      BY <2>7 DEF CanPublish, Outcomes, Terminations
    <3>3. reason[t] # "none" => SameCause(t)
      BY <3>1 DEF CancelledTask
    <3>4. reason'[t] \in Reasons \cup {"none"}
      BY <3>1, <3>2
    <3>5. IF reason'[t] = "none"
          THEN OutcomeOf(t)' \in {"Completed", "Failed", "Panicked"}
          ELSE OutcomeOf(t)' = TerminationStatus(reason'[t])
      BY <3>1, <3>2 DEF TerminationStatus
    <3> HIDE DEF SameCaptured, SameStarted, SameCause, SameOutcome, SameRetired,
          IsCaptured, IsStarted, OutcomeOf
    <3> QED BY <2>2, <2>3, <2>4, <2>5, <3>2, <3>3, <3>4, <3>5
  <2> QED BY <2>6, <2>7
<1>47. ASSUME NEW t \in Tasks, NEW r \in Roles, Discard(t, r) PROVE ContractSeen
  <2>1. \A u \in Tasks : SameStarted(u)
    BY <1>47, GotoStarted DEF Discard
  <2> HIDE DEF SameStarted
  <2> QED BY <1>47, <2>1 DEF Discard
<1>48. ASSUME NEW t \in Tasks, NEW r \in Roles, ClaimAccounting(t, r) PROVE ContractSeen
  <2>1. \A u \in Tasks : SameStarted(u)
    BY <1>48, GotoStarted DEF ClaimAccounting
  <2>2. \A u \in Tasks : SameRetired(u)
    BY <1>48 DEF ClaimAccounting, CanAccount
  <2>3. \A u \in Tasks : SameCaptured(u) /\ SameCause(u) /\ SameOutcome(u)
    BY <1>48 DEF ClaimAccounting
  <2> HIDE DEF SameCaptured, SameStarted, SameCause, SameOutcome, SameRetired,
        IsCaptured, IsStarted, OutcomeOf, IsRetired
  <2> QED BY <2>1, <2>2, <2>3
<1>49. ASSUME NEW t \in Tasks, NEW r \in Roles,
              Unregister(t, r) \/ ReleaseActive(t, r) \/ CountFinished(t, r)
       PROVE  ContractSeen
  <2>1. \A u \in Tasks : SameRetired(u)
    BY <1>49 DEF Unregister, ReleaseActive, CountFinished, Accounts
  <2>2. UNCHANGED <<frame, body, comp, outcomeVars>>
    BY <1>49 DEF Unregister, ReleaseActive, CountFinished
  <2>3. \A u \in Tasks : SameCaptured(u) /\ SameStarted(u) /\ SameCause(u) /\ SameOutcome(u)
    BY <2>2
  <2> HIDE DEF SameCaptured, SameStarted, SameCause, SameOutcome, SameRetired,
        IsCaptured, IsStarted, OutcomeOf, IsRetired
  <2> QED BY <2>1, <2>3
<1>50. ASSUME NEW t \in Tasks, NEW r \in Roles, AckAccounting(t, r) PROVE ContractSeen
  <2>1. accounting[t] = "counted" /\ Terminal(t) /\ body[t] = "done"
    BY <1>50 DEF AckAccounting, Accounts, LifeInv, AccountingOnce
  <2>2. ~IsCaptured(t)
    <3> HIDE DEF Terminal
    <3>1. PICK q \in Completers : comp[t][q] \notin {"idle", "destroy"}
      BY <1>f, <2>1
    <3>2. frame[t] # {} => spawn[t] \in {"rejecting", "settle"}
      BY <3>1, TerminalFrame
    <3> QED BY <2>1, <3>2, <1>f DEF AfterSend
  <2>3. \A u \in Tasks : SameStarted(u)
    <3>1. comp' = Goto(t, r, "done") /\ comp[t][r] = "count" /\ body' = body
      BY <1>50 DEF AckAccounting, Accounts
    <3> HIDE DEF SameStarted
    <3> QED BY <3>1, GotoStarted
  <2>4. \A u \in Tasks : SameCaptured(u) /\ SameCause(u) /\ SameOutcome(u)
    BY <1>50 DEF AckAccounting
  <2>5. IsRetired(t)' /\ ~IsRetired(t) /\ \A u \in Tasks \ {t} : SameRetired(u)
    BY <1>50, <2>1 DEF AckAccounting, Accounts
  <2>6. OutcomeOf(t) # "none"
    BY <2>1
  <2> HIDE DEF SameCaptured, SameStarted, SameCause, SameOutcome, SameRetired,
        IsCaptured, IsStarted, OutcomeOf, IsRetired
  <2> QED BY <2>2, <2>3, <2>4, <2>5, <2>6
<1>51. ASSUME Dequeue PROVE ContractSeen
  <2>1. NextJob \in Tasks /\ Queued(NextJob)
    BY <1>51, TakeJobQueue DEF Dequeue, FrameInv
  <2>2. body[NextJob] = "none"
    BY <1>f, <2>1
  <2> QED BY <1>51, <2>1, <2>2 DEF Dequeue
<1>52. ASSUME RetirePrefix PROVE ContractSeen
  <2>1. NextJob \in Tasks /\ Queued(NextJob)
    BY <1>52, TakeJobQueue DEF RetirePrefix, FrameInv
  <2>2. body[NextJob] = "none"
    BY <1>f, <2>1
  <2> QED BY <1>52, <2>1, <2>2 DEF RetirePrefix
<1>53. ASSUME CachePrefix PROVE ContractSeen
  BY <1>53 DEF CachePrefix, NextJob
<1>54. ASSUME BeginShutdown PROVE ContractSeen
  BY <1>54 DEF BeginShutdown, ShutdownStep
<1>55. ASSUME SetClosing PROVE ContractSeen
  BY <1>55 DEF SetClosing, ShutdownStep
<1>56. ASSUME CloseGate PROVE ContractSeen
  BY <1>56 DEF CloseGate, ShutdownStep
<1>57. ASSUME Snapshot PROVE ContractSeen
  BY <1>57 DEF Snapshot, ShutdownStep
<1>58. ASSUME EndCancelAll PROVE ContractSeen
  BY <1>58 DEF EndCancelAll, ShutdownStep
<1>59. ASSUME PollProducers PROVE ContractSeen
  BY <1>59 DEF PollProducers, StillOutstanding, AfterOutstanding
<1>60. ASSUME PollActive PROVE ContractSeen
  BY <1>60 DEF PollActive, StillOutstanding, AfterOutstanding
<1>61. ASSUME Expire PROVE ContractSeen
  BY <1>61 DEF Expire
<1>62. CASE UNCHANGED vars
  BY <1>62 DEF vars
<1> HIDE DEF ContractSeen
<1> QED
  BY <1>1, <1>2, <1>3, <1>4, <1>5, <1>6, <1>7, <1>8, <1>9, <1>10, <1>11,
     <1>12, <1>13, <1>14, <1>15, <1>16, <1>17, <1>18, <1>19, <1>20, <1>21,
     <1>22, <1>23, <1>24, <1>25, <1>26, <1>27, <1>28, <1>29, <1>30, <1>31,
     <1>32, <1>33, <1>34, <1>35, <1>36, <1>37, <1>38, <1>39, <1>40, <1>41,
     <1>42, <1>43, <1>44, <1>45, <1>46, <1>47, <1>48, <1>49, <1>50, <1>51,
     <1>52, <1>53, <1>54, <1>55, <1>56, <1>57, <1>58, <1>59, <1>60, <1>61,
     <1>62 DEF Next, Submission, Execution, Ownership, Completion, Shutdown,
     Waits

\* The initial states of the runtime are initial states of the contract.
LEMMA ContractInit == Init => Contract!Init
<1> SUFFICES ASSUME Init PROVE Contract!Init
  OBVIOUS
<1>1. /\ \A t \in Tasks : frame[t] = {} /\ ~Terminal(t) /\ accounting[t] = "open"
      /\ \A t \in Tasks : body[t] = "none" /\ comp[t]["body"] = "idle"
  BY DEF Init, Terminal, TerminalStatuses, Roles, Completers
<1>2. reason = [t \in Tasks |-> "none"]
  BY DEF Init
<1> QED BY <1>1, <1>2 DEF Contract!Init

\* The runtime implements the contract of a task, for any number of tasks,
\* threads and faults: no interleaving of producer, claimant, canceller, owner
\* and shutdown starts cancelled work or starts it twice, publishes an outcome
\* before the work is gone, or forgets a task that still has work.
THEOREM RuntimeImplementsContract == Spec => ImplementsContract
<1>1. (TypeOK /\ FrameInv /\ LifeInv) /\ TypeOK' /\ [Next]_vars =>
        [Contract!Next]_(Contract!vars)
  BY ContractStep, SeenIsContract
<1> QED
  BY <1>1, ContractInit, LifeInvariance, PTL
  DEF Spec, HungSpec, ImplementsContract, Contract!Spec

-----------------------------------------------------------------------------
(* Counters *)

One(b) == IF b THEN 1 ELSE 0

\* Adding or removing one element changes a cardinality by one.
LEMMA CardinalityStep ==
    ASSUME NEW S, NEW T, NEW x, IsFiniteSet(S), T \subseteq S \cup {x}, S \subseteq T \cup {x}
    PROVE  /\ IsFiniteSet(T) /\ Cardinality(S) \in Nat /\ Cardinality(T) \in Nat
           /\ Cardinality(T) = Cardinality(S) + One(x \in T) - One(x \in S)
<1>1. /\ IsFiniteSet(S \cup {x}) /\ Cardinality(S) \in Nat
      /\ Cardinality(S \cup {x}) = Cardinality(S) + One(x \notin S)
  <2>1. CASE x \in S
    <3>1. S \cup {x} = S
      BY <2>1
    <3>2. Cardinality(S) \in Nat /\ Cardinality(S \cup {x}) = Cardinality(S)
      BY <3>1, FS_CardinalityType
    <3>3. IsFiniteSet(S \cup {x})
      BY FS_AddElement
    <3> QED BY <2>1, <3>2, <3>3 DEF One
  <2>2. CASE x \notin S
    BY <2>2, FS_AddElement, FS_CardinalityType DEF One
  <2> QED BY <2>1, <2>2
<1>2. CASE x \in T
  <2>1. T = S \cup {x}
    BY <1>2
  <2> QED BY <1>1, <1>2, <2>1 DEF One
<1>3. CASE x \notin T
  <2>1. T = (S \cup {x}) \ {x}
    BY <1>3
  <2>2. IsFiniteSet(T) /\ Cardinality(T) = Cardinality(S \cup {x}) - 1
    BY <1>1, <2>1, FS_RemoveElement
  <2>3. Cardinality(T) \in Nat
    BY <2>2, FS_CardinalityType
  <2> QED BY <1>1, <1>3, <2>2, <2>3 DEF One
<1> QED BY <1>2, <1>3

\* All counted sets are parts of the finite set of tasks whose submission started.
LEMMA CountedSets ==
    ASSUME TypeOK, FrameInv, LifeInv, CounterInv
    PROVE  /\ IsFiniteSet(Admitted) /\ IsFiniteSet(Residents) /\ IsFiniteSet(CreditHolders)
           /\ IsFiniteSet(Undecided) /\ IsFiniteSet(Unaccepted) /\ IsFiniteSet(InTransit)
           /\ Cardinality(InTransit) \in Nat
           /\ Cardinality(CreditHolders) \in Nat /\ Cardinality(Undecided) \in Nat
           /\ Cardinality(Unaccepted) \in Nat
<1>1. IsFiniteSet(Started)
  BY DEF CounterInv
<1>2. ASSUME NEW t \in Tasks, spawn[t] = "none"
      PROVE  ~admitted[t] /\ ~Resident(t) /\ body[t] # "dequeued" /\ accounting[t] = "open"
  <2>1. SubmissionPlace(t) /\ NodePlace(t) /\ AccountingOnce(t)
    BY DEF LifeInv, FrameInv
  <2> QED BY <1>2, <2>1 DEF SubmissionPlace, NodePlace, AccountingOnce, AfterSend, Resident
<1>3. /\ Admitted \subseteq Started /\ Residents \subseteq Started
      /\ CreditHolders \subseteq Started /\ Undecided \subseteq Started
      /\ Unaccepted \subseteq Started /\ InTransit \subseteq Started
  BY <1>2 DEF InTransit, Admitted, Residents, CreditHolders, Undecided, Unaccepted, Admitting, Started
<1> QED BY <1>1, <1>3, FS_Subset, FS_CardinalityType

\* Every count changes by the task t alone.
RecountedAt(t) ==
    /\ IsFiniteSet(Started')
    /\ Cardinality(Admitted') = Cardinality(Admitted) + One(admitted'[t] = TRUE) - One(admitted[t] = TRUE)
    /\ Cardinality(Residents') = Cardinality(Residents)
         + One(t \in states' \/ spawn'[t] = "register")
         - One(t \in states \/ spawn[t] = "register")
    /\ Cardinality(CreditHolders') = Cardinality(CreditHolders)
         + One(spawn'[t] = "send" \/ body'[t] = "dequeued")
         - One(spawn[t] = "send" \/ body[t] = "dequeued")
    /\ Cardinality(Undecided') = Cardinality(Undecided)
         + One(spawn'[t] \in Admitting \cup {"limit", "sent"})
         - One(spawn[t] \in Admitting \cup {"limit", "sent"})
    /\ Cardinality(Unaccepted') = Cardinality(Unaccepted)
         + One(spawn'[t] \in Admitting \cup {"sent"})
         - One(spawn[t] \in Admitting \cup {"sent"})
    /\ Cardinality(Admitted) \in Nat /\ Cardinality(Residents) \in Nat
    /\ Cardinality(CreditHolders) \in Nat /\ Cardinality(Undecided) \in Nat
    /\ Cardinality(Unaccepted) \in Nat
    /\ InTransit' = InTransit /\ Cardinality(InTransit) \in Nat

\* Who is resident owns a unit of active_tasks ...
LEMMA ResidentUnit ==
    ASSUME TypeOK, LifeInv, NEW t \in Tasks
    PROVE  /\ Resident(t) <=> HasUnit(t)
           /\ accounting[t] = "unregistered" => t \notin states /\ spawn[t] # "register"
<1>1. SubmissionPlace(t) /\ AccountingOnce(t) /\ accounting[t] \in AccountingStages
  BY DEF LifeInv, TypeOK
<1>2. accounting[t] # "open" => Handed(t) /\ spawn[t] # "register"
  BY <1>1 DEF AccountingOnce, SubmissionPlace, Handed
<1>3. /\ t \in states <=>
            (spawn[t] \in Admitting \ {"register"} \/ (Handed(t) /\ Unaccounted(t)))
      /\ Handed(t) => spawn[t] \notin Admitting
  BY <1>1 DEF SubmissionPlace, Handed, Admitting
<1> QED BY <1>1, <1>2, <1>3 DEF Resident, Handed, Admitting, HasUnit,
           Unaccounted, Released, AccountingStages

\* ... also after a step.
LEMMA ResidentUnitNext ==
    ASSUME TypeOK', LifeInv', NEW t \in Tasks
    PROVE  /\ Resident(t)' <=> HasUnit(t)'
           /\ accounting'[t] = "unregistered" => t \notin states' /\ spawn'[t] # "register"
<1>1. SubmissionPlace(t)' /\ AccountingOnce(t)' /\ accounting'[t] \in AccountingStages
  BY DEF LifeInv, TypeOK
<1>2. accounting'[t] # "open" => Handed(t)' /\ spawn'[t] # "register"
  BY <1>1 DEF AccountingOnce, SubmissionPlace, Handed
<1>3. /\ t \in states' <=>
            (spawn'[t] \in Admitting \ {"register"} \/ (Handed(t)' /\ Unaccounted(t)'))
      /\ Handed(t)' => spawn'[t] \notin Admitting
  BY <1>1 DEF SubmissionPlace, Handed, Admitting
<1> QED BY <1>1, <1>2, <1>3 DEF Resident, Handed, Admitting, HasUnit,
           Unaccounted, Released, AccountingStages

\* A step that changes one task outside its accounting changes every count by
\* that task alone.
LEMMA Recount ==
    ASSUME TypeOK, TypeOK', FrameInv, LifeInv, LifeInv', CounterInv, NEW t \in Tasks,
           accounting' = accounting,
           \A u \in Tasks \ {t} :
              /\ spawn'[u] = spawn[u] /\ (admitted'[u] <=> admitted[u])
              /\ u \in states' <=> u \in states
              /\ body'[u] = "dequeued" <=> body[u] = "dequeued"
    PROVE  RecountedAt(t)
<1>f. /\ IsFiniteSet(Admitted) /\ IsFiniteSet(Residents) /\ IsFiniteSet(CreditHolders)
      /\ IsFiniteSet(Undecided) /\ IsFiniteSet(Unaccepted) /\ IsFiniteSet(Started)
  BY CountedSets DEF CounterInv
<1>1. IsFiniteSet(Started')
  <2>1. Started' \subseteq Started \cup {t} /\ Started \subseteq Started' \cup {t}
    BY DEF Started
  <2> QED BY <1>f, <2>1, CardinalityStep
<1>2. /\ Cardinality(Admitted') = Cardinality(Admitted) + One(admitted'[t] = TRUE) - One(admitted[t] = TRUE)
      /\ Cardinality(Admitted) \in Nat
  <2>1. Admitted' \subseteq Admitted \cup {t} /\ Admitted \subseteq Admitted' \cup {t}
    BY DEF Admitted
  <2>2. (t \in Admitted' <=> admitted'[t] = TRUE) /\ (t \in Admitted <=> admitted[t] = TRUE)
    BY DEF Admitted
  <2> QED BY <1>f, <2>1, <2>2, CardinalityStep DEF One
<1>3. /\ Cardinality(Residents') = Cardinality(Residents)
           + One(t \in states' \/ spawn'[t] = "register")
           - One(t \in states \/ spawn[t] = "register")
      /\ Cardinality(Residents) \in Nat
  <2>1. \A u \in Tasks : Resident(u)' <=> HasUnit(u)'
    BY ResidentUnitNext
  <2>2. \A u \in Tasks : Resident(u) <=> HasUnit(u)
    BY ResidentUnit
  <2>3. Residents' \subseteq Residents \cup {t} /\ Residents \subseteq Residents' \cup {t}
    BY <2>1, <2>2 DEF Residents, HasUnit
  <2>4. (t \in Residents' <=> HasUnit(t)') /\ (t \in Residents <=> HasUnit(t))
    BY <2>1, <2>2 DEF Residents
  <2>5. /\ Cardinality(Residents') = Cardinality(Residents) + One(HasUnit(t)') - One(HasUnit(t))
        /\ Cardinality(Residents) \in Nat
    BY <1>f, <2>3, <2>4, CardinalityStep DEF One
  <2>6. CASE accounting[t] = "unregistered"
    <3>1. /\ t \notin states /\ spawn[t] # "register"
          /\ t \notin states' /\ spawn'[t] # "register"
      BY <2>6, ResidentUnit, ResidentUnitNext
    <3> QED BY <2>5, <2>6, <3>1 DEF HasUnit, One
  <2>7. CASE accounting[t] # "unregistered"
    BY <2>5, <2>7 DEF HasUnit
  <2> QED BY <2>6, <2>7
<1>4. /\ Cardinality(CreditHolders') = Cardinality(CreditHolders)
           + One(spawn'[t] = "send" \/ body'[t] = "dequeued")
           - One(spawn[t] = "send" \/ body[t] = "dequeued")
      /\ Cardinality(CreditHolders) \in Nat
  <2>1. /\ CreditHolders' \subseteq CreditHolders \cup {t}
        /\ CreditHolders \subseteq CreditHolders' \cup {t}
    BY DEF CreditHolders
  <2>2. /\ t \in CreditHolders' <=> (spawn'[t] = "send" \/ body'[t] = "dequeued")
        /\ t \in CreditHolders <=> (spawn[t] = "send" \/ body[t] = "dequeued")
    BY DEF CreditHolders
  <2> QED BY <1>f, <2>1, <2>2, CardinalityStep DEF One
<1>5. /\ Cardinality(Undecided') = Cardinality(Undecided)
           + One(spawn'[t] \in Admitting \cup {"limit", "sent"})
           - One(spawn[t] \in Admitting \cup {"limit", "sent"})
      /\ Cardinality(Undecided) \in Nat
  <2>1. Undecided' \subseteq Undecided \cup {t} /\ Undecided \subseteq Undecided' \cup {t}
    BY DEF Undecided
  <2>2. /\ t \in Undecided' <=> spawn'[t] \in Admitting \cup {"limit", "sent"}
        /\ t \in Undecided <=> spawn[t] \in Admitting \cup {"limit", "sent"}
    BY DEF Undecided
  <2> QED BY <1>f, <2>1, <2>2, CardinalityStep DEF One
<1>6. /\ Cardinality(Unaccepted') = Cardinality(Unaccepted)
           + One(spawn'[t] \in Admitting \cup {"sent"})
           - One(spawn[t] \in Admitting \cup {"sent"})
      /\ Cardinality(Unaccepted) \in Nat
  <2>1. Unaccepted' \subseteq Unaccepted \cup {t} /\ Unaccepted \subseteq Unaccepted' \cup {t}
    BY DEF Unaccepted
  <2>2. /\ t \in Unaccepted' <=> spawn'[t] \in Admitting \cup {"sent"}
        /\ t \in Unaccepted <=> spawn[t] \in Admitting \cup {"sent"}
    BY DEF Unaccepted
  <2> QED BY <1>f, <2>1, <2>2, CardinalityStep DEF One
<1>7. InTransit' = InTransit /\ Cardinality(InTransit) \in Nat
  BY CountedSets DEF InTransit
<1> QED BY <1>1, <1>2, <1>3, <1>4, <1>5, <1>6, <1>7 DEF RecountedAt

\* A step that changes no counter, no place in the submission, no node, no
\* resident and nobody in transit leaves the counts alone.
LEMMA SameSets ==
    ASSUME CounterInv, Residents' = Residents, InTransit' = InTransit,
           UNCHANGED <<spawn, admitted, producer_count, active_tasks, stats, queued_tasks>>,
           Len(queue') + HeadCount' = Len(queue) + HeadCount,
           \A u \in Tasks : body'[u] = "dequeued" <=> body[u] = "dequeued"
    PROVE  CounterInv'
<1>1. /\ Started' = Started /\ Admitted' = Admitted /\ CreditHolders' = CreditHolders
      /\ Undecided' = Undecided /\ Unaccepted' = Unaccepted
  BY DEF Started, Admitted, CreditHolders, Undecided, Unaccepted
<1> QED BY <1>1 DEF CounterInv

\* Outside the accounting, only registering changes the residents.
LEMMA SameCounts ==
    ASSUME TypeOK, TypeOK', CounterInv, LifeInv, LifeInv',
           UNCHANGED <<spawn, admitted, states, producer_count, active_tasks, stats,
                       queued_tasks, accounting>>,
           Len(queue') + HeadCount' = Len(queue) + HeadCount,
           \A u \in Tasks : body'[u] = "dequeued" <=> body[u] = "dequeued"
    PROVE  CounterInv'
<1>1. Residents' = Residents
  <2>1. \A u \in Tasks : Resident(u)' <=> HasUnit(u)'
    BY ResidentUnitNext
  <2>2. \A u \in Tasks : Resident(u) <=> HasUnit(u)
    BY ResidentUnit
  <2>3. \A u \in Tasks : HasUnit(u)' <=> HasUnit(u)
    BY DEF HasUnit
  <2> QED BY <2>1, <2>2, <2>3 DEF Residents
<1>2. InTransit' = InTransit
  BY DEF InTransit
<1> QED BY <1>1, <1>2, SameSets

\* How the reconciled statistics change when the counters in names are bumped.
StatsMove(names) ==
    /\ stats'["total_submissions"] =
          stats["total_submissions"] + One("total_submissions" \in names)
    /\ stats'["accepted_submissions"] =
          stats["accepted_submissions"] + One("accepted_submissions" \in names)
    /\ stats'["rejected_task_limit"] =
          stats["rejected_task_limit"] + One("rejected_task_limit" \in names)
    /\ stats'["rejected_task_queue"] =
          stats["rejected_task_queue"] + One("rejected_task_queue" \in names)
    /\ stats'["rejected_task_internal"] =
          stats["rejected_task_internal"] + One("rejected_task_internal" \in names)
    /\ stats'["finished_tasks"] = stats["finished_tasks"] + One("finished_tasks" \in names)

\* Each counter follows what the task t adds to or takes from its count.
ProducerFollows(t) ==
    producer_count' = producer_count + One(admitted'[t] = TRUE) - One(admitted[t] = TRUE)

ActiveFollows(t) ==
    /\ active_tasks' = active_tasks + One(t \in states' \/ spawn'[t] = "register")
                         - One(t \in states \/ spawn[t] = "register")
    /\ active_tasks' <= MaxTasks

CreditsFollow(t) ==
    /\ queued_tasks' = queued_tasks + (Len(queue') + HeadCount') - (Len(queue) + HeadCount)
                         + One(spawn'[t] = "send" \/ body'[t] = "dequeued")
                         - One(spawn[t] = "send" \/ body[t] = "dequeued")
    /\ queued_tasks' <= TaskQueueLimit

StatsFollow(t, total, accepted, limit, full, internal, finished) ==
    /\ stats'["total_submissions"] = stats["total_submissions"] + total
    /\ stats'["accepted_submissions"] = stats["accepted_submissions"] + accepted
    /\ stats'["rejected_task_limit"] = stats["rejected_task_limit"] + limit
    /\ stats'["rejected_task_queue"] = stats["rejected_task_queue"] + full
    /\ stats'["rejected_task_internal"] = stats["rejected_task_internal"] + internal
    /\ stats'["finished_tasks"] = stats["finished_tasks"] + finished
    /\ total = accepted + limit + full + internal
                 + One(spawn'[t] \in Admitting \cup {"limit", "sent"})
                 - One(spawn[t] \in Admitting \cup {"limit", "sent"})
    /\ accepted + One(spawn'[t] \in Admitting \cup {"sent"})
                - One(spawn[t] \in Admitting \cup {"sent"})
          = finished + One(t \in states' \/ spawn'[t] = "register")
                     - One(t \in states \/ spawn[t] = "register")

\* Counters that follow the counts stay exact.
LEMMA CountersFollow ==
    ASSUME TypeOK, CounterInv, NEW t \in Tasks, RecountedAt(t),
           ProducerFollows(t), ActiveFollows(t), CreditsFollow(t),
           NEW total \in Nat, NEW accepted \in Nat, NEW limit \in Nat, NEW full \in Nat,
           NEW internal \in Nat, NEW finished \in Nat,
           StatsFollow(t, total, accepted, limit, full, internal, finished)
    PROVE  CounterInv'
<1>1. \A b : One(b) \in Int
  BY DEF One
<1>2. /\ stats["total_submissions"] \in Nat /\ stats["accepted_submissions"] \in Nat
      /\ stats["rejected_task_limit"] \in Nat /\ stats["rejected_task_queue"] \in Nat
      /\ stats["rejected_task_internal"] \in Nat /\ stats["finished_tasks"] \in Nat
  BY DEF TypeOK, StatNames
<1>3. /\ producer_count \in Int /\ active_tasks \in Int /\ queued_tasks \in Int
      /\ Len(queue) \in Nat /\ HeadCount \in Nat
  BY DEF TypeOK, HeadCount
<1>4. IsFiniteSet(Started') /\ producer_count' = Cardinality(Admitted')
  BY <1>1, <1>3 DEF CounterInv, RecountedAt, ProducerFollows
<1>5. active_tasks' = Cardinality(Residents') /\ active_tasks' <= MaxTasks
  BY <1>1, <1>3 DEF CounterInv, RecountedAt, ActiveFollows
<1>6. /\ queued_tasks' = Len(queue') + HeadCount' + Cardinality(CreditHolders')
      /\ queued_tasks' <= TaskQueueLimit
  <2> DEFINE change == One(spawn'[t] = "send" \/ body'[t] = "dequeued")
                         - One(spawn[t] = "send" \/ body[t] = "dequeued")
             length == Len(queue) + HeadCount
             held == Cardinality(CreditHolders)
  <2>1. length \in Int /\ length' \in Int /\ change \in Int /\ held \in Int
    BY <1>1 DEF HeadCount, RecountedAt
  <2>2. queued_tasks' = queued_tasks + length' - length + change
    BY <1>1, <1>3, <2>1 DEF CreditsFollow
  <2>3. held' = held + change
    BY <1>1, <2>1 DEF RecountedAt
  <2>4. queued_tasks = length + held
    BY DEF CounterInv
  <2> HIDE DEF change, length, held
  <2>5. queued_tasks' = length' + held'
    BY <2>1, <2>2, <2>3, <2>4
  <2>6. queued_tasks' <= TaskQueueLimit
    BY DEF CreditsFollow
  <2> QED BY <2>5, <2>6 DEF length, held
<1> DEFINE newU == One(spawn'[t] \in Admitting \cup {"limit", "sent"})
           oldU == One(spawn[t] \in Admitting \cup {"limit", "sent"})
           newX == One(spawn'[t] \in Admitting \cup {"sent"})
           oldX == One(spawn[t] \in Admitting \cup {"sent"})
           newA == One(t \in states' \/ spawn'[t] = "register")
           oldA == One(t \in states \/ spawn[t] = "register")
<1>i. newU \in Int /\ oldU \in Int /\ newX \in Int /\ oldX \in Int /\ newA \in Int /\ oldA \in Int
  BY <1>1
<1>r. /\ Cardinality(Undecided') = Cardinality(Undecided) + newU - oldU
      /\ Cardinality(Unaccepted') = Cardinality(Unaccepted) + newX - oldX
      /\ Cardinality(Undecided) \in Nat /\ Cardinality(Unaccepted) \in Nat
      /\ InTransit' = InTransit /\ Cardinality(InTransit) \in Nat
      /\ active_tasks' = active_tasks + newA - oldA
  BY DEF RecountedAt, ActiveFollows
<1>s. /\ stats'["total_submissions"] = stats["total_submissions"] + total
      /\ stats'["accepted_submissions"] = stats["accepted_submissions"] + accepted
      /\ stats'["rejected_task_limit"] = stats["rejected_task_limit"] + limit
      /\ stats'["rejected_task_queue"] = stats["rejected_task_queue"] + full
      /\ stats'["rejected_task_internal"] = stats["rejected_task_internal"] + internal
      /\ stats'["finished_tasks"] = stats["finished_tasks"] + finished
      /\ total = accepted + limit + full + internal + newU - oldU
      /\ accepted + newX - oldX = finished + newA - oldA
  BY DEF StatsFollow
<1> HIDE DEF newU, oldU, newX, oldX, newA, oldA
<1>o. /\ stats["total_submissions"] =
           stats["accepted_submissions"] + stats["rejected_task_limit"]
             + stats["rejected_task_queue"] + stats["rejected_task_internal"]
             + Cardinality(Undecided)
      /\ stats["accepted_submissions"] + Cardinality(Unaccepted) =
           stats["finished_tasks"] + active_tasks + Cardinality(InTransit)
  BY DEF CounterInv
<1>7. stats'["total_submissions"] =
        stats'["accepted_submissions"] + stats'["rejected_task_limit"]
          + stats'["rejected_task_queue"] + stats'["rejected_task_internal"]
          + Cardinality(Undecided')
  BY <1>2, <1>i, <1>r, <1>s, <1>o
<1>8. stats'["accepted_submissions"] + Cardinality(Unaccepted') =
        stats'["finished_tasks"] + active_tasks' + Cardinality(InTransit')
  <2>1. stats'["accepted_submissions"] + Cardinality(Unaccepted') =
          (stats["accepted_submissions"] + Cardinality(Unaccepted)) + (accepted + newX - oldX)
    BY <1>2, <1>i, <1>r, <1>s
  <2>2. stats'["finished_tasks"] + active_tasks' + Cardinality(InTransit') =
          (stats["finished_tasks"] + active_tasks + Cardinality(InTransit)) + (finished + newA - oldA)
    BY <1>2, <1>3, <1>i, <1>r, <1>s, SMTT(30)
  <2> QED BY <1>s, <1>o, <2>1, <2>2
<1> QED BY <1>4, <1>5, <1>6, <1>7, <1>8 DEF CounterInv

\* Bump adds one to the statistics it names and leaves the others.
LEMMA BumpStep ==
    ASSUME TypeOK, NEW names, stats' = Bump(names)
    PROVE  StatsMove(names)
<1>1. \A n \in StatNames : stats'[n] = stats[n] + One(n \in names)
  BY DEF Bump, One, TypeOK
<1> QED BY <1>1 DEF StatsMove, StatNames

\* Statistics that a step leaves alone move by nothing.
LEMMA NoBump ==
    ASSUME TypeOK, stats' = stats
    PROVE  StatsMove({})
<1>1. \A n \in StatNames : stats[n] \in Nat
  BY DEF TypeOK
<1> QED BY <1>1 DEF StatsMove, StatNames, One

\* Taking a node, cached or not, shortens the queue by one.
LEMMA TakeJobLength ==
    ASSUME TypeOK, ~QueueEmpty, TakeJob
    PROVE  Len(queue') + HeadCount' = Len(queue) + HeadCount - 1
<1>1. queue \in Seq(Tasks)
  BY DEF TypeOK
<1>2. CASE head # NoTask
  BY <1>1, <1>2 DEF TakeJob, HeadCount
<1>3. CASE head = NoTask
  BY <1>1, <1>3 DEF TakeJob, HeadCount, QueueEmpty
<1> QED BY <1>2, <1>3

\* Every step keeps the counters exact.
LEMMA CounterStep ==
    ASSUME TypeOK, TypeOK', FrameInv, LifeInv, LifeInv', CounterInv, [Next]_vars
    PROVE  CounterInv'
<1>t. /\ producer_count \in Int /\ active_tasks \in Int /\ queued_tasks \in Int
      /\ stats \in [StatNames -> Nat] /\ stats' \in [StatNames -> Nat]
      /\ MaxTasks \in Nat /\ TaskQueueLimit \in Nat
      /\ spawn \in [Tasks -> SpawnLabels] /\ admitted \in [Tasks -> BOOLEAN]
      /\ body \in [Tasks -> BodyLabels] /\ states \subseteq Tasks
      /\ comp \in [Tasks -> [Roles -> CompletionLabels]]
      /\ queue \in Seq(Tasks) /\ Len(queue) \in Nat
      /\ accounting \in [Tasks -> AccountingStages]
  BY LimitsAssumption DEF TypeOK
<1>f. \A t \in Tasks : FramePlace(t) /\ NodePlace(t) /\ SubmissionPlace(t) /\ AccountingOnce(t)
  BY DEF FrameInv, LifeInv
<1>s. /\ stats["total_submissions"] \in Nat /\ stats["accepted_submissions"] \in Nat
      /\ stats["rejected_task_limit"] \in Nat /\ stats["rejected_task_queue"] \in Nat
      /\ stats["rejected_task_internal"] \in Nat /\ stats["finished_tasks"] \in Nat
  BY <1>t DEF StatNames
<1>n. /\ producer_count \in Int /\ active_tasks \in Int /\ queued_tasks \in Int
      /\ MaxTasks \in Nat /\ TaskQueueLimit \in Nat /\ Len(queue) \in Nat
      /\ HeadCount \in Nat
  BY <1>t DEF HeadCount
<1> USE DEF countVars, queueVars, outcomeVars, ackVars, ownerVars, controlVars, shutdownVars
<1>1. ASSUME NEW t \in Tasks, BeginSpawn(t) PROVE CounterInv'
  <2>1. /\ spawn[t] = "none" /\ spawn'[t] = "admit" /\ ~admitted[t]
        /\ UNCHANGED <<active_tasks, queued_tasks>>
        /\ producer_count' = producer_count + One(admitted'[t] = TRUE)
        /\ (t \in states' <=> t \in states) /\ body'[t] = body[t]
    <3>1. spawn[t] = "none" /\ ~admitted[t]
      BY <1>1, <1>f DEF BeginSpawn, SpawnStep, SubmissionPlace
    <3>2. /\ admitted' = [admitted EXCEPT ![t] = ~GateClosed]
          /\ producer_count' = IF GateClosed THEN producer_count ELSE producer_count + 1
      BY <1>1 DEF BeginSpawn
    <3>3. producer_count' = producer_count + One(admitted'[t] = TRUE)
      <4>1. CASE GateClosed
        <5>1. producer_count' = producer_count /\ producer_count \in Int
          BY <1>t, <3>2, <4>1
        <5>2. admitted'[t] # TRUE
          BY <1>t, <3>2, <4>1, Zenon
        <5>3. One(admitted'[t] = TRUE) = 0
          BY <5>2 DEF One
        <5> QED BY <5>1, <5>3
      <4>2. CASE ~GateClosed
        BY <1>t, <3>2, <4>2 DEF One
      <4> QED BY <4>1, <4>2
    <3> QED BY <1>1, <1>t, <3>1, <3>3 DEF BeginSpawn, SpawnStep
  <2>2. /\ \A u \in Tasks \ {t} :
              /\ spawn'[u] = spawn[u] /\ (admitted'[u] <=> admitted[u])
              /\ u \in states' <=> u \in states
              /\ body'[u] = "dequeued" <=> body[u] = "dequeued"
        /\ Len(queue') = Len(queue) /\ HeadCount' = HeadCount /\ accounting' = accounting
    BY <1>1, <1>t DEF BeginSpawn, SpawnStep, HeadCount
  <2>3. RecountedAt(t)
    BY <2>2, Recount
  <2>4. StatsMove({})
    BY <1>1, <1>s, NoBump DEF BeginSpawn
  <2>5. ProducerFollows(t)
    BY <1>n, <2>1 DEF ProducerFollows, One
  <2>6. ActiveFollows(t)
    BY <1>n, <2>1 DEF ActiveFollows, One, CounterInv
  <2>7. CreditsFollow(t)
    BY <1>n, <2>1, <2>2 DEF CreditsFollow, One, CounterInv
  <2>8. StatsFollow(t, 0, 0, 0, 0, 0, 0)
    BY <1>s, <2>1, <2>4 DEF StatsMove, StatsFollow, One, Admitting
  <2> QED BY <2>3, <2>5, <2>6, <2>7, <2>8, CountersFollow
<1>2. ASSUME NEW t \in Tasks, DenySpawn(t) PROVE CounterInv'
  <2>1. /\ spawn[t] = "admit" /\ spawn'[t] = "leave" /\ (admitted'[t] <=> admitted[t])
        /\ UNCHANGED <<producer_count, active_tasks, queued_tasks>>
        /\ (t \in states' <=> t \in states) /\ body'[t] = body[t]
    BY <1>2, <1>t, <1>f DEF DenySpawn, SpawnStep, NodePlace, SubmissionPlace, Handed, Admitting
  <2>2. /\ \A u \in Tasks \ {t} :
              /\ spawn'[u] = spawn[u] /\ (admitted'[u] <=> admitted[u])
              /\ u \in states' <=> u \in states
              /\ body'[u] = "dequeued" <=> body[u] = "dequeued"
        /\ Len(queue') = Len(queue) /\ HeadCount' = HeadCount /\ accounting' = accounting
    BY <1>2, <1>t DEF DenySpawn, SpawnStep, HeadCount
  <2>3. RecountedAt(t)
    BY <2>2, Recount
  <2>4. StatsMove({})
    BY <1>2, <1>s, NoBump DEF DenySpawn
  <2>5. ProducerFollows(t)
    BY <1>n, <2>1 DEF ProducerFollows, One
  <2>6. ActiveFollows(t)
    BY <1>n, <2>1 DEF ActiveFollows, One, CounterInv
  <2>7. CreditsFollow(t)
    BY <1>n, <2>1, <2>2 DEF CreditsFollow, One, CounterInv
  <2>8. StatsFollow(t, 0, 0, 0, 0, 0, 0)
    BY <1>s, <2>1, <2>4 DEF StatsMove, StatsFollow, One, Admitting
  <2> QED BY <2>3, <2>5, <2>6, <2>7, <2>8, CountersFollow
<1>3. ASSUME NEW t \in Tasks, CreateTask(t) PROVE CounterInv'
  <2>1. /\ spawn[t] = "admit" /\ spawn'[t] = "limit" /\ (admitted'[t] <=> admitted[t])
        /\ UNCHANGED <<producer_count, active_tasks, queued_tasks>>
        /\ (t \in states' <=> t \in states) /\ body'[t] = body[t]
    BY <1>3, <1>t, <1>f
    DEF CreateTask, SpawnStep, NodePlace, SubmissionPlace, Handed, Admitting
  <2>2. /\ \A u \in Tasks \ {t} :
              /\ spawn'[u] = spawn[u] /\ (admitted'[u] <=> admitted[u])
              /\ u \in states' <=> u \in states
              /\ body'[u] = "dequeued" <=> body[u] = "dequeued"
        /\ Len(queue') = Len(queue) /\ HeadCount' = HeadCount /\ accounting' = accounting
    BY <1>3, <1>t DEF CreateTask, SpawnStep, HeadCount
  <2>3. RecountedAt(t)
    BY <2>2, Recount
  <2>4. StatsMove({"total_submissions"})
    BY <1>3, BumpStep DEF CreateTask
  <2>5. ProducerFollows(t)
    BY <1>n, <2>1 DEF ProducerFollows, One
  <2>6. ActiveFollows(t)
    BY <1>n, <2>1 DEF ActiveFollows, One, CounterInv
  <2>7. CreditsFollow(t)
    BY <1>n, <2>1, <2>2 DEF CreditsFollow, One, CounterInv
  <2>8. StatsFollow(t, 1, 0, 0, 0, 0, 0)
    BY <1>s, <2>1, <2>4 DEF StatsMove, StatsFollow, One, Admitting
  <2> QED BY <2>3, <2>5, <2>6, <2>7, <2>8, CountersFollow
<1>4. ASSUME NEW t \in Tasks, RejectClosed(t) PROVE CounterInv'
  <2>1. /\ spawn[t] = "admit" /\ spawn'[t] = "rejecting" /\ (admitted'[t] <=> admitted[t])
        /\ UNCHANGED <<producer_count, active_tasks, queued_tasks>>
        /\ (t \in states' <=> t \in states) /\ body'[t] = body[t]
    BY <1>4, <1>t, <1>f
    DEF RejectClosed, SpawnStep, NodePlace, SubmissionPlace, Handed, Admitting
  <2>2. /\ \A u \in Tasks \ {t} :
              /\ spawn'[u] = spawn[u] /\ (admitted'[u] <=> admitted[u])
              /\ u \in states' <=> u \in states
              /\ body'[u] = "dequeued" <=> body[u] = "dequeued"
        /\ Len(queue') = Len(queue) /\ HeadCount' = HeadCount /\ accounting' = accounting
    BY <1>4, <1>t DEF RejectClosed, SpawnStep, HeadCount
  <2>3. RecountedAt(t)
    BY <2>2, Recount
  <2>4. StatsMove({"total_submissions", "rejected_task_internal"})
    BY <1>4, BumpStep DEF RejectClosed, EarlyReject
  <2>5. ProducerFollows(t)
    BY <1>n, <2>1 DEF ProducerFollows, One
  <2>6. ActiveFollows(t)
    BY <1>n, <2>1 DEF ActiveFollows, One, CounterInv
  <2>7. CreditsFollow(t)
    BY <1>n, <2>1, <2>2 DEF CreditsFollow, One, CounterInv
  <2>8. StatsFollow(t, 1, 0, 0, 0, 1, 0)
    BY <1>s, <2>1, <2>4 DEF StatsMove, StatsFollow, One, Admitting
  <2> QED BY <2>3, <2>5, <2>6, <2>7, <2>8, CountersFollow
<1>5. ASSUME NEW t \in Tasks, TakeActive(t) PROVE CounterInv'
  <2>1. /\ spawn[t] = "limit" /\ spawn'[t] = "register" /\ (admitted'[t] <=> admitted[t])
        /\ UNCHANGED <<producer_count, queued_tasks>>
        /\ active_tasks' = active_tasks + 1 /\ active_tasks < MaxTasks
        /\ t \notin states /\ t \notin states' /\ body'[t] = body[t]
    BY <1>5, <1>t, <1>f
    DEF TakeActive, SpawnStep, NodePlace, SubmissionPlace, Handed, Admitting
  <2>2. /\ \A u \in Tasks \ {t} :
              /\ spawn'[u] = spawn[u] /\ (admitted'[u] <=> admitted[u])
              /\ u \in states' <=> u \in states
              /\ body'[u] = "dequeued" <=> body[u] = "dequeued"
        /\ Len(queue') = Len(queue) /\ HeadCount' = HeadCount /\ accounting' = accounting
    BY <1>5, <1>t DEF TakeActive, SpawnStep, HeadCount
  <2>3. RecountedAt(t)
    BY <2>2, Recount
  <2>4. StatsMove({})
    BY <1>5, <1>s, NoBump DEF TakeActive
  <2>5. ProducerFollows(t)
    BY <1>n, <2>1 DEF ProducerFollows, One
  <2>6. ActiveFollows(t)
    BY <1>n, <2>1 DEF ActiveFollows, One, CounterInv
  <2>7. CreditsFollow(t)
    BY <1>n, <2>1, <2>2 DEF CreditsFollow, One, CounterInv
  <2>8. StatsFollow(t, 0, 0, 0, 0, 0, 0)
    BY <1>s, <2>1, <2>4 DEF StatsMove, StatsFollow, One, Admitting
  <2> QED BY <2>3, <2>5, <2>6, <2>7, <2>8, CountersFollow
<1>6. ASSUME NEW t \in Tasks, RejectAtLimit(t) PROVE CounterInv'
  <2>1. /\ spawn[t] = "limit" /\ spawn'[t] = "rejecting" /\ (admitted'[t] <=> admitted[t])
        /\ UNCHANGED <<producer_count, active_tasks, queued_tasks>>
        /\ (t \in states' <=> t \in states) /\ body'[t] = body[t]
    BY <1>6, <1>t, <1>f
    DEF RejectAtLimit, SpawnStep, NodePlace, SubmissionPlace, Handed, Admitting
  <2>2. /\ \A u \in Tasks \ {t} :
              /\ spawn'[u] = spawn[u] /\ (admitted'[u] <=> admitted[u])
              /\ u \in states' <=> u \in states
              /\ body'[u] = "dequeued" <=> body[u] = "dequeued"
        /\ Len(queue') = Len(queue) /\ HeadCount' = HeadCount /\ accounting' = accounting
    BY <1>6, <1>t DEF RejectAtLimit, SpawnStep, HeadCount
  <2>3. RecountedAt(t)
    BY <2>2, Recount
  <2>4. StatsMove({"rejected_task_limit"})
    BY <1>6, BumpStep DEF RejectAtLimit, EarlyReject
  <2>5. ProducerFollows(t)
    BY <1>n, <2>1 DEF ProducerFollows, One
  <2>6. ActiveFollows(t)
    BY <1>n, <2>1 DEF ActiveFollows, One, CounterInv
  <2>7. CreditsFollow(t)
    BY <1>n, <2>1, <2>2 DEF CreditsFollow, One, CounterInv
  <2>8. StatsFollow(t, 0, 0, 1, 0, 0, 0)
    BY <1>s, <2>1, <2>4 DEF StatsMove, StatsFollow, One, Admitting
  <2> QED BY <2>3, <2>5, <2>6, <2>7, <2>8, CountersFollow
<1>7. ASSUME NEW t \in Tasks, Register(t) PROVE CounterInv'
  <2>1. /\ spawn[t] = "register" /\ spawn'[t] = "build" /\ (admitted'[t] <=> admitted[t])
        /\ UNCHANGED <<producer_count, active_tasks, queued_tasks>>
        /\ t \in states' /\ body'[t] = body[t]
    BY <1>7, <1>t, <1>f DEF Register, SpawnStep, NodePlace, SubmissionPlace, Handed, Admitting
  <2>2. /\ \A u \in Tasks \ {t} :
              /\ spawn'[u] = spawn[u] /\ (admitted'[u] <=> admitted[u])
              /\ u \in states' <=> u \in states
              /\ body'[u] = "dequeued" <=> body[u] = "dequeued"
        /\ Len(queue') = Len(queue) /\ HeadCount' = HeadCount /\ accounting' = accounting
    BY <1>7, <1>t DEF Register, SpawnStep, HeadCount
  <2>3. RecountedAt(t)
    BY <2>2, Recount
  <2>4. StatsMove({})
    BY <1>7, <1>s, NoBump DEF Register
  <2>5. ProducerFollows(t)
    BY <1>n, <2>1 DEF ProducerFollows, One
  <2>6. ActiveFollows(t)
    BY <1>n, <2>1 DEF ActiveFollows, One, CounterInv
  <2>7. CreditsFollow(t)
    BY <1>n, <2>1, <2>2 DEF CreditsFollow, One, CounterInv
  <2>8. StatsFollow(t, 0, 0, 0, 0, 0, 0)
    BY <1>s, <2>1, <2>4 DEF StatsMove, StatsFollow, One, Admitting
  <2> QED BY <2>3, <2>5, <2>6, <2>7, <2>8, CountersFollow
<1>8. ASSUME NEW t \in Tasks, RejectClosing(t) PROVE CounterInv'
  <2>1. /\ spawn[t] = "register" /\ spawn'[t] = "rejecting" /\ (admitted'[t] <=> admitted[t])
        /\ UNCHANGED <<producer_count, queued_tasks>>
        /\ active_tasks' = active_tasks - 1
        /\ t \notin states' /\ body'[t] = body[t]
    BY <1>8, <1>t, <1>f
    DEF RejectClosing, SpawnStep, Rollback, NodePlace, SubmissionPlace, Handed, Admitting
  <2>2. /\ \A u \in Tasks \ {t} :
              /\ spawn'[u] = spawn[u] /\ (admitted'[u] <=> admitted[u])
              /\ u \in states' <=> u \in states
              /\ body'[u] = "dequeued" <=> body[u] = "dequeued"
        /\ Len(queue') = Len(queue) /\ HeadCount' = HeadCount /\ accounting' = accounting
    BY <1>8, <1>t DEF RejectClosing, SpawnStep, Rollback, HeadCount
  <2>3. RecountedAt(t)
    BY <2>2, Recount
  <2>4. StatsMove({"rejected_task_internal"})
    BY <1>8, BumpStep DEF RejectClosing, EarlyReject
  <2>5. ProducerFollows(t)
    BY <1>n, <2>1 DEF ProducerFollows, One
  <2>6. ActiveFollows(t)
    BY <1>n, <2>1 DEF ActiveFollows, One, CounterInv
  <2>7. CreditsFollow(t)
    BY <1>n, <2>1, <2>2 DEF CreditsFollow, One, CounterInv
  <2>8. StatsFollow(t, 0, 0, 0, 0, 1, 0)
    BY <1>s, <2>1, <2>4 DEF StatsMove, StatsFollow, One, Admitting
  <2> QED BY <2>3, <2>5, <2>6, <2>7, <2>8, CountersFollow
<1>9. ASSUME NEW t \in Tasks, Build(t) PROVE CounterInv'
  <2>1. /\ spawn[t] = "build" /\ spawn'[t] = "install" /\ (admitted'[t] <=> admitted[t])
        /\ UNCHANGED <<producer_count, active_tasks, queued_tasks>>
        /\ (t \in states' <=> t \in states) /\ body'[t] = body[t]
    BY <1>9, <1>t, <1>f DEF Build, SpawnStep, NodePlace, SubmissionPlace, Handed, Admitting
  <2>2. /\ \A u \in Tasks \ {t} :
              /\ spawn'[u] = spawn[u] /\ (admitted'[u] <=> admitted[u])
              /\ u \in states' <=> u \in states
              /\ body'[u] = "dequeued" <=> body[u] = "dequeued"
        /\ Len(queue') = Len(queue) /\ HeadCount' = HeadCount /\ accounting' = accounting
    BY <1>9, <1>t DEF Build, SpawnStep, HeadCount
  <2>3. RecountedAt(t)
    BY <2>2, Recount
  <2>4. StatsMove({})
    BY <1>9, <1>s, NoBump DEF Build
  <2>5. ProducerFollows(t)
    BY <1>n, <2>1 DEF ProducerFollows, One
  <2>6. ActiveFollows(t)
    BY <1>n, <2>1 DEF ActiveFollows, One, CounterInv
  <2>7. CreditsFollow(t)
    BY <1>n, <2>1, <2>2 DEF CreditsFollow, One, CounterInv
  <2>8. StatsFollow(t, 0, 0, 0, 0, 0, 0)
    BY <1>s, <2>1, <2>4 DEF StatsMove, StatsFollow, One, Admitting
  <2> QED BY <2>3, <2>5, <2>6, <2>7, <2>8, CountersFollow
<1>10. ASSUME NEW t \in Tasks, BuildPanic(t) PROVE CounterInv'
  <2>1. /\ spawn[t] = "build" /\ spawn'[t] = "rejecting" /\ (admitted'[t] <=> admitted[t])
        /\ UNCHANGED <<producer_count, queued_tasks>>
        /\ active_tasks' = active_tasks - 1
        /\ t \in states /\ t \notin states' /\ body'[t] = body[t]
    BY <1>10, <1>t, <1>f
    DEF BuildPanic, SpawnStep, Rollback, NodePlace, SubmissionPlace, Handed, Admitting
  <2>2. /\ \A u \in Tasks \ {t} :
              /\ spawn'[u] = spawn[u] /\ (admitted'[u] <=> admitted[u])
              /\ u \in states' <=> u \in states
              /\ body'[u] = "dequeued" <=> body[u] = "dequeued"
        /\ Len(queue') = Len(queue) /\ HeadCount' = HeadCount /\ accounting' = accounting
    BY <1>10, <1>t DEF BuildPanic, SpawnStep, Rollback, HeadCount
  <2>3. RecountedAt(t)
    BY <2>2, Recount
  <2>4. StatsMove({"rejected_task_internal"})
    BY <1>10, BumpStep DEF BuildPanic, EarlyReject
  <2>5. ProducerFollows(t)
    BY <1>n, <2>1 DEF ProducerFollows, One
  <2>6. ActiveFollows(t)
    BY <1>n, <2>1 DEF ActiveFollows, One, CounterInv
  <2>7. CreditsFollow(t)
    BY <1>n, <2>1, <2>2 DEF CreditsFollow, One, CounterInv
  <2>8. StatsFollow(t, 0, 0, 0, 0, 1, 0)
    BY <1>s, <2>1, <2>4 DEF StatsMove, StatsFollow, One, Admitting
  <2> QED BY <2>3, <2>5, <2>6, <2>7, <2>8, CountersFollow
<1>11. ASSUME NEW t \in Tasks, InstallRun(t) PROVE CounterInv'
  <2>1. /\ spawn[t] = "install" /\ spawn'[t] = "reserve" /\ (admitted'[t] <=> admitted[t])
        /\ UNCHANGED <<producer_count, active_tasks, queued_tasks>>
        /\ (t \in states' <=> t \in states) /\ body'[t] = body[t]
    BY <1>11, <1>t, <1>f
    DEF InstallRun, SpawnStep, Move, NodePlace, SubmissionPlace, Handed, Admitting
  <2>2. /\ \A u \in Tasks \ {t} :
              /\ spawn'[u] = spawn[u] /\ (admitted'[u] <=> admitted[u])
              /\ u \in states' <=> u \in states
              /\ body'[u] = "dequeued" <=> body[u] = "dequeued"
        /\ Len(queue') = Len(queue) /\ HeadCount' = HeadCount /\ accounting' = accounting
    BY <1>11, <1>t DEF InstallRun, SpawnStep, Move, HeadCount
  <2>3. RecountedAt(t)
    BY <2>2, Recount
  <2>4. StatsMove({})
    BY <1>11, <1>s, NoBump DEF InstallRun
  <2>5. ProducerFollows(t)
    BY <1>n, <2>1 DEF ProducerFollows, One
  <2>6. ActiveFollows(t)
    BY <1>n, <2>1 DEF ActiveFollows, One, CounterInv
  <2>7. CreditsFollow(t)
    BY <1>n, <2>1, <2>2 DEF CreditsFollow, One, CounterInv
  <2>8. StatsFollow(t, 0, 0, 0, 0, 0, 0)
    BY <1>s, <2>1, <2>4 DEF StatsMove, StatsFollow, One, Admitting
  <2> QED BY <2>3, <2>5, <2>6, <2>7, <2>8, CountersFollow
<1>12. ASSUME NEW t \in Tasks, RefuseInstall(t) PROVE CounterInv'
  <2>1. /\ spawn[t] = "install" /\ spawn'[t] = "installing" /\ (admitted'[t] <=> admitted[t])
        /\ UNCHANGED <<producer_count, active_tasks, queued_tasks>>
        /\ (t \in states' <=> t \in states) /\ body'[t] = body[t]
    BY <1>12, <1>t, <1>f
    DEF RefuseInstall, SpawnStep, Move, NodePlace, SubmissionPlace, Handed, Admitting
  <2>2. /\ \A u \in Tasks \ {t} :
              /\ spawn'[u] = spawn[u] /\ (admitted'[u] <=> admitted[u])
              /\ u \in states' <=> u \in states
              /\ body'[u] = "dequeued" <=> body[u] = "dequeued"
        /\ Len(queue') = Len(queue) /\ HeadCount' = HeadCount /\ accounting' = accounting
    BY <1>12, <1>t DEF RefuseInstall, SpawnStep, Move, HeadCount
  <2>3. RecountedAt(t)
    BY <2>2, Recount
  <2>4. StatsMove({})
    BY <1>12, <1>s, NoBump DEF RefuseInstall
  <2>5. ProducerFollows(t)
    BY <1>n, <2>1 DEF ProducerFollows, One
  <2>6. ActiveFollows(t)
    BY <1>n, <2>1 DEF ActiveFollows, One, CounterInv
  <2>7. CreditsFollow(t)
    BY <1>n, <2>1, <2>2 DEF CreditsFollow, One, CounterInv
  <2>8. StatsFollow(t, 0, 0, 0, 0, 0, 0)
    BY <1>s, <2>1, <2>4 DEF StatsMove, StatsFollow, One, Admitting
  <2> QED BY <2>3, <2>5, <2>6, <2>7, <2>8, CountersFollow
<1>13. ASSUME NEW t \in Tasks, AfterInstall(t) PROVE CounterInv'
  <2>1. /\ spawn[t] = "installing" /\ spawn'[t] = "reserve" /\ (admitted'[t] <=> admitted[t])
        /\ UNCHANGED <<producer_count, active_tasks, queued_tasks>>
        /\ (t \in states' <=> t \in states) /\ body'[t] = body[t]
    BY <1>13, <1>t, <1>f
    DEF AfterInstall, SpawnStep, NodePlace, SubmissionPlace, Handed, Admitting
  <2>2. /\ \A u \in Tasks \ {t} :
              /\ spawn'[u] = spawn[u] /\ (admitted'[u] <=> admitted[u])
              /\ u \in states' <=> u \in states
              /\ body'[u] = "dequeued" <=> body[u] = "dequeued"
        /\ Len(queue') = Len(queue) /\ HeadCount' = HeadCount /\ accounting' = accounting
    BY <1>13, <1>t DEF AfterInstall, SpawnStep, HeadCount
  <2>3. RecountedAt(t)
    BY <2>2, Recount
  <2>4. StatsMove({})
    BY <1>13, <1>s, NoBump DEF AfterInstall
  <2>5. ProducerFollows(t)
    BY <1>n, <2>1 DEF ProducerFollows, One
  <2>6. ActiveFollows(t)
    BY <1>n, <2>1 DEF ActiveFollows, One, CounterInv
  <2>7. CreditsFollow(t)
    BY <1>n, <2>1, <2>2 DEF CreditsFollow, One, CounterInv
  <2>8. StatsFollow(t, 0, 0, 0, 0, 0, 0)
    BY <1>s, <2>1, <2>4 DEF StatsMove, StatsFollow, One, Admitting
  <2> QED BY <2>3, <2>5, <2>6, <2>7, <2>8, CountersFollow
<1>14. ASSUME NEW t \in Tasks, HeaderOverflow(t) PROVE CounterInv'
  <2>1. /\ spawn[t] = "reserve" /\ spawn'[t] = "reject" /\ (admitted'[t] <=> admitted[t])
        /\ UNCHANGED <<producer_count, queued_tasks>>
        /\ active_tasks' = active_tasks - 1
        /\ t \in states /\ t \notin states' /\ body'[t] = body[t]
    BY <1>14, <1>t, <1>f
    DEF HeaderOverflow, SpawnStep, Rollback, NodePlace, SubmissionPlace, Handed,
        Admitting
  <2>2. /\ \A u \in Tasks \ {t} :
              /\ spawn'[u] = spawn[u] /\ (admitted'[u] <=> admitted[u])
              /\ u \in states' <=> u \in states
              /\ body'[u] = "dequeued" <=> body[u] = "dequeued"
        /\ Len(queue') = Len(queue) /\ HeadCount' = HeadCount /\ accounting' = accounting
    BY <1>14, <1>t DEF HeaderOverflow, SpawnStep, Rollback, HeadCount
  <2>3. RecountedAt(t)
    BY <2>2, Recount
  <2>4. StatsMove({"rejected_task_internal"})
    BY <1>14, BumpStep DEF HeaderOverflow
  <2>5. ProducerFollows(t)
    BY <1>n, <2>1 DEF ProducerFollows, One
  <2>6. ActiveFollows(t)
    BY <1>n, <2>1 DEF ActiveFollows, One, CounterInv
  <2>7. CreditsFollow(t)
    BY <1>n, <2>1, <2>2 DEF CreditsFollow, One, CounterInv
  <2>8. StatsFollow(t, 0, 0, 0, 0, 1, 0)
    BY <1>s, <2>1, <2>4 DEF StatsMove, StatsFollow, One, Admitting
  <2> QED BY <2>3, <2>5, <2>6, <2>7, <2>8, CountersFollow
<1>15. ASSUME NEW t \in Tasks, ReserveQueue(t) PROVE CounterInv'
  <2>1. /\ spawn[t] = "reserve" /\ spawn'[t] = "send" /\ (admitted'[t] <=> admitted[t])
        /\ UNCHANGED <<producer_count, active_tasks, accounting>>
        /\ queued_tasks' = queued_tasks + 1 /\ queued_tasks < TaskQueueLimit
        /\ (t \in states' <=> t \in states) /\ body'[t] = body[t] /\ body[t] = "none"
    BY <1>15, <1>t, <1>f
    DEF ReserveQueue, SpawnStep, NodePlace, SubmissionPlace, Handed, Admitting
  <2>2. /\ \A u \in Tasks \ {t} :
              /\ spawn'[u] = spawn[u] /\ (admitted'[u] <=> admitted[u])
              /\ u \in states' <=> u \in states
              /\ body'[u] = "dequeued" <=> body[u] = "dequeued"
        /\ Len(queue') = Len(queue) /\ HeadCount' = HeadCount /\ accounting' = accounting
    BY <1>15, <1>t DEF ReserveQueue, SpawnStep, HeadCount
  <2>3. RecountedAt(t)
    BY <2>2, Recount
  <2>4. StatsMove({})
    BY <1>15, <1>s, NoBump DEF ReserveQueue
  <2>5. ProducerFollows(t)
    BY <1>n, <2>1 DEF ProducerFollows, One
  <2>6. ActiveFollows(t)
    BY <1>n, <2>1 DEF ActiveFollows, One, CounterInv
  <2>7. CreditsFollow(t)
    BY <1>n, <2>1, <2>2 DEF CreditsFollow, One, CounterInv
  <2>8. StatsFollow(t, 0, 0, 0, 0, 0, 0)
    BY <1>s, <2>1, <2>4 DEF StatsMove, StatsFollow, One, Admitting
  <2> QED BY <2>3, <2>5, <2>6, <2>7, <2>8, CountersFollow
<1>16. ASSUME NEW t \in Tasks, RejectAtQueueLimit(t) PROVE CounterInv'
  <2>1. /\ spawn[t] = "reserve" /\ spawn'[t] = "reject" /\ (admitted'[t] <=> admitted[t])
        /\ UNCHANGED <<producer_count, queued_tasks>>
        /\ active_tasks' = active_tasks - 1
        /\ t \in states /\ t \notin states' /\ body'[t] = body[t]
    BY <1>16, <1>t, <1>f
    DEF RejectAtQueueLimit, SpawnStep, Rollback, NodePlace, SubmissionPlace, Handed,
        Admitting
  <2>2. /\ \A u \in Tasks \ {t} :
              /\ spawn'[u] = spawn[u] /\ (admitted'[u] <=> admitted[u])
              /\ u \in states' <=> u \in states
              /\ body'[u] = "dequeued" <=> body[u] = "dequeued"
        /\ Len(queue') = Len(queue) /\ HeadCount' = HeadCount /\ accounting' = accounting
    BY <1>16, <1>t DEF RejectAtQueueLimit, SpawnStep, Rollback, HeadCount
  <2>3. RecountedAt(t)
    BY <2>2, Recount
  <2>4. StatsMove({"rejected_task_queue"})
    BY <1>16, BumpStep DEF RejectAtQueueLimit
  <2>5. ProducerFollows(t)
    BY <1>n, <2>1 DEF ProducerFollows, One
  <2>6. ActiveFollows(t)
    BY <1>n, <2>1 DEF ActiveFollows, One, CounterInv
  <2>7. CreditsFollow(t)
    BY <1>n, <2>1, <2>2 DEF CreditsFollow, One, CounterInv
  <2>8. StatsFollow(t, 0, 0, 0, 1, 0, 0)
    BY <1>s, <2>1, <2>4 DEF StatsMove, StatsFollow, One, Admitting
  <2> QED BY <2>3, <2>5, <2>6, <2>7, <2>8, CountersFollow
<1>17. ASSUME NEW t \in Tasks, Send(t) PROVE CounterInv'
  <2>1. /\ spawn[t] = "send" /\ spawn'[t] = "sent" /\ (admitted'[t] <=> admitted[t])
        /\ UNCHANGED <<producer_count, active_tasks, queued_tasks>>
        /\ (t \in states' <=> t \in states) /\ body'[t] = body[t] /\ body[t] = "none"
    BY <1>17, <1>t, <1>f DEF Send, SpawnStep, NodePlace, SubmissionPlace, Handed, Admitting
  <2>2. /\ \A u \in Tasks \ {t} :
              /\ spawn'[u] = spawn[u] /\ (admitted'[u] <=> admitted[u])
              /\ u \in states' <=> u \in states
              /\ body'[u] = "dequeued" <=> body[u] = "dequeued"
        /\ Len(queue') = Len(queue) + 1 /\ HeadCount' = HeadCount /\ accounting' = accounting
    BY <1>17, <1>t DEF Send, SpawnStep, HeadCount
  <2>3. RecountedAt(t)
    BY <2>2, Recount
  <2>4. StatsMove({})
    BY <1>17, <1>s, NoBump DEF Send
  <2>5. ProducerFollows(t)
    BY <1>n, <2>1 DEF ProducerFollows, One
  <2>6. ActiveFollows(t)
    BY <1>n, <2>1 DEF ActiveFollows, One, CounterInv
  <2>7. CreditsFollow(t)
    BY <1>n, <2>1, <2>2 DEF CreditsFollow, One, CounterInv
  <2>8. StatsFollow(t, 0, 0, 0, 0, 0, 0)
    BY <1>s, <2>1, <2>4 DEF StatsMove, StatsFollow, One, Admitting
  <2> QED BY <2>3, <2>5, <2>6, <2>7, <2>8, CountersFollow
<1>18. ASSUME NEW t \in Tasks, CountAccepted(t) PROVE CounterInv'
  <2>1. /\ spawn[t] = "sent" /\ spawn'[t] = "accepted" /\ (admitted'[t] <=> admitted[t])
        /\ UNCHANGED <<producer_count, active_tasks, queued_tasks>>
        /\ (t \in states' <=> t \in states) /\ body'[t] = body[t]
    BY <1>18, <1>t, <1>f
    DEF CountAccepted, SpawnStep, NodePlace, SubmissionPlace, Handed, Admitting
  <2>2. /\ \A u \in Tasks \ {t} :
              /\ spawn'[u] = spawn[u] /\ (admitted'[u] <=> admitted[u])
              /\ u \in states' <=> u \in states
              /\ body'[u] = "dequeued" <=> body[u] = "dequeued"
        /\ Len(queue') = Len(queue) /\ HeadCount' = HeadCount /\ accounting' = accounting
    BY <1>18, <1>t DEF CountAccepted, SpawnStep, HeadCount
  <2>3. RecountedAt(t)
    BY <2>2, Recount
  <2>4. StatsMove({"accepted_submissions"})
    BY <1>18, BumpStep DEF CountAccepted
  <2>5. ProducerFollows(t)
    BY <1>n, <2>1 DEF ProducerFollows, One
  <2>6. ActiveFollows(t)
    BY <1>n, <2>1 DEF ActiveFollows, One, CounterInv
  <2>7. CreditsFollow(t)
    BY <1>n, <2>1, <2>2 DEF CreditsFollow, One, CounterInv
  <2>8. StatsFollow(t, 0, 1, 0, 0, 0, 0)
    BY <1>s, <2>1, <2>4 DEF StatsMove, StatsFollow, One, Admitting
  <2> QED BY <2>3, <2>5, <2>6, <2>7, <2>8, CountersFollow
<1>19. ASSUME NEW t \in Tasks, RejectQueued(t) PROVE CounterInv'
  <2>1. /\ spawn[t] = "reject" /\ spawn'[t] = "rejecting" /\ (admitted'[t] <=> admitted[t])
        /\ UNCHANGED <<producer_count, active_tasks, queued_tasks>>
        /\ (t \in states' <=> t \in states) /\ body'[t] = body[t]
    BY <1>19, <1>t, <1>f
    DEF RejectQueued, SpawnStep, Move, NodePlace, SubmissionPlace, Handed, Admitting
  <2>2. /\ \A u \in Tasks \ {t} :
              /\ spawn'[u] = spawn[u] /\ (admitted'[u] <=> admitted[u])
              /\ u \in states' <=> u \in states
              /\ body'[u] = "dequeued" <=> body[u] = "dequeued"
        /\ Len(queue') = Len(queue) /\ HeadCount' = HeadCount /\ accounting' = accounting
    BY <1>19, <1>t DEF RejectQueued, SpawnStep, Move, HeadCount
  <2>3. RecountedAt(t)
    BY <2>2, Recount
  <2>4. StatsMove({})
    BY <1>19, <1>s, NoBump DEF RejectQueued
  <2>5. ProducerFollows(t)
    BY <1>n, <2>1 DEF ProducerFollows, One
  <2>6. ActiveFollows(t)
    BY <1>n, <2>1 DEF ActiveFollows, One, CounterInv
  <2>7. CreditsFollow(t)
    BY <1>n, <2>1, <2>2 DEF CreditsFollow, One, CounterInv
  <2>8. StatsFollow(t, 0, 0, 0, 0, 0, 0)
    BY <1>s, <2>1, <2>4 DEF StatsMove, StatsFollow, One, Admitting
  <2> QED BY <2>3, <2>5, <2>6, <2>7, <2>8, CountersFollow
<1>20. ASSUME NEW t \in Tasks, YieldRejection(t) PROVE CounterInv'
  <2>1. /\ spawn[t] = "reject" /\ spawn'[t] = "settle" /\ (admitted'[t] <=> admitted[t])
        /\ UNCHANGED <<producer_count, active_tasks, queued_tasks>>
        /\ (t \in states' <=> t \in states) /\ body'[t] = body[t]
    BY <1>20, <1>t, <1>f
    DEF YieldRejection, SpawnStep, NodePlace, SubmissionPlace, Handed, Admitting
  <2>2. /\ \A u \in Tasks \ {t} :
              /\ spawn'[u] = spawn[u] /\ (admitted'[u] <=> admitted[u])
              /\ u \in states' <=> u \in states
              /\ body'[u] = "dequeued" <=> body[u] = "dequeued"
        /\ Len(queue') = Len(queue) /\ HeadCount' = HeadCount /\ accounting' = accounting
    BY <1>20, <1>t DEF YieldRejection, SpawnStep, HeadCount
  <2>3. RecountedAt(t)
    BY <2>2, Recount
  <2>4. StatsMove({})
    BY <1>20, <1>s, NoBump DEF YieldRejection
  <2>5. ProducerFollows(t)
    BY <1>n, <2>1 DEF ProducerFollows, One
  <2>6. ActiveFollows(t)
    BY <1>n, <2>1 DEF ActiveFollows, One, CounterInv
  <2>7. CreditsFollow(t)
    BY <1>n, <2>1, <2>2 DEF CreditsFollow, One, CounterInv
  <2>8. StatsFollow(t, 0, 0, 0, 0, 0, 0)
    BY <1>s, <2>1, <2>4 DEF StatsMove, StatsFollow, One, Admitting
  <2> QED BY <2>3, <2>5, <2>6, <2>7, <2>8, CountersFollow
<1>21. ASSUME NEW t \in Tasks, AfterReject(t) PROVE CounterInv'
  <2>1. /\ spawn[t] = "rejecting" /\ spawn'[t] = "settle" /\ (admitted'[t] <=> admitted[t])
        /\ UNCHANGED <<producer_count, active_tasks, queued_tasks>>
        /\ (t \in states' <=> t \in states) /\ body'[t] = body[t]
    BY <1>21, <1>t, <1>f
    DEF AfterReject, SpawnStep, NodePlace, SubmissionPlace, Handed, Admitting
  <2>2. /\ \A u \in Tasks \ {t} :
              /\ spawn'[u] = spawn[u] /\ (admitted'[u] <=> admitted[u])
              /\ u \in states' <=> u \in states
              /\ body'[u] = "dequeued" <=> body[u] = "dequeued"
        /\ Len(queue') = Len(queue) /\ HeadCount' = HeadCount /\ accounting' = accounting
    BY <1>21, <1>t DEF AfterReject, SpawnStep, HeadCount
  <2>3. RecountedAt(t)
    BY <2>2, Recount
  <2>4. StatsMove({})
    BY <1>21, <1>s, NoBump DEF AfterReject
  <2>5. ProducerFollows(t)
    BY <1>n, <2>1 DEF ProducerFollows, One
  <2>6. ActiveFollows(t)
    BY <1>n, <2>1 DEF ActiveFollows, One, CounterInv
  <2>7. CreditsFollow(t)
    BY <1>n, <2>1, <2>2 DEF CreditsFollow, One, CounterInv
  <2>8. StatsFollow(t, 0, 0, 0, 0, 0, 0)
    BY <1>s, <2>1, <2>4 DEF StatsMove, StatsFollow, One, Admitting
  <2> QED BY <2>3, <2>5, <2>6, <2>7, <2>8, CountersFollow
<1>22. ASSUME NEW t \in Tasks, DropConstructor(t) PROVE CounterInv'
  <2>1. UNCHANGED <<spawn, admitted, states, producer_count, active_tasks, stats,
                    queue, head, queued_tasks, accounting>>
    BY <1>22 DEF DropConstructor
  <2>2. \A u \in Tasks : body'[u] = "dequeued" <=> body[u] = "dequeued"
    BY <1>22 DEF DropConstructor
  <2>3. Len(queue') + HeadCount' = Len(queue) + HeadCount
    BY <2>1 DEF HeadCount
  <2> QED BY <2>1, <2>2, <2>3, SameCounts
<1>23. ASSUME NEW t \in Tasks, Settle(t) PROVE CounterInv'
  <2>1. /\ spawn[t] \in {"settle", "accepted"} /\ spawn'[t] = "leave" /\ (admitted'[t] <=> admitted[t])
        /\ UNCHANGED <<producer_count, active_tasks, queued_tasks>>
        /\ (t \in states' <=> t \in states) /\ body'[t] = body[t]
    BY <1>23, <1>t, <1>f DEF Settle, NodePlace, SubmissionPlace, Handed, Admitting
  <2>2. /\ \A u \in Tasks \ {t} :
              /\ spawn'[u] = spawn[u] /\ (admitted'[u] <=> admitted[u])
              /\ u \in states' <=> u \in states
              /\ body'[u] = "dequeued" <=> body[u] = "dequeued"
        /\ Len(queue') = Len(queue) /\ HeadCount' = HeadCount /\ accounting' = accounting
    BY <1>23, <1>t DEF Settle, HeadCount
  <2>3. RecountedAt(t)
    BY <2>2, Recount
  <2>4. StatsMove({})
    BY <1>23, <1>s, NoBump DEF Settle
  <2>5. ProducerFollows(t)
    BY <1>n, <2>1 DEF ProducerFollows, One
  <2>6. ActiveFollows(t)
    BY <1>n, <2>1 DEF ActiveFollows, One, CounterInv
  <2>7. CreditsFollow(t)
    BY <1>n, <2>1, <2>2 DEF CreditsFollow, One, CounterInv
  <2>8. StatsFollow(t, 0, 0, 0, 0, 0, 0)
    BY <1>s, <2>1, <2>4 DEF StatsMove, StatsFollow, One, Admitting
  <2> QED BY <2>3, <2>5, <2>6, <2>7, <2>8, CountersFollow
<1>24. ASSUME NEW t \in Tasks, Leave(t) PROVE CounterInv'
  <2>1. /\ spawn[t] = "leave" /\ spawn'[t] = "returned" /\ ~admitted'[t]
        /\ UNCHANGED <<active_tasks, queued_tasks>>
        /\ producer_count' = producer_count - One(admitted[t])
        /\ (t \in states' <=> t \in states) /\ body'[t] = body[t]
    BY <1>24, <1>t, <1>f
    DEF Leave, SpawnStep, EndAdmission, One, NodePlace, SubmissionPlace, Handed,
        Admitting
  <2>2. /\ \A u \in Tasks \ {t} :
              /\ spawn'[u] = spawn[u] /\ (admitted'[u] <=> admitted[u])
              /\ u \in states' <=> u \in states
              /\ body'[u] = "dequeued" <=> body[u] = "dequeued"
        /\ Len(queue') = Len(queue) /\ HeadCount' = HeadCount /\ accounting' = accounting
    BY <1>24, <1>t DEF Leave, SpawnStep, EndAdmission, HeadCount
  <2>3. RecountedAt(t)
    BY <2>2, Recount
  <2>4. StatsMove({})
    BY <1>24, <1>s, NoBump DEF Leave
  <2>5. ProducerFollows(t)
    BY <1>n, <2>1 DEF ProducerFollows, One
  <2>6. ActiveFollows(t)
    BY <1>n, <2>1 DEF ActiveFollows, One, CounterInv
  <2>7. CreditsFollow(t)
    BY <1>n, <2>1, <2>2 DEF CreditsFollow, One, CounterInv
  <2>8. StatsFollow(t, 0, 0, 0, 0, 0, 0)
    BY <1>s, <2>1, <2>4 DEF StatsMove, StatsFollow, One, Admitting
  <2> QED BY <2>3, <2>5, <2>6, <2>7, <2>8, CountersFollow
<1>25. ASSUME NEW t \in Tasks, LeaveDenied(t) PROVE CounterInv'
  <2>1. /\ spawn[t] = "leave" /\ spawn'[t] = "refused" /\ ~admitted'[t]
        /\ UNCHANGED <<active_tasks, queued_tasks>>
        /\ producer_count' = producer_count - One(admitted[t])
        /\ (t \in states' <=> t \in states) /\ body'[t] = body[t]
    BY <1>25, <1>t, <1>f
    DEF LeaveDenied, SpawnStep, EndAdmission, One, NodePlace, SubmissionPlace, Handed,
        Admitting
  <2>2. /\ \A u \in Tasks \ {t} :
              /\ spawn'[u] = spawn[u] /\ (admitted'[u] <=> admitted[u])
              /\ u \in states' <=> u \in states
              /\ body'[u] = "dequeued" <=> body[u] = "dequeued"
        /\ Len(queue') = Len(queue) /\ HeadCount' = HeadCount /\ accounting' = accounting
    BY <1>25, <1>t DEF LeaveDenied, SpawnStep, EndAdmission, HeadCount
  <2>3. RecountedAt(t)
    BY <2>2, Recount
  <2>4. StatsMove({})
    BY <1>25, <1>s, NoBump DEF LeaveDenied
  <2>5. ProducerFollows(t)
    BY <1>n, <2>1 DEF ProducerFollows, One
  <2>6. ActiveFollows(t)
    BY <1>n, <2>1 DEF ActiveFollows, One, CounterInv
  <2>7. CreditsFollow(t)
    BY <1>n, <2>1, <2>2 DEF CreditsFollow, One, CounterInv
  <2>8. StatsFollow(t, 0, 0, 0, 0, 0, 0)
    BY <1>s, <2>1, <2>4 DEF StatsMove, StatsFollow, One, Admitting
  <2> QED BY <2>3, <2>5, <2>6, <2>7, <2>8, CountersFollow
<1>26. ASSUME NEW t \in Tasks, ReturnCredit(t) PROVE CounterInv'
  <2>1. /\ spawn'[t] = spawn[t] /\ (admitted'[t] <=> admitted[t]) /\ spawn[t] # "send"
        /\ UNCHANGED <<producer_count, active_tasks, accounting>>
        /\ queued_tasks' = queued_tasks - 1
        /\ (t \in states' <=> t \in states) /\ body[t] = "dequeued" /\ body'[t] = "claim"
    BY <1>26, <1>t, <1>f
    DEF ReturnCredit, AfterSend, NodePlace, SubmissionPlace, Handed, Admitting
  <2>2. /\ \A u \in Tasks \ {t} :
              /\ spawn'[u] = spawn[u] /\ (admitted'[u] <=> admitted[u])
              /\ u \in states' <=> u \in states
              /\ body'[u] = "dequeued" <=> body[u] = "dequeued"
        /\ Len(queue') = Len(queue) /\ HeadCount' = HeadCount /\ accounting' = accounting
    BY <1>26, <1>t DEF ReturnCredit, HeadCount
  <2>3. RecountedAt(t)
    BY <2>2, Recount
  <2>4. StatsMove({})
    BY <1>26, <1>s, NoBump DEF ReturnCredit
  <2>5. ProducerFollows(t)
    BY <1>n, <2>1 DEF ProducerFollows, One
  <2>6. ActiveFollows(t)
    BY <1>n, <2>1 DEF ActiveFollows, One, CounterInv
  <2>7. CreditsFollow(t)
    BY <1>n, <2>1, <2>2 DEF CreditsFollow, One, CounterInv
  <2>8. StatsFollow(t, 0, 0, 0, 0, 0, 0)
    BY <1>s, <2>1, <2>4 DEF StatsMove, StatsFollow, One, Admitting
  <2> QED BY <2>3, <2>5, <2>6, <2>7, <2>8, CountersFollow
<1>27. ASSUME NEW t \in Tasks, ClaimRun(t) PROVE CounterInv'
  <2>1. UNCHANGED <<spawn, admitted, states, producer_count, active_tasks, stats,
                    queue, head, queued_tasks, accounting>>
    BY <1>27 DEF ClaimRun
  <2>2. \A u \in Tasks : body'[u] = "dequeued" <=> body[u] = "dequeued"
    BY <1>27 DEF ClaimRun
  <2>3. Len(queue') + HeadCount' = Len(queue) + HeadCount
    BY <2>1 DEF HeadCount
  <2> QED BY <2>1, <2>2, <2>3, SameCounts
<1>28. ASSUME NEW t \in Tasks, ClaimNothing(t) PROVE CounterInv'
  <2>1. UNCHANGED <<spawn, admitted, states, producer_count, active_tasks, stats,
                    queue, head, queued_tasks, accounting>>
    BY <1>28 DEF ClaimNothing
  <2>2. \A u \in Tasks : body'[u] = "dequeued" <=> body[u] = "dequeued"
    BY <1>28 DEF ClaimNothing
  <2>3. Len(queue') + HeadCount' = Len(queue) + HeadCount
    BY <2>1 DEF HeadCount
  <2> QED BY <2>1, <2>2, <2>3, SameCounts
<1>29. ASSUME NEW t \in Tasks, RefuseExecution(t) PROVE CounterInv'
  <2>1. UNCHANGED <<spawn, admitted, states, producer_count, active_tasks, stats,
                    queue, head, queued_tasks, accounting>>
    BY <1>29 DEF RefuseExecution
  <2>2. \A u \in Tasks : body'[u] = "dequeued" <=> body[u] = "dequeued"
    BY <1>29 DEF RefuseExecution
  <2>3. Len(queue') + HeadCount' = Len(queue) + HeadCount
    BY <2>1 DEF HeadCount
  <2> QED BY <2>1, <2>2, <2>3, SameCounts
<1>30. ASSUME NEW t \in Tasks, YieldRefusal(t) PROVE CounterInv'
  <2>1. UNCHANGED <<spawn, admitted, states, producer_count, active_tasks, stats,
                    queue, head, queued_tasks, accounting>>
    BY <1>30 DEF YieldRefusal
  <2>2. \A u \in Tasks : body'[u] = "dequeued" <=> body[u] = "dequeued"
    BY <1>30 DEF YieldRefusal
  <2>3. Len(queue') + HeadCount' = Len(queue) + HeadCount
    BY <2>1 DEF HeadCount
  <2> QED BY <2>1, <2>2, <2>3, SameCounts
<1>31. ASSUME NEW t \in Tasks, FinishBody(t) PROVE CounterInv'
  <2>1. UNCHANGED <<spawn, admitted, states, producer_count, active_tasks, stats,
                    queue, head, queued_tasks, accounting>>
    BY <1>31 DEF FinishBody
  <2>2. \A u \in Tasks : body'[u] = "dequeued" <=> body[u] = "dequeued"
    BY <1>31 DEF FinishBody
  <2>3. Len(queue') + HeadCount' = Len(queue) + HeadCount
    BY <2>1 DEF HeadCount
  <2> QED BY <2>1, <2>2, <2>3, SameCounts
<1>32. ASSUME NEW t \in Tasks, AfterComplete(t) PROVE CounterInv'
  <2>1. UNCHANGED <<spawn, admitted, states, producer_count, active_tasks, stats,
                    queue, head, queued_tasks, accounting>>
    BY <1>32 DEF AfterComplete
  <2>2. \A u \in Tasks : body'[u] = "dequeued" <=> body[u] = "dequeued"
    BY <1>32 DEF AfterComplete
  <2>3. Len(queue') + HeadCount' = Len(queue) + HeadCount
    BY <2>1 DEF HeadCount
  <2> QED BY <2>1, <2>2, <2>3, SameCounts
<1>33. ASSUME NEW t \in Tasks, FinishTaskJob(t) PROVE CounterInv'
  <2>1. UNCHANGED <<spawn, admitted, states, producer_count, active_tasks, stats,
                    queue, head, queued_tasks, accounting>>
    BY <1>33 DEF FinishTaskJob
  <2>2. \A u \in Tasks : body'[u] = "dequeued" <=> body[u] = "dequeued"
    BY <1>33 DEF FinishTaskJob
  <2>3. Len(queue') + HeadCount' = Len(queue) + HeadCount
    BY <2>1 DEF HeadCount
  <2> QED BY <2>1, <2>2, <2>3, SameCounts
<1>34. ASSUME NEW t \in Tasks, CancelHandle(t) PROVE CounterInv'
  <2>1. UNCHANGED <<spawn, admitted, states, producer_count, active_tasks, stats,
                    queue, head, queued_tasks, accounting>>
    BY <1>34 DEF CancelHandle
  <2>2. \A u \in Tasks : body'[u] = "dequeued" <=> body[u] = "dequeued"
    BY <1>34 DEF CancelHandle
  <2>3. Len(queue') + HeadCount' = Len(queue) + HeadCount
    BY <2>1 DEF HeadCount
  <2> QED BY <2>1, <2>2, <2>3, SameCounts
<1>35. ASSUME NEW t \in Tasks, RememberDeadline(t) PROVE CounterInv'
  <2>1. UNCHANGED <<spawn, admitted, states, producer_count, active_tasks, stats,
                    queue, head, queued_tasks, accounting>>
    BY <1>35 DEF RememberDeadline
  <2>2. \A u \in Tasks : body'[u] = "dequeued" <=> body[u] = "dequeued"
    BY <1>35 DEF RememberDeadline
  <2>3. Len(queue') + HeadCount' = Len(queue) + HeadCount
    BY <2>1 DEF HeadCount
  <2> QED BY <2>1, <2>2, <2>3, SameCounts
<1>36. ASSUME NEW t \in Tasks, AwaitResult(t) PROVE CounterInv'
  <2>1. UNCHANGED <<spawn, admitted, states, producer_count, active_tasks, stats,
                    queue, head, queued_tasks, accounting>>
    BY <1>36 DEF AwaitResult
  <2>2. \A u \in Tasks : body'[u] = "dequeued" <=> body[u] = "dequeued"
    BY <1>36 DEF AwaitResult
  <2>3. Len(queue') + HeadCount' = Len(queue) + HeadCount
    BY <2>1 DEF HeadCount
  <2> QED BY <2>1, <2>2, <2>3, SameCounts
<1>37. ASSUME NEW t \in Tasks, ReleaseOwner(t) PROVE CounterInv'
  <2>1. UNCHANGED <<spawn, admitted, states, producer_count, active_tasks, stats,
                    queue, head, queued_tasks, accounting>>
    BY <1>37 DEF ReleaseOwner
  <2>2. \A u \in Tasks : body'[u] = "dequeued" <=> body[u] = "dequeued"
    BY <1>37 DEF ReleaseOwner
  <2>3. Len(queue') + HeadCount' = Len(queue) + HeadCount
    BY <2>1 DEF HeadCount
  <2> QED BY <2>1, <2>2, <2>3, SameCounts
<1>38. ASSUME NEW t \in Tasks, DropResult(t) PROVE CounterInv'
  <2>1. UNCHANGED <<spawn, admitted, states, producer_count, active_tasks, stats,
                    queue, head, queued_tasks, accounting>>
    BY <1>38 DEF DropResult
  <2>2. \A u \in Tasks : body'[u] = "dequeued" <=> body[u] = "dequeued"
    BY <1>38 DEF DropResult
  <2>3. Len(queue') + HeadCount' = Len(queue) + HeadCount
    BY <2>1 DEF HeadCount
  <2> QED BY <2>1, <2>2, <2>3, SameCounts
<1>39. ASSUME NEW t \in Tasks, OwnerCancel(t) PROVE CounterInv'
  <2>1. UNCHANGED <<spawn, admitted, states, producer_count, active_tasks, stats,
                    queue, head, queued_tasks, accounting>>
    BY <1>39 DEF OwnerCancel
  <2>2. \A u \in Tasks : body'[u] = "dequeued" <=> body[u] = "dequeued"
    BY <1>39 DEF OwnerCancel
  <2>3. Len(queue') + HeadCount' = Len(queue) + HeadCount
    BY <2>1 DEF HeadCount
  <2> QED BY <2>1, <2>2, <2>3, SameCounts
<1>40. ASSUME NEW t \in Tasks, AfterOwnerCancel(t) PROVE CounterInv'
  <2>1. UNCHANGED <<spawn, admitted, states, producer_count, active_tasks, stats,
                    queue, head, queued_tasks, accounting>>
    BY <1>40 DEF AfterOwnerCancel
  <2>2. \A u \in Tasks : body'[u] = "dequeued" <=> body[u] = "dequeued"
    BY <1>40 DEF AfterOwnerCancel
  <2>3. Len(queue') + HeadCount' = Len(queue) + HeadCount
    BY <2>1 DEF HeadCount
  <2> QED BY <2>1, <2>2, <2>3, SameCounts
<1>41. ASSUME NEW t \in Tasks, PublishOwner(t) PROVE CounterInv'
  <2>1. UNCHANGED <<spawn, admitted, states, producer_count, active_tasks, stats,
                    queue, head, queued_tasks, accounting>>
    BY <1>41 DEF PublishOwner
  <2>2. \A u \in Tasks : body'[u] = "dequeued" <=> body[u] = "dequeued"
    BY <1>41 DEF PublishOwner
  <2>3. Len(queue') + HeadCount' = Len(queue) + HeadCount
    BY <2>1 DEF HeadCount
  <2> QED BY <2>1, <2>2, <2>3, SameCounts
<1>42. ASSUME NEW t \in Tasks, DrainOwnerResult(t) PROVE CounterInv'
  <2>1. UNCHANGED <<spawn, admitted, states, producer_count, active_tasks, stats,
                    queue, head, queued_tasks, accounting>>
    BY <1>42 DEF DrainOwnerResult
  <2>2. \A u \in Tasks : body'[u] = "dequeued" <=> body[u] = "dequeued"
    BY <1>42 DEF DrainOwnerResult
  <2>3. Len(queue') + HeadCount' = Len(queue) + HeadCount
    BY <2>1 DEF HeadCount
  <2> QED BY <2>1, <2>2, <2>3, SameCounts
<1>43. ASSUME NEW t \in Tasks, CancelSnapshot(t) PROVE CounterInv'
  <2>1. UNCHANGED <<spawn, admitted, states, producer_count, active_tasks, stats,
                    queue, head, queued_tasks, accounting>>
    BY <1>43 DEF CancelSnapshot
  <2>2. \A u \in Tasks : body'[u] = "dequeued" <=> body[u] = "dequeued"
    BY <1>43 DEF CancelSnapshot
  <2>3. Len(queue') + HeadCount' = Len(queue) + HeadCount
    BY <2>1 DEF HeadCount
  <2> QED BY <2>1, <2>2, <2>3, SameCounts
<1>44. ASSUME NEW t \in Tasks, NEW from \in Waits, NEW to \in Waits,
             SetStatus(t, from, to)
       PROVE CounterInv'
  <2>1. UNCHANGED <<spawn, admitted, states, producer_count, active_tasks, stats,
                    queue, head, queued_tasks, accounting>>
    BY <1>44 DEF SetStatus
  <2>2. \A u \in Tasks : body'[u] = "dequeued" <=> body[u] = "dequeued"
    BY <1>44 DEF SetStatus
  <2>3. Len(queue') + HeadCount' = Len(queue) + HeadCount
    BY <2>1 DEF HeadCount
  <2> QED BY <2>1, <2>2, <2>3, SameCounts
<1>45. ASSUME NEW t \in Tasks, NEW r \in Roles, DestroyFrame(t, r) PROVE CounterInv'
  <2>1. UNCHANGED <<spawn, admitted, states, producer_count, active_tasks, stats,
                    queue, head, queued_tasks, accounting>>
    BY <1>45 DEF DestroyFrame
  <2>2. \A u \in Tasks : body'[u] = "dequeued" <=> body[u] = "dequeued"
    BY <1>45 DEF DestroyFrame
  <2>3. Len(queue') + HeadCount' = Len(queue) + HeadCount
    BY <2>1 DEF HeadCount
  <2> QED BY <2>1, <2>2, <2>3, SameCounts
<1>46. ASSUME NEW t \in Tasks, NEW r \in Roles, Publish(t, r) PROVE CounterInv'
  <2>1. UNCHANGED <<spawn, admitted, states, producer_count, active_tasks, stats,
                    queue, head, queued_tasks, accounting>>
    BY <1>46 DEF Publish
  <2>2. \A u \in Tasks : body'[u] = "dequeued" <=> body[u] = "dequeued"
    BY <1>46 DEF Publish
  <2>3. Len(queue') + HeadCount' = Len(queue) + HeadCount
    BY <2>1 DEF HeadCount
  <2> QED BY <2>1, <2>2, <2>3, SameCounts
<1>47. ASSUME NEW t \in Tasks, NEW r \in Roles, Discard(t, r) PROVE CounterInv'
  <2>1. UNCHANGED <<spawn, admitted, states, producer_count, active_tasks, stats,
                    queue, head, queued_tasks, accounting>>
    BY <1>47 DEF Discard
  <2>2. \A u \in Tasks : body'[u] = "dequeued" <=> body[u] = "dequeued"
    BY <1>47 DEF Discard
  <2>3. Len(queue') + HeadCount' = Len(queue) + HeadCount
    BY <2>1 DEF HeadCount
  <2> QED BY <2>1, <2>2, <2>3, SameCounts
<1>48. ASSUME NEW t \in Tasks, NEW r \in Roles, ClaimAccounting(t, r) PROVE CounterInv'
  <2>1. UNCHANGED <<spawn, admitted, producer_count, active_tasks, stats, queue, head,
                    queued_tasks, body>>
    BY <1>48 DEF ClaimAccounting
  <2>2. /\ \A u \in Tasks : HasUnit(u)' <=> HasUnit(u)
        /\ InTransit' = InTransit
    <3>1. \A u \in Tasks : /\ accounting'[u] = "unregistered" <=> accounting[u] = "unregistered"
                           /\ accounting'[u] = "released" <=> accounting[u] = "released"
      BY <1>48, <1>t DEF ClaimAccounting, CanAccount
    <3> QED BY <1>48, <3>1 DEF ClaimAccounting, HasUnit, InTransit
  <2>3. Residents' = Residents
    BY <2>2, ResidentUnit, ResidentUnitNext DEF Residents
  <2>4. Len(queue') + HeadCount' = Len(queue) + HeadCount
    BY <2>1 DEF HeadCount
  <2> QED BY <2>1, <2>2, <2>3, <2>4, SameSets
<1>63. ASSUME NEW t \in Tasks, NEW r \in Roles, Unregister(t, r) PROVE CounterInv'
  <2>1. UNCHANGED <<spawn, admitted, producer_count, active_tasks, stats, queue, head,
                    queued_tasks, body>>
    BY <1>63 DEF Unregister
  <2>2. /\ \A u \in Tasks : HasUnit(u)' <=> HasUnit(u)
        /\ InTransit' = InTransit
    <3>1. /\ accounting[t] = "claimed" /\ accounting' = [accounting EXCEPT ![t] = "unregistered"]
          /\ states' = states \ {t} /\ spawn' = spawn
      BY <1>63 DEF Unregister, Accounts
    <3>2. t \in states
      BY <1>f, <3>1 DEF AccountingOnce, SubmissionPlace, Unaccounted
    <3> QED BY <1>t, <3>1, <3>2 DEF HasUnit, InTransit
  <2>3. Residents' = Residents
    BY <2>2, ResidentUnit, ResidentUnitNext DEF Residents
  <2>4. Len(queue') + HeadCount' = Len(queue) + HeadCount
    BY <2>1 DEF HeadCount
  <2> QED BY <2>1, <2>2, <2>3, <2>4, SameSets
<1>64. ASSUME NEW t \in Tasks, NEW r \in Roles, ReleaseActive(t, r) PROVE CounterInv'
  <2>1. UNCHANGED <<spawn, admitted, producer_count, stats, queue, head, queued_tasks, body,
                    states>>
    BY <1>64 DEF ReleaseActive
  <2>2. /\ accounting[t] = "unregistered" /\ accounting' = [accounting EXCEPT ![t] = "released"]
        /\ active_tasks' = active_tasks - 1
    BY <1>64 DEF ReleaseActive, Accounts
  <2>3. t \notin states /\ spawn[t] # "register"
    BY <2>2, ResidentUnit
  <2>4. /\ \A u \in Tasks \ {t} : HasUnit(u)' <=> HasUnit(u)
        /\ HasUnit(t) /\ ~HasUnit(t)'
    BY <1>t, <2>1, <2>2, <2>3 DEF HasUnit
  <2>5. t \in Residents /\ Residents' = Residents \ {t}
    BY <2>4, ResidentUnit, ResidentUnitNext DEF Residents
  <2>6. t \notin InTransit /\ InTransit' = InTransit \cup {t}
    BY <1>t, <2>2 DEF InTransit
  <2>7. /\ Cardinality(Residents') = Cardinality(Residents) - 1
        /\ Cardinality(InTransit') = Cardinality(InTransit) + 1
        /\ Cardinality(InTransit) \in Nat
    BY <2>5, <2>6, CountedSets, FS_RemoveElement, FS_AddElement
  <2>8. /\ Started' = Started /\ Admitted' = Admitted /\ CreditHolders' = CreditHolders
        /\ Undecided' = Undecided /\ Unaccepted' = Unaccepted /\ HeadCount' = HeadCount
    BY <2>1 DEF Started, Admitted, CreditHolders, Undecided, Unaccepted, HeadCount
  <2>9. active_tasks' = Cardinality(Residents') /\ active_tasks' <= MaxTasks
    BY <1>n, <2>2, <2>7 DEF CounterInv
  <2>10. stats["finished_tasks"] + active_tasks' + Cardinality(InTransit') =
           stats["finished_tasks"] + active_tasks + Cardinality(InTransit)
    BY <1>n, <1>s, <2>2, <2>7, SMTT(30)
  <2> QED BY <2>1, <2>8, <2>9, <2>10 DEF CounterInv
<1>49. ASSUME NEW t \in Tasks, NEW r \in Roles, CountFinished(t, r) PROVE CounterInv'
  <2>1. UNCHANGED <<spawn, admitted, producer_count, active_tasks, queue, head, queued_tasks,
                    body, states>>
    BY <1>49 DEF CountFinished
  <2>2. accounting[t] = "released" /\ accounting' = [accounting EXCEPT ![t] = "counted"]
    BY <1>49 DEF CountFinished, Accounts
  <2>3. Residents' = Residents
    <3>1. \A u \in Tasks : HasUnit(u)' <=> HasUnit(u)
      BY <1>t, <2>1, <2>2 DEF HasUnit
    <3> QED BY <3>1, ResidentUnit, ResidentUnitNext DEF Residents
  <2>4. t \in InTransit /\ InTransit' = InTransit \ {t}
    BY <1>t, <2>2 DEF InTransit
  <2>5. /\ Cardinality(InTransit') = Cardinality(InTransit) - 1
        /\ Cardinality(InTransit) \in Nat
    BY <2>4, CountedSets, FS_RemoveElement
  <2>6. StatsMove(FinishedCounters(t))
    BY <1>49, BumpStep DEF CountFinished
  <2>7. /\ "finished_tasks" \in FinishedCounters(t)
        /\ \A n \in {"total_submissions", "accepted_submissions", "rejected_task_limit",
                     "rejected_task_queue", "rejected_task_internal"} : n \notin FinishedCounters(t)
    BY DEF FinishedCounters
  <2>8. /\ stats'["finished_tasks"] = stats["finished_tasks"] + 1
        /\ stats'["total_submissions"] = stats["total_submissions"]
        /\ stats'["accepted_submissions"] = stats["accepted_submissions"]
        /\ stats'["rejected_task_limit"] = stats["rejected_task_limit"]
        /\ stats'["rejected_task_queue"] = stats["rejected_task_queue"]
        /\ stats'["rejected_task_internal"] = stats["rejected_task_internal"]
    BY <1>s, <2>6, <2>7 DEF StatsMove, One
  <2>9. /\ Started' = Started /\ Admitted' = Admitted /\ CreditHolders' = CreditHolders
        /\ Undecided' = Undecided /\ Unaccepted' = Unaccepted /\ HeadCount' = HeadCount
    BY <2>1 DEF Started, Admitted, CreditHolders, Undecided, Unaccepted, HeadCount
  <2>10. stats'["finished_tasks"] + active_tasks' + Cardinality(InTransit') =
           stats["finished_tasks"] + active_tasks + Cardinality(InTransit)
    BY <1>n, <1>s, <2>1, <2>5, <2>8, SMTT(30)
  <2> QED BY <2>1, <2>3, <2>8, <2>9, <2>10 DEF CounterInv
<1>50. ASSUME NEW t \in Tasks, NEW r \in Roles, AckAccounting(t, r) PROVE CounterInv'
  <2>1. UNCHANGED <<spawn, admitted, producer_count, active_tasks, stats, queue, head,
                    queued_tasks, body>>
    BY <1>50 DEF AckAccounting
  <2>2. /\ \A u \in Tasks : HasUnit(u)' <=> HasUnit(u)
        /\ InTransit' = InTransit
    BY <1>50, <1>t DEF AckAccounting, Accounts, HasUnit, InTransit
  <2>3. Residents' = Residents
    BY <2>2, ResidentUnit, ResidentUnitNext DEF Residents
  <2>4. Len(queue') + HeadCount' = Len(queue) + HeadCount
    BY <2>1 DEF HeadCount
  <2> QED BY <2>1, <2>2, <2>3, <2>4, SameSets
<1>51. ASSUME Dequeue PROVE CounterInv'
  <2>1. NextJob \in Tasks /\ Queued(NextJob)
    BY <1>51, TakeJobQueue DEF Dequeue, FrameInv
  <2>2. body[NextJob] = "none" /\ spawn[NextJob] # "send"
    BY <1>f, <2>1 DEF NodePlace, AfterSend
  <2>3. Len(queue') + HeadCount' = Len(queue) + HeadCount - 1
    BY <1>51, TakeJobLength DEF Dequeue
  <2>4. /\ \A u \in Tasks : spawn'[u] = spawn[u] /\ (admitted'[u] <=> admitted[u])
        /\ \A u \in Tasks : u \in states' <=> u \in states
        /\ \A u \in Tasks \ {NextJob} : body'[u] = "dequeued" <=> body[u] = "dequeued"
        /\ body'[NextJob] = "dequeued"
        /\ UNCHANGED <<producer_count, active_tasks, accounting>>
        /\ queued_tasks' = queued_tasks
    BY <1>51, <1>t, <2>1 DEF Dequeue
  <2>5. RecountedAt(NextJob)
    <3> HIDE DEF NextJob
    <3> QED BY <2>1, <2>4, Recount
  <2>6. StatsMove({})
    BY <1>51, <1>s, NoBump DEF Dequeue
  <2> HIDE DEF NextJob
  <2>7. ProducerFollows(NextJob)
    BY <1>n, <2>1, <2>4 DEF ProducerFollows, One
  <2>8. ActiveFollows(NextJob)
    BY <1>n, <2>1, <2>4, SMTT(30) DEF ActiveFollows, One, CounterInv
  <2>9. CreditsFollow(NextJob)
    <3>1. /\ One(spawn'[NextJob] = "send" \/ body'[NextJob] = "dequeued") = 1
          /\ One(spawn[NextJob] = "send" \/ body[NextJob] = "dequeued") = 0
      BY <2>1, <2>2, <2>4 DEF One
    <3>2. queued_tasks <= TaskQueueLimit
      BY DEF CounterInv
    <3> QED BY <1>n, <2>3, <2>4, <3>1, <3>2 DEF CreditsFollow
  <2>10. StatsFollow(NextJob, 0, 0, 0, 0, 0, 0)
    BY <1>s, <2>1, <2>4, <2>6 DEF StatsMove, StatsFollow, One, Admitting
  <2> QED BY <2>1, <2>5, <2>7, <2>8, <2>9, <2>10, CountersFollow
<1>52. ASSUME RetirePrefix PROVE CounterInv'
  <2>1. NextJob \in Tasks /\ Queued(NextJob)
    BY <1>52, TakeJobQueue DEF RetirePrefix, FrameInv
  <2>2. body[NextJob] = "none" /\ spawn[NextJob] # "send"
    BY <1>f, <2>1 DEF NodePlace, AfterSend
  <2>3. Len(queue') + HeadCount' = Len(queue) + HeadCount - 1
    BY <1>52, TakeJobLength DEF RetirePrefix
  <2>4. /\ \A u \in Tasks : spawn'[u] = spawn[u] /\ (admitted'[u] <=> admitted[u])
        /\ \A u \in Tasks : u \in states' <=> u \in states
        /\ \A u \in Tasks \ {NextJob} : body'[u] = "dequeued" <=> body[u] = "dequeued"
        /\ body'[NextJob] = "retire"
        /\ UNCHANGED <<producer_count, active_tasks, accounting>>
        /\ queued_tasks' = queued_tasks - 1
    BY <1>52, <1>t, <2>1 DEF RetirePrefix
  <2>5. RecountedAt(NextJob)
    <3> HIDE DEF NextJob
    <3> QED BY <2>1, <2>4, Recount
  <2>6. StatsMove({})
    BY <1>52, <1>s, NoBump DEF RetirePrefix
  <2> HIDE DEF NextJob
  <2>7. ProducerFollows(NextJob)
    BY <1>n, <2>1, <2>4 DEF ProducerFollows, One
  <2>8. ActiveFollows(NextJob)
    BY <1>n, <2>1, <2>4, SMTT(30) DEF ActiveFollows, One, CounterInv
  <2>9. CreditsFollow(NextJob)
    <3>1. /\ One(spawn'[NextJob] = "send" \/ body'[NextJob] = "dequeued") = 0
          /\ One(spawn[NextJob] = "send" \/ body[NextJob] = "dequeued") = 0
      BY <2>1, <2>2, <2>4 DEF One
    <3>2. queued_tasks <= TaskQueueLimit
      BY DEF CounterInv
    <3> QED BY <1>n, <2>3, <2>4, <3>1, <3>2 DEF CreditsFollow
  <2>10. StatsFollow(NextJob, 0, 0, 0, 0, 0, 0)
    BY <1>s, <2>1, <2>4, <2>6 DEF StatsMove, StatsFollow, One, Admitting
  <2> QED BY <2>1, <2>5, <2>7, <2>8, <2>9, <2>10, CountersFollow
<1>53. ASSUME CachePrefix PROVE CounterInv'
  <2>1. /\ UNCHANGED <<spawn, admitted, states, producer_count, active_tasks, stats,
                       queued_tasks, accounting>>
        /\ body' = body
    BY <1>53 DEF CachePrefix
  <2>2. Len(queue') + HeadCount' = Len(queue) + HeadCount
    <3>1. /\ head = NoTask /\ queue # << >> /\ queue' = Tail(queue)
          /\ head' = Head(queue)
      BY <1>53 DEF CachePrefix, NextJob
    <3>2. Len(queue) > 0 /\ Len(queue') = Len(queue) - 1 /\ head' # NoTask
      BY <1>t, <3>1, NoTaskAssumption
    <3>3. HeadCount = 0 /\ HeadCount' = 1
      BY <3>1, <3>2 DEF HeadCount
    <3> QED BY <1>t, <3>2, <3>3
  <2> QED BY <2>1, <2>2, SameCounts
<1>54. ASSUME BeginShutdown PROVE CounterInv'
  <2>1. UNCHANGED <<spawn, admitted, states, producer_count, active_tasks, stats,
                    queue, head, queued_tasks, accounting>>
    BY <1>54 DEF BeginShutdown
  <2>2. \A u \in Tasks : body'[u] = "dequeued" <=> body[u] = "dequeued"
    BY <1>54 DEF BeginShutdown
  <2>3. Len(queue') + HeadCount' = Len(queue) + HeadCount
    BY <2>1 DEF HeadCount
  <2> QED BY <2>1, <2>2, <2>3, SameCounts
<1>55. ASSUME SetClosing PROVE CounterInv'
  <2>1. UNCHANGED <<spawn, admitted, states, producer_count, active_tasks, stats,
                    queue, head, queued_tasks, accounting>>
    BY <1>55 DEF SetClosing
  <2>2. \A u \in Tasks : body'[u] = "dequeued" <=> body[u] = "dequeued"
    BY <1>55 DEF SetClosing
  <2>3. Len(queue') + HeadCount' = Len(queue) + HeadCount
    BY <2>1 DEF HeadCount
  <2> QED BY <2>1, <2>2, <2>3, SameCounts
<1>56. ASSUME CloseGate PROVE CounterInv'
  <2>1. UNCHANGED <<spawn, admitted, states, producer_count, active_tasks, stats,
                    queue, head, queued_tasks, accounting>>
    BY <1>56 DEF CloseGate
  <2>2. \A u \in Tasks : body'[u] = "dequeued" <=> body[u] = "dequeued"
    BY <1>56 DEF CloseGate
  <2>3. Len(queue') + HeadCount' = Len(queue) + HeadCount
    BY <2>1 DEF HeadCount
  <2> QED BY <2>1, <2>2, <2>3, SameCounts
<1>57. ASSUME Snapshot PROVE CounterInv'
  <2>1. UNCHANGED <<spawn, admitted, states, producer_count, active_tasks, stats,
                    queue, head, queued_tasks, accounting>>
    BY <1>57 DEF Snapshot
  <2>2. \A u \in Tasks : body'[u] = "dequeued" <=> body[u] = "dequeued"
    BY <1>57 DEF Snapshot
  <2>3. Len(queue') + HeadCount' = Len(queue) + HeadCount
    BY <2>1 DEF HeadCount
  <2> QED BY <2>1, <2>2, <2>3, SameCounts
<1>58. ASSUME EndCancelAll PROVE CounterInv'
  <2>1. UNCHANGED <<spawn, admitted, states, producer_count, active_tasks, stats,
                    queue, head, queued_tasks, accounting>>
    BY <1>58 DEF EndCancelAll
  <2>2. \A u \in Tasks : body'[u] = "dequeued" <=> body[u] = "dequeued"
    BY <1>58 DEF EndCancelAll
  <2>3. Len(queue') + HeadCount' = Len(queue) + HeadCount
    BY <2>1 DEF HeadCount
  <2> QED BY <2>1, <2>2, <2>3, SameCounts
<1>59. ASSUME PollProducers PROVE CounterInv'
  <2>1. UNCHANGED <<spawn, admitted, states, producer_count, active_tasks, stats,
                    queue, head, queued_tasks, accounting>>
    BY <1>59 DEF PollProducers
  <2>2. \A u \in Tasks : body'[u] = "dequeued" <=> body[u] = "dequeued"
    BY <1>59 DEF PollProducers
  <2>3. Len(queue') + HeadCount' = Len(queue) + HeadCount
    BY <2>1 DEF HeadCount
  <2> QED BY <2>1, <2>2, <2>3, SameCounts
<1>60. ASSUME PollActive PROVE CounterInv'
  <2>1. UNCHANGED <<spawn, admitted, states, producer_count, active_tasks, stats,
                    queue, head, queued_tasks, accounting>>
    BY <1>60 DEF PollActive
  <2>2. \A u \in Tasks : body'[u] = "dequeued" <=> body[u] = "dequeued"
    BY <1>60 DEF PollActive
  <2>3. Len(queue') + HeadCount' = Len(queue) + HeadCount
    BY <2>1 DEF HeadCount
  <2> QED BY <2>1, <2>2, <2>3, SameCounts
<1>61. ASSUME Expire PROVE CounterInv'
  <2>1. UNCHANGED <<spawn, admitted, states, producer_count, active_tasks, stats,
                    queue, head, queued_tasks, accounting>>
    BY <1>61 DEF Expire
  <2>2. \A u \in Tasks : body'[u] = "dequeued" <=> body[u] = "dequeued"
    BY <1>61 DEF Expire
  <2>3. Len(queue') + HeadCount' = Len(queue) + HeadCount
    BY <2>1 DEF HeadCount
  <2> QED BY <2>1, <2>2, <2>3, SameCounts
<1>62. CASE UNCHANGED vars
  <2>1. UNCHANGED <<spawn, admitted, states, producer_count, active_tasks, stats,
                    queue, head, queued_tasks, accounting>>
    BY <1>62 DEF vars
  <2>2. \A u \in Tasks : body'[u] = "dequeued" <=> body[u] = "dequeued"
    BY <1>62 DEF vars
  <2>3. Len(queue') + HeadCount' = Len(queue) + HeadCount
    BY <2>1 DEF HeadCount
  <2> QED BY <2>1, <2>2, <2>3, SameCounts
<1> HIDE DEF CounterInv
<1> QED
  BY <1>1, <1>2, <1>3, <1>4, <1>5, <1>6, <1>7, <1>8, <1>9, <1>10, <1>11,
     <1>12, <1>13, <1>14, <1>15, <1>16, <1>17, <1>18, <1>19, <1>20, <1>21,
     <1>22, <1>23, <1>24, <1>25, <1>26, <1>27, <1>28, <1>29, <1>30, <1>31,
     <1>32, <1>33, <1>34, <1>35, <1>36, <1>37, <1>38, <1>39, <1>40, <1>41,
     <1>42, <1>43, <1>44, <1>45, <1>46, <1>47, <1>48, <1>49, <1>50, <1>51,
     <1>52, <1>53, <1>54, <1>55, <1>56, <1>57, <1>58, <1>59, <1>60, <1>61,
     <1>62, <1>63, <1>64 DEF Next, Submission, Execution, Ownership, Completion, Shutdown,
     Waits

\* Nothing is counted initially.
LEMMA CounterInit == Init => CounterInv
<1> SUFFICES ASSUME Init PROVE CounterInv
  OBVIOUS
<1>1. /\ Started = {} /\ Admitted = {} /\ Residents = {} /\ CreditHolders = {}
      /\ Undecided = {} /\ Unaccepted = {} /\ InTransit = {} /\ HeadCount = 0
  BY DEF Init, InTransit, Started, Admitted, Residents, Resident, CreditHolders, Undecided,
     Unaccepted, Admitting, HeadCount
<1>2. /\ producer_count = 0 /\ active_tasks = 0 /\ queued_tasks = 0 /\ Len(queue) = 0
      /\ stats["total_submissions"] = 0 /\ stats["accepted_submissions"] = 0
      /\ stats["rejected_task_limit"] = 0 /\ stats["rejected_task_queue"] = 0
      /\ stats["rejected_task_internal"] = 0 /\ stats["finished_tasks"] = 0
  BY DEF Init, StatNames
<1>3. IsFiniteSet({}) /\ Cardinality({}) = 0
  BY FS_EmptySet
<1> QED BY <1>1, <1>2, <1>3, LimitsAssumption DEF CounterInv

\* The counters are exact in every reachable state.
LEMMA CounterInvariance == Spec => [](TypeOK /\ FrameInv /\ LifeInv /\ CounterInv)
<1>1. TypeOK /\ TypeOK' /\ FrameInv /\ LifeInv /\ LifeInv' /\ CounterInv /\ [Next]_vars
        => CounterInv'
  BY CounterStep
<1> QED BY <1>1, CounterInit, LifeInvariance, PTL DEF Spec, HungSpec

\* The inductive invariant gives what the counters promise.
LEMMA CountersFromInv ==
    ASSUME TypeOK, FrameInv, LifeInv, CounterInv
    PROVE  CountersExact
<1>t. /\ queue \in Seq(Tasks) /\ Len(queue) \in Nat /\ HeadCount \in Nat
      /\ queued_tasks \in Int /\ TaskQueueLimit \in Nat /\ active_tasks \in Int
  BY LimitsAssumption DEF TypeOK, HeadCount
<1>s. /\ stats["accepted_submissions"] \in Nat /\ stats["rejected_task_limit"] \in Nat
      /\ stats["rejected_task_queue"] \in Nat /\ stats["rejected_task_internal"] \in Nat
      /\ stats["finished_tasks"] \in Nat
  BY DEF TypeOK, StatNames
<1>1. ActiveExact
  BY DEF CounterInv, ActiveExact, Residents
<1>2. QueueBounded
  <2> DEFINE reserved == {t \in Tasks : spawn[t] = "send"}
  <2>1. reserved \subseteq CreditHolders
    BY DEF CreditHolders
  <2>2. IsFiniteSet(CreditHolders) /\ Cardinality(CreditHolders) \in Nat
    BY CountedSets
  <2>3. Cardinality(reserved) <= Cardinality(CreditHolders) /\ Cardinality(reserved) \in Nat
    BY <2>1, <2>2, FS_Subset, FS_CardinalityType
  <2>4. /\ queued_tasks = Len(queue) + HeadCount + Cardinality(CreditHolders)
        /\ queued_tasks <= TaskQueueLimit
    BY DEF CounterInv
  <2> HIDE DEF reserved
  <2>5. Len(queue) + HeadCount + Cardinality(reserved) <= TaskQueueLimit
    BY <1>t, <2>2, <2>3, <2>4
  <2> QED BY <2>5 DEF QueueBounded, HeadCount, reserved
<1>3. StatsReconcile
  <2> SUFFICES ASSUME \A t \in Tasks : spawn[t] \in {"none", "returned", "refused"}
               PROVE  /\ stats["total_submissions"] =
                           stats["accepted_submissions"] + stats["rejected_task_limit"]
                             + stats["rejected_task_queue"] + stats["rejected_task_internal"]
                      /\ stats["accepted_submissions"] =
                           stats["finished_tasks"] + active_tasks + Cardinality(InTransit)
    BY DEF StatsReconcile
  <2>1. Undecided = {} /\ Unaccepted = {}
    BY DEF Undecided, Unaccepted, Admitting
  <2>2. Cardinality(Undecided) = 0 /\ Cardinality(Unaccepted) = 0
    BY <2>1, FS_EmptySet
  <2>3. /\ stats["total_submissions"] =
             stats["accepted_submissions"] + stats["rejected_task_limit"]
               + stats["rejected_task_queue"] + stats["rejected_task_internal"] + 0
        /\ stats["accepted_submissions"] + 0 =
             stats["finished_tasks"] + active_tasks + Cardinality(InTransit)
    BY <2>2 DEF CounterInv
  <2> QED BY <1>s, <2>3
<1> QED BY <1>1, <1>2, <1>3 DEF CountersExact

\* active_tasks is the number of tasks between their admission and the fetch_sub
\* of their accounting and stays within max_tasks, queued nodes and reservations
\* stay within task_queue_limit, and the statistics differ from a balance only by
\* the threads between two counters, under all rejections and rollbacks and for
\* any number of tasks.
THEOREM CountersSafety == Spec => []CountersExact
<1>1. TypeOK /\ FrameInv /\ LifeInv /\ CounterInv => CountersExact
  BY CountersFromInv
<1> QED BY <1>1, CounterInvariance, PTL

-----------------------------------------------------------------------------
(* Shutdown *)

\* No admission begins once the gate is closed, and without an admission no task
\* becomes resident.
LEMMA ShutdownStaysEmpty ==
    ASSUME TypeOK, TypeOK', LifeInv, LifeInv', [Next]_vars, GateClosed, Admitted = {}
    PROVE  Admitted' = {} /\ (Residents = {} => Residents' = {})
<1>t. /\ spawn \in [Tasks -> SpawnLabels] /\ admitted \in [Tasks -> BOOLEAN]
      /\ states \subseteq Tasks
  BY DEF TypeOK
<1>1. \A t \in Tasks : ~admitted[t] /\ spawn[t] \notin {"limit", "register"}
  <2>1. \A t \in Tasks : ~admitted[t]
    BY DEF Admitted
  <2> QED BY <2>1 DEF LifeInv, SubmissionPlace, Admitting
<1>2. \A t \in Tasks : Resident(t) <=> HasUnit(t)
  BY ResidentUnit
<1>3. \A t \in Tasks : Resident(t)' <=> HasUnit(t)'
  BY ResidentUnitNext
<1>4. /\ \A t \in Tasks : ~admitted'[t] /\ spawn'[t] # "register"
      /\ states' \subseteq states
      /\ \A t \in Tasks : accounting'[t] = "unregistered" =>
            accounting[t] = "unregistered" \/ t \in states
  <2> USE <1>t, <1>1 DEF countVars, queueVars, outcomeVars, ackVars, ownerVars,
        controlVars, shutdownVars
  <2>1. ASSUME NEW t \in Tasks, Submission(t)
        PROVE  /\ \A u \in Tasks : ~admitted'[u] /\ spawn'[u] # "register"
               /\ states' \subseteq states /\ accounting' = accounting
    <3>1. ASSUME NEW from, NEW to, to # "register", SpawnStep(t, from, to)
          PROVE  \A u \in Tasks : spawn'[u] # "register"
      BY <3>1 DEF SpawnStep
    <3>2. CASE BeginSpawn(t)
      BY <3>1, <3>2 DEF BeginSpawn
    <3>3. CASE DenySpawn(t) \/ CreateTask(t) \/ RejectClosed(t) \/ TakeActive(t) \/ RejectAtLimit(t)
      BY <3>1, <3>3
      DEF DenySpawn, CreateTask, RejectClosed, TakeActive, RejectAtLimit, SpawnStep
    <3>4. CASE Register(t) \/ RejectClosing(t) \/ Build(t) \/ BuildPanic(t) \/ InstallRun(t)
      BY <3>1, <3>4
      DEF Register, RejectClosing, Build, BuildPanic, InstallRun, SpawnStep, Rollback
    <3>5. CASE RefuseInstall(t) \/ AfterInstall(t) \/ HeaderOverflow(t) \/ ReserveQueue(t)
                 \/ RejectAtQueueLimit(t)
      BY <3>1, <3>5 DEF RefuseInstall, AfterInstall, HeaderOverflow, ReserveQueue,
         RejectAtQueueLimit, Rollback
    <3>6. CASE Send(t) \/ CountAccepted(t) \/ RejectQueued(t) \/ YieldRejection(t) \/ AfterReject(t)
      BY <3>1, <3>6 DEF Send, CountAccepted, RejectQueued, YieldRejection, AfterReject
    <3>7. CASE DropConstructor(t) \/ Settle(t)
      BY <3>7 DEF DropConstructor, Settle
    <3>8. CASE Leave(t) \/ LeaveDenied(t)
      BY <3>1, <3>8 DEF Leave, LeaveDenied, EndAdmission
    <3> QED BY <2>1, <3>2, <3>3, <3>4, <3>5, <3>6, <3>7, <3>8 DEF Submission
  <2>2. ASSUME NEW t \in Tasks, Execution(t) \/ Ownership(t) 
        PROVE  UNCHANGED <<spawn, admitted, states, accounting>>
    BY <2>2 DEF Execution, Ownership, ReturnCredit, ClaimRun, ClaimNothing,
       RefuseExecution, YieldRefusal, SetStatus, FinishBody, AfterComplete,
       FinishTaskJob, CancelHandle, RememberDeadline, AwaitResult, ReleaseOwner,
       DropResult, OwnerCancel, AfterOwnerCancel, PublishOwner, DrainOwnerResult
  <2>3. ASSUME NEW t \in Tasks, NEW r \in Roles, Completion(t, r)
        PROVE  /\ UNCHANGED <<spawn, admitted>> /\ states' \subseteq states
               /\ \A u \in Tasks : accounting'[u] = "unregistered" =>
                     accounting[u] = "unregistered" \/ u \in states
    <3>1. Unregister(t, r) => t \in states
      BY DEF Unregister, Accounts, LifeInv, AccountingOnce, SubmissionPlace, Unaccounted
    <3>2. accounting \in [Tasks -> AccountingStages]
      BY DEF TypeOK
    <3> QED BY <2>3, <3>1, <3>2 DEF Accounts, Completion, DestroyFrame, Publish, Discard, ClaimAccounting,
       Unregister, ReleaseActive, CountFinished, AckAccounting
  <2>4. ASSUME Dequeue \/ RetirePrefix \/ CachePrefix \/ Shutdown
        PROVE  UNCHANGED <<spawn, admitted, states, accounting>>
    BY <2>4 DEF Dequeue, RetirePrefix, CachePrefix, Shutdown, BeginShutdown,
       SetClosing, CloseGate, Snapshot, CancelSnapshot, EndCancelAll, PollProducers,
       PollActive, Expire
  <2>5. CASE UNCHANGED vars
    BY <2>5 DEF vars
  <2> QED BY <2>1, <2>2, <2>3, <2>4, <2>5 DEF Next
<1>5. Admitted' = {}
  BY <1>4 DEF Admitted
<1>6. ASSUME Residents = {} PROVE Residents' = {}
  BY <1>2, <1>3, <1>4, <1>6 DEF Residents, HasUnit
<1> QED BY <1>5, <1>6

\* Every step keeps what the polls of the shutdown found out.
LEMMA PollsStep ==
    ASSUME TypeOK, TypeOK', FrameInv, LifeInv, LifeInv', CounterInv, ShutdownInv, [Next]_vars
    PROVE  ShutdownInv'
<1>1. /\ Admitted = {} <=> producer_count = 0
      /\ Residents = {} <=> active_tasks = 0
  <2>1. IsFiniteSet(Admitted) /\ IsFiniteSet(Residents)
    BY CountedSets
  <2> QED BY <2>1, FS_EmptySet DEF CounterInv
<1>2. CASE PollProducers
  <2>1. Admitted' = Admitted
    BY <1>2 DEF PollProducers, controlVars, Admitted
  <2>2. shutdown' \in {"pollActive", "ok"} => producer_count = 0
    BY <1>2 DEF PollProducers, StillOutstanding, AfterOutstanding
  <2>3. shutdown' # "ok"
    BY <1>2 DEF PollProducers, StillOutstanding, AfterOutstanding
  <2> QED BY <1>1, <2>1, <2>2, <2>3 DEF ShutdownInv
<1>3. CASE PollActive
  <2>1. Admitted' = Admitted /\ Residents' = Residents
    BY <1>3 DEF PollActive, controlVars, ackVars, Admitted, Residents, Resident, Released
  <2>2. shutdown = "pollActive" /\ (shutdown' = "ok" => active_tasks = 0)
    BY <1>3 DEF PollActive, StillOutstanding, AfterOutstanding
  <2> QED BY <1>1, <2>1, <2>2 DEF ShutdownInv
<1>4. ASSUME shutdown' \in {"pollActive", "ok"}, shutdown' = shutdown PROVE ShutdownInv'
  <2>1. GateClosed /\ Admitted = {}
    BY <1>4 DEF GateClosed, Closing, ShutdownInv
  <2>2. Admitted' = {} /\ (Residents = {} => Residents' = {})
    BY <2>1, ShutdownStaysEmpty
  <2> QED BY <1>4, <2>2 DEF ShutdownInv
<1>5. ASSUME shutdown' \notin {"pollActive", "ok"} PROVE ShutdownInv'
  BY <1>5 DEF ShutdownInv
<1>6. ASSUME NEW t \in Tasks, Submission(t) PROVE shutdown' = shutdown
  BY <1>6 DEF Submission, BeginSpawn, DenySpawn, CreateTask, RejectClosed, TakeActive,
     RejectAtLimit, Register, RejectClosing, Build, BuildPanic, InstallRun,
     RefuseInstall, AfterInstall, HeaderOverflow, ReserveQueue, RejectAtQueueLimit,
     Send, CountAccepted, RejectQueued, YieldRejection, AfterReject,
     DropConstructor, Settle, Leave, LeaveDenied, shutdownVars
<1>7. ASSUME NEW t \in Tasks, Execution(t) \/ Ownership(t) PROVE shutdown' = shutdown
  BY <1>7 DEF Execution, Ownership, ReturnCredit, ClaimRun, ClaimNothing,
     RefuseExecution, YieldRefusal, SetStatus, FinishBody, AfterComplete,
     FinishTaskJob, CancelHandle, RememberDeadline, AwaitResult, ReleaseOwner,
     DropResult, OwnerCancel, AfterOwnerCancel, PublishOwner, DrainOwnerResult,
     shutdownVars
<1>8. ASSUME NEW t \in Tasks, NEW r \in Roles, Completion(t, r) PROVE shutdown' = shutdown
  BY <1>8 DEF Completion, DestroyFrame, Publish, Discard, ClaimAccounting,
     Unregister, ReleaseActive, CountFinished, AckAccounting, shutdownVars
<1>9. ASSUME Dequeue \/ RetirePrefix \/ CachePrefix PROVE shutdown' = shutdown
  BY <1>9 DEF Dequeue, RetirePrefix, CachePrefix, shutdownVars
<1>10. ASSUME Shutdown PROVE ShutdownInv'
  <2>1. ASSUME NEW t \in Tasks, CancelSnapshot(t) PROVE shutdown' = "cancelling"
    BY <2>1 DEF CancelSnapshot
  <2>2. BeginShutdown \/ SetClosing \/ CloseGate \/ Snapshot \/ EndCancelAll
          => shutdown' \notin {"pollActive", "ok"}
    BY DEF BeginShutdown, SetClosing, CloseGate, Snapshot, EndCancelAll, ShutdownStep
  <2>3. Expire => shutdown' = shutdown
    BY DEF Expire
  <2> QED BY <1>2, <1>3, <1>4, <1>5, <1>10, <2>1, <2>2, <2>3 DEF Shutdown
<1>11. CASE UNCHANGED vars
  BY <1>4, <1>5, <1>11 DEF vars, shutdownVars
<1> QED BY <1>4, <1>5, <1>6, <1>7, <1>8, <1>9, <1>10, <1>11 DEF Next

\* The polls' findings hold in every reachable state.
LEMMA ShutdownInvariance == Spec => [](TypeOK /\ FrameInv /\ LifeInv /\ ShutdownInv)
<1>1. Init => ShutdownInv
  BY DEF Init, ShutdownInv
<1>2. TypeOK /\ TypeOK' /\ FrameInv /\ LifeInv /\ LifeInv' /\ CounterInv /\ ShutdownInv
        /\ [Next]_vars => ShutdownInv'
  BY PollsStep
<1> QED BY <1>1, <1>2, CounterInvariance, PTL DEF Spec, HungSpec

\* Every frame that can still run belongs to a registered task, or to one that
\* is being rejected.
LEMMA RunnableIsRegistered ==
    ASSUME TypeOK, FrameInv, LifeInv
    PROVE  CancelAllReaches
<1> SUFFICES ASSUME NEW t \in Tasks, "slot" \in frame[t] \/ "body" \in frame[t]
             PROVE  t \in states \/ spawn[t] = "reject"
  BY DEF CancelAllReaches
<1>1. /\ SubmissionPlace(t) /\ HolderPlace(t) /\ AccountingOnce(t)
      /\ FramePlace(t) /\ CompletionOnce(t)
  BY DEF LifeInv, FrameInv
<1>2. Idle(t)
  BY <1>1 DEF FramePlace
<1>3. accounting[t] = "open"
  BY <1>1, <1>2 DEF AccountingOnce, Idle
<1>4. Unaccounted(t)
  BY <1>3 DEF Unaccounted
<1>5. spawn[t] \in {"reserve", "send", "reject"} \/ Handed(t)
  BY <1>1 DEF FramePlace, HolderPlace, SubmissionPlace
<1> QED BY <1>1, <1>4, <1>5 DEF SubmissionPlace, Admitting

\* Without admissions and resident tasks nothing is queued, runs or is held.
LEMMA NothingLeft ==
    ASSUME TypeOK, FrameInv, LifeInv, ShutdownInv
    PROVE  ShutdownSound
<1> SUFFICES ASSUME shutdown = "ok"
             PROVE  /\ QueueEmpty
                    /\ \A t \in Tasks :
                         /\ body[t] \in {"none", "done"}
                         /\ frame[t] # {} => frame[t] = {"spawn"} /\ ~admitted[t]
                         /\ ~Resident(t)
  BY DEF ShutdownSound
<1>1. \A t \in Tasks : ~admitted[t] /\ ~Resident(t)
  BY DEF ShutdownInv, Admitted, Residents
<1>2. ASSUME NEW t \in Tasks, Handed(t)
      PROVE  body[t] = "done" /\ Terminal(t)
  <2>1. Released(t)
    BY <1>1, <1>2 DEF Resident, Handed
  <2>2. AccountingOnce(t)
    BY DEF LifeInv
  <2> QED BY <2>1, <2>2 DEF Released, AccountingOnce
<1>3. ASSUME NEW t \in Tasks PROVE body[t] \in {"none", "done"} /\ ~Queued(t)
  <2>1. SubmissionPlace(t) /\ NodePlace(t)
    BY DEF LifeInv, FrameInv
  <2> QED BY <1>2, <2>1 DEF SubmissionPlace, NodePlace
<1>4. QueueEmpty
  <2>1. queue \in Seq(Tasks) /\ head \in Tasks \cup {NoTask}
    BY DEF TypeOK
  <2>2. head = NoTask
    BY <1>3, <2>1 DEF Queued
  <2>3. ASSUME queue # << >> PROVE FALSE
    <3>1. queue[1] \in Tasks /\ 1 \in 1..Len(queue)
      BY <2>1, <2>3
    <3> QED BY <1>3, <3>1 DEF Queued
  <2> QED BY <2>2, <2>3 DEF QueueEmpty
<1>5. ASSUME NEW t \in Tasks PROVE frame[t] \subseteq {"spawn"}
  <2>1. /\ SubmissionPlace(t) /\ HolderPlace(t) /\ FramePlace(t) /\ CompletionOnce(t)
        /\ frame[t] \subseteq Holders
    BY DEF LifeInv, FrameInv, TypeOK
  <2>2. spawn[t] \notin Admitting \cup {"reject"} /\ ~admitted[t]
    BY <1>1, <2>1 DEF SubmissionPlace
  <2>3. CASE Handed(t)
    <3>1. PICK r \in Completers : comp[t][r] \notin {"idle", "destroy"}
      BY <1>2, <2>1, <2>3 DEF CompletionOnce
    <3> QED BY <3>1, TerminalFrame
  <2>4. CASE ~Handed(t)
    <3>1. "slot" \notin frame[t] /\ "body" \notin frame[t]
      BY <1>3, <2>1, <2>2, <2>4 DEF HolderPlace, FramePlace, Admitting
    <3>2. \A r \in Completers \ {"body"} : r \notin frame[t]
      BY <1>3, <2>1, <2>2, <2>4 DEF HolderPlace, FramePlace, Admitting, Completers
    <3> QED BY <2>1, <3>1, <3>2 DEF Holders
  <2> QED BY <2>3, <2>4
<1> QED BY <1>1, <1>3, <1>4, <1>5

\* cancel_all finds every frame that can still run, and a shutdown that reports
\* success left no queued node, no running body, no resident task and no frame but
\* the constructor of a submission that came too late.
THEOREM ShutdownSafety == Spec => []ShutdownComplete
<1>1. TypeOK /\ FrameInv /\ LifeInv /\ ShutdownInv => ShutdownComplete
  BY RunnableIsRegistered, NothingLeft DEF ShutdownComplete
<1> QED BY <1>1, ShutdownInvariance, PTL

=============================================================================
