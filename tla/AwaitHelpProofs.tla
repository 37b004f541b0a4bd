--------------------------- MODULE AwaitHelpProofs ---------------------------
(***************************************************************************)
(* Safety of AwaitHelp for every number of tasks and workers, every body   *)
(* and every depth limit.  The argument joins three places that the code   *)
(* keeps apart: the frames of the threads (FrameInv), the tickets and the  *)
(* edges they register (TicketInv), and the result slots (SlotInv).        *)
(***************************************************************************)
EXTENDS AwaitHelp, SequenceTheorems, WellFoundedInduction, TLAPS

\* The labels of a body that has not returned.
Alive == {"body", "register", "poll", "help", "settle"}

\* The labels at which a caller has a ticket, and at which its wait is registered.
Ticketed == {"register", "poll", "help", "settle"}
Registered == {"poll", "help", "settle"}

\* The status of a task follows its body.
BodyInv ==
    /\ \A t \in Task : /\ status[t] = "running" <=> pc[t] \in Alive
                       /\ pc[t] \in {"retire", "end"} => status[t] = "terminal"
    /\ pc[Root] \in Alive \cup {"end"}

\* A body with a frame has been claimed and not been retired, only the top frame
\* of a thread does anything but poll, who helps was below the depth limit, and
\* a worker inside recv has no frame.
FrameInv ==
    /\ \A th \in Thread : \A i \in 1..Len(stack[th]) :
          pc[stack[th][i]] # "off" /\ (stack[th][i] # Root => pc[stack[th][i]] # "end")
    /\ BuriedFramesWait
    /\ \A th \in Thread : \A i \in 1..Len(stack[th]) :
          pc[stack[th][i]] = "help" => Len(stack[th]) <= MAX_AWAIT_DEPTH
    /\ receiver # NoThread => stack[receiver] = <<>>

\* A ticket names a task that was claimed for this caller alone, and a task's
\* edge is its ticket from its registration until its guard is dropped.
TicketInv ==
    /\ \A c \in Caller : ticket[c] # NoTask <=> pc[c] \in Ticketed
    /\ \A c \in Caller : ticket[c] # NoTask => ticket[c] \in awaited
    /\ \A c, d \in Caller : ticket[c] = ticket[d] /\ ticket[c] # NoTask => c = d
    /\ \A t \in Task : edges[t] = IF pc[t] \in Registered THEN ticket[t] ELSE NoTask

\* A result that is gone was taken by the one caller that had claimed it.
SlotInv ==
    \A t \in Task : status[t] = "terminal" /\ t \notin slot =>
        t \in awaited /\ \A c \in Caller : ticket[c] = t => pc[c] = "settle"

\* No set of tasks waits only within itself.
Acyclic(e) == \A S \in SUBSET Task : S # {} => \E t \in S : e[t] \notin S

\* The inductive invariant.
AwaitInv ==
    /\ TypeOK /\ BodyInv /\ FrameInv /\ TicketInv /\ SlotInv
    /\ Acyclic(edges) /\ AdmittedGetsResult

-----------------------------------------------------------------------------
(* Operators *)

\* A nonempty set of naturals has a least element.
LEMMA LeastOf ==
    ASSUME NEW S \in SUBSET Nat, S # {}
    PROVE  \E n \in S : \A m \in S : ~(m < n)
  <1>1. PICK n \in S : \A m \in S : ~(<<m, n>> \in OpToRel(<, Nat))
    BY WFMin, NatLessThanWellFounded, Zenon
  <1>2. QED
    BY <1>1 DEF OpToRel

\* The recurrence of the cursor of register_wait.
Cursor(e, t, n, f) ==
    f = [k \in 0..n |-> IF k = 0 THEN t
                        ELSE IF f[k - 1] = NoTask THEN NoTask ELSE e[f[k - 1]]]

\* The cursor exists: a walk of n edges is a walk of n - 1 edges and one more.
LEMMA CursorExists ==
    ASSUME NEW e, NEW t, NEW n \in Nat
    PROVE  \E f : Cursor(e, t, n, f)
  <1> DEFINE Stuck == {m \in Nat : ~\E f : Cursor(e, t, m, f)}
  <1> SUFFICES ASSUME Stuck # {} PROVE FALSE
    OBVIOUS
  <1>1. PICK m \in Stuck : \A k \in Stuck : ~(k < m)
    BY LeastOf
  <1>2. m \in Nat /\ ~\E f : Cursor(e, t, m, f)
    OBVIOUS
  <1>3. m # 0
    <2> SUFFICES ASSUME m = 0 PROVE FALSE
      OBVIOUS
    <2> DEFINE g == [k \in 0..0 |-> t]
    <2>1. \A k \in 0..0 : k = 0
      OBVIOUS
    <2>2. Cursor(e, t, 0, g)
      BY <2>1 DEF Cursor
    <2>3. QED
      BY <1>2, <2>2
  <1>4. m - 1 \in Nat /\ m - 1 < m
    BY <1>2, <1>3
  <1>5. PICK f : Cursor(e, t, m - 1, f)
    BY <1>1, <1>4
  <1> DEFINE last == IF f[m - 1] = NoTask THEN NoTask ELSE e[f[m - 1]]
             g == [k \in 0..m |-> IF k = m THEN last ELSE f[k]]
  <1>6. ASSUME NEW k \in 0..m
        PROVE  g[k] = IF k = 0 THEN t ELSE IF g[k - 1] = NoTask THEN NoTask ELSE e[g[k - 1]]
    <2>1. CASE k = m
      <3>1. m - 1 \in 0..m /\ m - 1 # m /\ g[m - 1] = f[m - 1] /\ g[m] = last
        BY <1>4
      <3>2. QED
        BY <1>3, <2>1, <3>1
    <2>2. CASE k = 0
      <3>1. g[0] = f[0] /\ 0 \in 0..(m - 1)
        BY <1>2, <1>3, <1>4
      <3>2. f[0] = t
        BY <1>5, <3>1 DEF Cursor
      <3>3. QED
        BY <2>2, <3>1, <3>2
    <2>3. CASE k # 0 /\ k # m
      <3>1. k \in 0..(m - 1) /\ k - 1 \in 0..m /\ k - 1 # m /\ k # 0
        BY <1>2, <2>3
      <3>2. g[k] = f[k] /\ g[k - 1] = f[k - 1]
        BY <2>3, <3>1
      <3>3. f[k] = IF f[k - 1] = NoTask THEN NoTask ELSE e[f[k - 1]]
        BY <1>5, <3>1 DEF Cursor
      <3>4. QED
        BY <3>1, <3>2, <3>3
    <2>4. QED
      BY <2>1, <2>2, <2>3
  <1>7. Cursor(e, t, m, g)
    BY <1>6 DEF Cursor
  <1>8. QED
    BY <1>2, <1>7

\* Follow is the last value of a cursor.
LEMMA FollowCursor ==
    ASSUME NEW e, NEW t, NEW n \in Nat
    PROVE  \E f : Cursor(e, t, n, f) /\ Follow(e, t, n) = f[n]
  <1> DEFINE f == CHOOSE g : Cursor(e, t, n, g)
  <1>1. Cursor(e, t, n, f)
    BY CursorExists
  <1>2. Follow(e, t, n) = f[n]
    BY DEF Follow, Cursor
  <1>3. QED
    BY <1>1, <1>2

\* A walk that starts in a set which no edge leaves never leaves it, so it never
\* reaches the end of a chain.
LEMMA FollowStays ==
    ASSUME NEW e, NEW S \in SUBSET Task, \A t \in S : e[t] \in S, NEW t \in S, NEW n \in Nat
    PROVE  Follow(e, t, n) \in S
  <1>1. PICK f : Cursor(e, t, n, f) /\ Follow(e, t, n) = f[n]
    BY FollowCursor
  <1> DEFINE Out == {k \in 0..n : f[k] \notin S}
  <1>2. ASSUME NEW k \in 0..n
        PROVE  f[k] = IF k = 0 THEN t ELSE IF f[k - 1] = NoTask THEN NoTask ELSE e[f[k - 1]]
    BY <1>1 DEF Cursor
  <1>3. ASSUME Out # {} PROVE FALSE
    <2>1. Out \in SUBSET Nat
      OBVIOUS
    <2>2. PICK k \in Out : \A m \in Out : ~(m < k)
      BY <1>3, <2>1, LeastOf
    <2>3. k \in 0..n /\ f[k] \notin S
      BY <2>2
    <2>4. k # 0
      BY <1>2, <2>3
    <2>5. k - 1 \in 0..n /\ k - 1 < k
      BY <2>3, <2>4
    <2>6. f[k - 1] \in S
      BY <2>2, <2>5
    <2>7. f[k - 1] # NoTask
      BY <2>6, CallersAssumption DEF Caller
    <2>8. QED
      BY <1>2, <2>3, <2>4, <2>6, <2>7
  <1>4. n \in 0..n
    OBVIOUS
  <1>5. QED
    BY <1>1, <1>3, <1>4

\* Pushing a frame leaves the frames below where they were.
LEMMA PushFacts ==
    ASSUME NEW S, NEW s \in Seq(S), NEW x \in S
    PROVE  /\ Append(s, x) \in Seq(S) /\ Len(Append(s, x)) = Len(s) + 1 /\ Len(s) \in Nat
           /\ Append(s, x)[Len(s) + 1] = x
           /\ \A i \in 1..Len(s) : Append(s, x)[i] = s[i]
  BY AppendProperties, LenProperties

\* Popping a frame leaves the frames below where they were.
LEMMA PopFacts ==
    ASSUME NEW S, NEW s \in Seq(S), s # <<>>
    PROVE  /\ Front(s) \in Seq(S) /\ Len(Front(s)) = Len(s) - 1 /\ Len(s) \in Nat \ {0}
           /\ Last(s) = s[Len(s)]
           /\ \A i \in 1..(Len(s) - 1) : Front(s)[i] = s[i]
  <1>1. Len(s) \in Nat /\ Len(s) # 0
    BY EmptySeq, LenProperties
  <1>2. 1 \in Int /\ Len(s) - 1 \in Int /\ \A i \in 1..(Len(s) - 1) : s[i] \in S
    BY <1>1
  <1>3. /\ Front(s) \in Seq(S)
        /\ Len(Front(s)) = IF 1 <= Len(s) - 1 THEN (Len(s) - 1) - 1 + 1 ELSE 0
        /\ \A i \in 1..((Len(s) - 1) - 1 + 1) : Front(s)[i] = s[1 + i - 1]
    BY <1>2, SubSeqProperties DEF Front
  <1>4. Len(Front(s)) = Len(s) - 1
    <2>1. CASE 1 <= Len(s) - 1
      BY <1>1, <1>3, <2>1
    <2>2. CASE ~(1 <= Len(s) - 1)
      <3>1. \A n \in Nat : n # 0 /\ ~(1 <= n - 1) => n - 1 = 0
        OBVIOUS
      <3>2. Len(s) - 1 = 0
        BY <1>1, <2>2, <3>1, Zenon
      <3>3. QED
        BY <1>3, <2>2, <3>2
    <2>3. QED
      BY <2>1, <2>2
  <1>5. \A i \in 1..(Len(s) - 1) : Front(s)[i] = s[i]
    <2>1. (Len(s) - 1) - 1 + 1 = Len(s) - 1 /\ \A i \in Int : 1 + i - 1 = i
      BY <1>1, SMTT(30)
    <2>2. \A i \in 1..(Len(s) - 1) : Front(s)[i] = s[1 + i - 1]
      BY <1>3, <2>1
    <2>3. QED
      BY <2>1, <2>2
  <1>6. QED
    BY <1>1, <1>3, <1>4, <1>5 DEF Last

\* The frames of a thread are callers, and the one that runs is the last.
LEMMA FrameFacts ==
    ASSUME TypeOK, NEW th \in Thread
    PROVE  /\ stack[th] \in Seq(Caller) /\ Len(stack[th]) \in Nat
           /\ \A i \in 1..Len(stack[th]) : stack[th][i] \in Caller
           /\ \A c : Runs(th, c) => /\ Len(stack[th]) # 0 /\ stack[th] # <<>>
                                    /\ c = stack[th][Len(stack[th])] /\ c \in Caller
  <1>1. stack[th] \in Seq(Caller)
    BY DEF TypeOK
  <1>2. Len(stack[th]) \in Nat /\ \A i \in 1..Len(stack[th]) : stack[th][i] \in Caller
    BY <1>1, LenProperties, ElementOfSeq
  <1>3. ASSUME NEW c, Runs(th, c)
        PROVE  /\ Len(stack[th]) # 0 /\ stack[th] # <<>>
               /\ c = stack[th][Len(stack[th])] /\ c \in Caller
    <2>1. stack[th] # <<>> /\ c = Last(stack[th])
      BY <1>3 DEF Runs
    <2>2. Len(stack[th]) \in Nat \ {0} /\ Last(stack[th]) = stack[th][Len(stack[th])]
      BY <1>1, <2>1, PopFacts
    <2>3. QED
      BY <1>2, <2>1, <2>2
  <1>4. QED
    BY <1>1, <1>2, <1>3

\* The job at the head of the queue is a task, and the rest are tasks.
LEMMA QueueFacts ==
    ASSUME TypeOK, queue # <<>>
    PROVE  Head(queue) \in Task /\ Tail(queue) \in Seq(Task)
  BY HeadTailProperties DEF TypeOK

-----------------------------------------------------------------------------
(* Frames *)

\* A running caller moves to another label: no other frame changes its label.
LEMMA MoveFrames ==
    ASSUME TypeOK, FrameInv, NEW th \in Thread, NEW c \in Caller, Runs(th, c),
           NEW l, l # "off", l = "end" => c = Root,
           l = "help" => Len(stack[th]) <= MAX_AWAIT_DEPTH,
           pc' = [pc EXCEPT ![c] = l], UNCHANGED <<stack, receiver>>
    PROVE  FrameInv'
  <1>1. Len(stack[th]) \in Nat /\ Len(stack[th]) # 0 /\ c = stack[th][Len(stack[th])]
    BY FrameFacts
  <1>2. Len(stack[th]) \in 1..Len(stack[th])
    BY <1>1
  <1>3. \A d \in Caller : pc'[d] = IF d = c THEN l ELSE pc[d]
    BY DEF TypeOK
  <1>4. ASSUME NEW th2 \in Thread, NEW i \in 1..Len(stack[th2])
        PROVE  /\ stack[th2][i] \in Caller
               /\ stack[th2][i] = c => th2 = th /\ i = Len(stack[th])
    <2>1. stack[th2][i] \in Caller
      BY FrameFacts
    <2>2. stack[th2][i] = c => th2 = th /\ i = Len(stack[th])
      BY <1>1, <1>2 DEF FrameInv, BuriedFramesWait
    <2>3. QED
      BY <2>1, <2>2
  <1>5. ASSUME NEW th2 \in Thread, NEW i \in 1..Len(stack[th2])
        PROVE  /\ pc'[stack[th2][i]] # "off"
               /\ stack[th2][i] # Root => pc'[stack[th2][i]] # "end"
               /\ i < Len(stack[th2]) => pc'[stack[th2][i]] = "poll"
               /\ pc'[stack[th2][i]] = "help" => Len(stack[th2]) <= MAX_AWAIT_DEPTH
    <2>1. CASE stack[th2][i] = c
      <3>1. th2 = th /\ i = Len(stack[th]) /\ ~(i < Len(stack[th2]))
        BY <1>1, <1>4, <2>1
      <3>2. QED
        BY <1>3, <2>1, <3>1
    <2>2. CASE stack[th2][i] # c
      <3>1. pc'[stack[th2][i]] = pc[stack[th2][i]]
        BY <1>3, <1>4, <2>2
      <3>2. QED
        BY <3>1 DEF FrameInv, BuriedFramesWait
    <2>3. QED
      BY <2>1, <2>2
  <1>6. BuriedFramesWait'
    BY <1>5 DEF FrameInv, BuriedFramesWait
  <1>7. QED
    BY <1>5, <1>6 DEF FrameInv

\* A frame is pushed on the waiting frames of a thread: claim_run gave the body
\* of a pending task to this frame, so no other frame has it.
LEMMA PushFrames ==
    ASSUME TypeOK, BodyInv, FrameInv, NEW th \in Thread, NEW t \in Task,
           status[t] = "pending", receiver' = NoThread,
           stack' = [stack EXCEPT ![th] = Append(@, t)],
           pc'[t] = "body",
           \A i \in 1..Len(stack[th]) : pc'[stack[th][i]] = "poll",
           \A d \in Caller : d # t => pc'[d] = pc[d] \/ pc'[d] = "poll"
    PROVE  FrameInv'
  <1> DEFINE n == Len(stack[th])
  <1>1. pc[t] = "off"
    <2>1. pc[t] \in Labels
      BY DEF TypeOK, Caller
    <2>2. pc[t] \notin Alive /\ pc[t] \notin {"retire", "end"}
      BY DEF BodyInv
    <2>3. QED
      BY <2>1, <2>2 DEF Labels, Alive
  <1>2. ASSUME NEW th2 \in Thread, NEW i \in 1..Len(stack[th2])
        PROVE  stack[th2][i] \in Caller /\ stack[th2][i] # t
    BY <1>1, FrameFacts DEF FrameInv
  <1>3. \A th2 \in Thread : th2 # th => stack'[th2] = stack[th2]
    BY DEF TypeOK
  <1>4. /\ Len(stack'[th]) = n + 1 /\ n \in Nat /\ stack'[th][n + 1] = t
        /\ \A i \in 1..n : stack'[th][i] = stack[th][i]
    <2>1. stack[th] \in Seq(Caller) /\ t \in Caller /\ stack'[th] = Append(stack[th], t)
      BY DEF TypeOK, Caller
    <2>2. QED
      BY <2>1, PushFacts
  <1> HIDE DEF n
  <1>5. ASSUME NEW i \in 1..Len(stack'[th])
        PROVE  \/ i = n + 1 /\ stack'[th][i] = t
               \/ i \in 1..n /\ stack'[th][i] = stack[th][i]
    BY <1>4
  <1>6. ASSUME NEW th2 \in Thread, NEW i \in 1..Len(stack'[th2])
        PROVE  /\ pc'[stack'[th2][i]] # "off"
               /\ stack'[th2][i] # Root => pc'[stack'[th2][i]] # "end"
               /\ i < Len(stack'[th2]) => pc'[stack'[th2][i]] = "poll"
               /\ pc'[stack'[th2][i]] = "help" => Len(stack'[th2]) <= MAX_AWAIT_DEPTH
    <2>1. CASE th2 = th /\ i = n + 1
      <3>1. stack'[th2][i] = t /\ ~(i < Len(stack'[th2]))
        BY <1>4, <2>1
      <3>2. QED
        BY <3>1
    <2>2. CASE th2 = th /\ i \in 1..n
      BY <1>4, <2>2 DEF n
    <2>3. CASE th2 # th
      <3>1. stack'[th2] = stack[th2] /\ i \in 1..Len(stack[th2])
        BY <1>3, <2>3
      <3>2. \/ pc'[stack[th2][i]] = pc[stack[th2][i]]
            \/ pc'[stack[th2][i]] = "poll"
        BY <1>2, <3>1
      <3>3. QED
        BY <3>1, <3>2 DEF FrameInv, BuriedFramesWait
    <2>4. QED
      BY <1>5, <2>1, <2>2, <2>3
  <1>7. ASSUME NEW th2 \in Thread, NEW i \in 1..Len(stack'[th2]),
               NEW th3 \in Thread, NEW j \in 1..Len(stack'[th3]),
               stack'[th2][i] = stack'[th3][j]
        PROVE  th2 = th3 /\ i = j
    <2>1. ASSUME NEW th4 \in Thread, NEW k \in 1..Len(stack'[th4])
          PROVE  \/ th4 = th /\ k = n + 1 /\ stack'[th4][k] = t
                 \/ /\ k \in 1..Len(stack[th4]) /\ stack'[th4][k] = stack[th4][k]
                    /\ stack'[th4][k] # t
      <3>1. CASE th4 = th
        BY <1>2, <1>5, <3>1 DEF n
      <3>2. CASE th4 # th
        BY <1>2, <1>3, <3>2
      <3>3. QED
        BY <3>1, <3>2
    <2>2. CASE stack'[th2][i] = t
      BY <1>7, <2>1, <2>2
    <2>3. CASE stack'[th2][i] # t
      <3>1. i \in 1..Len(stack[th2]) /\ stack'[th2][i] = stack[th2][i]
        BY <2>1, <2>3
      <3>2. j \in 1..Len(stack[th3]) /\ stack'[th3][j] = stack[th3][j]
        BY <1>7, <2>1, <2>3
      <3>3. QED
        BY <1>7, <3>1, <3>2 DEF FrameInv, BuriedFramesWait
    <2>4. QED
      BY <2>2, <2>3
  <1>8. BuriedFramesWait'
    BY <1>6, <1>7 DEF BuriedFramesWait
  <1>9. QED
    BY <1>6, <1>8 DEF FrameInv

\* The top frame of a thread is popped: its body has no frame left.
LEMMA PopFrames ==
    ASSUME TypeOK, FrameInv, NEW th \in Thread, NEW t \in Task, Runs(th, t),
           stack' = [stack EXCEPT ![th] = Front(@)],
           pc' = [pc EXCEPT ![t] = "end"], UNCHANGED receiver
    PROVE  FrameInv'
  <1> DEFINE n == Len(stack[th])
  <1>1. n \in Nat /\ n # 0 /\ stack[th] # <<>> /\ t = stack[th][n] /\ t \in Caller
    BY FrameFacts
  <1>2. \A th2 \in Thread : th2 # th => stack'[th2] = stack[th2]
    BY DEF TypeOK
  <1>3. /\ Len(stack'[th]) = n - 1
        /\ \A i \in 1..(n - 1) : stack'[th][i] = stack[th][i]
    <2>1. stack[th] \in Seq(Caller) /\ stack'[th] = Front(stack[th])
      BY DEF TypeOK
    <2>2. QED
      BY <1>1, <2>1, PopFacts
  <1> HIDE DEF n
  <1>4. \A d \in Caller : pc'[d] = IF d = t THEN "end" ELSE pc[d]
    BY <1>1 DEF TypeOK
  <1>5. ASSUME NEW th2 \in Thread, NEW i \in 1..Len(stack'[th2])
        PROVE  /\ i \in 1..Len(stack[th2]) /\ stack'[th2][i] = stack[th2][i]
               /\ Len(stack'[th2]) <= Len(stack[th2])
               /\ i < Len(stack'[th2]) => i < Len(stack[th2])
               /\ th2 = th => i < n
    <2>1. CASE th2 = th
      BY <1>1, <1>3, <2>1 DEF n
    <2>2. CASE th2 # th
      <3>1. stack'[th2] = stack[th2] /\ Len(stack[th2]) \in Nat
        BY <1>2, <2>2, FrameFacts
      <3>2. QED
        BY <2>2, <3>1
    <2>3. QED
      BY <2>1, <2>2
  <1>6. ASSUME NEW th2 \in Thread, NEW i \in 1..Len(stack'[th2])
        PROVE  stack[th2][i] \in Caller /\ stack[th2][i] # t
    <2>1. i \in 1..Len(stack[th2]) /\ n \in 1..Len(stack[th]) /\ (th2 = th => i < n)
      BY <1>1, <1>5 DEF n
    <2>2. stack[th2][i] = stack[th][n] => th2 = th /\ i = n
      BY <2>1 DEF FrameInv, BuriedFramesWait
    <2>3. th2 = th => i # n
      BY <1>1, <2>1
    <2>4. stack[th2][i] \in Caller
      BY <2>1, FrameFacts
    <2>5. QED
      BY <1>1, <2>2, <2>3, <2>4
  <1>7. ASSUME NEW th2 \in Thread, NEW i \in 1..Len(stack'[th2])
        PROVE  /\ pc'[stack'[th2][i]] # "off"
               /\ stack'[th2][i] # Root => pc'[stack'[th2][i]] # "end"
               /\ i < Len(stack'[th2]) => pc'[stack'[th2][i]] = "poll"
               /\ pc'[stack'[th2][i]] = "help" => Len(stack'[th2]) <= MAX_AWAIT_DEPTH
    <2>1. pc'[stack'[th2][i]] = pc[stack[th2][i]] /\ stack'[th2][i] = stack[th2][i]
      BY <1>4, <1>5, <1>6
    <2>2. Len(stack'[th2]) \in Int /\ Len(stack[th2]) \in Int /\ MAX_AWAIT_DEPTH \in Int
      BY <1>1, <1>2, <1>3, FrameFacts, DepthAssumption
    <2>3. pc'[stack'[th2][i]] = "help" => Len(stack[th2]) <= MAX_AWAIT_DEPTH
      BY <1>5, <2>1 DEF FrameInv
    <2>4. pc'[stack'[th2][i]] = "help" => Len(stack'[th2]) <= MAX_AWAIT_DEPTH
      BY <1>5, <2>2, <2>3
    <2>5. QED
      BY <1>5, <2>1, <2>4 DEF FrameInv, BuriedFramesWait
  <1>8. ASSUME NEW th2 \in Thread, NEW i \in 1..Len(stack'[th2]),
               NEW th3 \in Thread, NEW j \in 1..Len(stack'[th3]),
               stack'[th2][i] = stack'[th3][j]
        PROVE  th2 = th3 /\ i = j
    BY <1>5, <1>8 DEF FrameInv, BuriedFramesWait
  <1>9. BuriedFramesWait'
    BY <1>7, <1>8 DEF BuriedFramesWait
  <1>10. receiver # NoThread => stack'[receiver] = <<>>
    <2> SUFFICES ASSUME receiver # NoThread PROVE stack'[receiver] = <<>>
      OBVIOUS
    <2>1. receiver \in Thread /\ stack[receiver] = <<>>
      BY DEF TypeOK, Thread, FrameInv
    <2>2. receiver # th
      BY <1>1, <2>1
    <2>3. QED
      BY <1>2, <2>1, <2>2
  <1>11. QED
    BY <1>7, <1>9, <1>10 DEF FrameInv

-----------------------------------------------------------------------------
(* Steps *)

\* A task is a caller and nobody is no task; Root is no task.
LEMMA CallerFacts ==
    /\ Task \subseteq Caller /\ Root \in Caller /\ Root \notin Task
    /\ NoTask \notin Task /\ NoTask \notin Caller /\ NoThread \notin Thread
    /\ Worker \subseteq Thread /\ Root \in Thread
  BY CallersAssumption DEF Caller, Thread

\* The root runs, nothing was started and nobody waits.
LEMMA AwaitInit == Init => AwaitInv
  <1> SUFFICES ASSUME Init PROVE AwaitInv
    OBVIOUS
  <1> USE CallerFacts
  <1>1. \A th \in Thread : stack[th] = IF th = Root THEN <<Root>> ELSE <<>>
    BY DEF Init
  <1>2. /\ stack[Root] = <<Root>> /\ Len(stack[Root]) = 1 /\ stack[Root][1] = Root
        /\ \A th \in Thread : th # Root => stack[th] = <<>> /\ Len(stack[th]) = 0
    BY <1>1
  <1>3. TypeOK
    <2>0. <<Root>> \in Seq(Caller) /\ <<>> \in Seq(Caller)
      OBVIOUS
    <2>1. \A th \in Thread : stack[th] \in Seq(Caller)
      BY <1>1, <2>0
    <2>2. stack \in [Thread -> Seq(Caller)]
      BY <2>1 DEF Init
    <2>3. pc \in [Caller -> Labels]
      BY DEF Init, Labels
    <2>4. queue \in Seq(Task)
      BY DEF Init
    <2>5. QED
      BY <2>2, <2>3, <2>4 DEF Init, TypeOK, Statuses, Outcomes
  <1>4. BodyInv
    BY DEF Init, BodyInv, Alive
  <1>5. ASSUME NEW th \in Thread, NEW i \in 1..Len(stack[th])
        PROVE  th = Root /\ i = 1 /\ stack[th][i] = Root /\ ~(i < Len(stack[th]))
    <2>1. CASE th = Root
      <3>1. Len(stack[th]) = 1 /\ stack[th][1] = Root
        BY <1>2, <2>1
      <3>2. i = 1
        BY <3>1
      <3>3. QED
        BY <2>1, <3>1, <3>2
    <2>2. CASE th # Root
      BY <1>2, <2>2
    <2>3. QED
      BY <2>1, <2>2
  <1>6. pc[Root] = "body"
    BY DEF Init
  <1>7. BuriedFramesWait
    BY <1>5 DEF BuriedFramesWait
  <1>8. FrameInv
    BY <1>5, <1>6, <1>7 DEF FrameInv, Init
  <1>9. TicketInv
    BY DEF Init, TicketInv, Ticketed, Registered
  <1>10. SlotInv /\ AdmittedGetsResult
    BY DEF Init, SlotInv, AdmittedGetsResult
  <1>11. Acyclic(edges)
    BY DEF Init, Acyclic
  <1>12. QED
    BY <1>3, <1>4, <1>8, <1>9, <1>10, <1>11 DEF AwaitInv

\* What a step must still show when no edge and no outcome changed.
LEMMA Quiet ==
    ASSUME AwaitInv, UNCHANGED <<edges, outcome>>,
           TypeOK', BodyInv', FrameInv', TicketInv', SlotInv'
    PROVE  AwaitInv'
  BY DEF AwaitInv, Acyclic, AdmittedGetsResult

\* A job taken from the queue: its body gets a frame on this thread, or the job
\* was cancelled before.  Only the caller that helps changes its label.
LEMMA RunJob ==
    ASSUME AwaitInv, NEW th \in Thread, NEW t \in Task, NEW at \in [Caller -> Labels],
           PushFrame(th, t, at), receiver' = NoThread,
           UNCHANGED <<slot, awaited, edges, ticket>>,
           \A i \in 1..Len(stack[th]) : at[stack[th][i]] = "poll",
           \A c \in Caller : at[c] = pc[c] \/ (pc[c] = "help" /\ at[c] = "poll")
    PROVE  /\ status' \in [Task -> Statuses] /\ stack' \in [Thread -> Seq(Caller)]
           /\ pc' \in [Caller -> Labels]
           /\ BodyInv' /\ FrameInv' /\ TicketInv' /\ SlotInv'
  <1> USE CallerFacts
  <1>0. TypeOK /\ BodyInv /\ FrameInv /\ TicketInv /\ SlotInv
    BY DEF AwaitInv
  <1>1. CASE status[t] = "pending"
    <2>1. /\ status' = [status EXCEPT ![t] = "running"]
          /\ stack' = [stack EXCEPT ![th] = Append(@, t)]
          /\ pc' = [at EXCEPT ![t] = "body"]
      BY <1>1 DEF PushFrame
    <2>2. /\ \A u \in Task : status'[u] = IF u = t THEN "running" ELSE status[u]
          /\ \A c \in Caller : pc'[c] = IF c = t THEN "body" ELSE at[c]
      BY <1>0, <2>1 DEF TypeOK
    <2>3. pc[t] = "off"
      <3>1. pc[t] \in Labels
        BY <1>0 DEF TypeOK
      <3>2. pc[t] \notin Alive /\ pc[t] \notin {"retire", "end"}
        BY <1>0, <1>1 DEF BodyInv
      <3>3. QED
        BY <3>1, <3>2 DEF Labels, Alive
    <2>4. /\ status' \in [Task -> Statuses] /\ pc' \in [Caller -> Labels]
          /\ stack' \in [Thread -> Seq(Caller)]
      <3>1. Append(stack[th], t) \in Seq(Caller)
        BY <1>0, PushFacts DEF TypeOK
      <3>2. stack' \in [Thread -> Seq(Caller)]
        BY <1>0, <2>1, <3>1 DEF TypeOK
      <3>3. QED
        BY <1>0, <2>1, <3>2 DEF TypeOK, Statuses, Labels
    <2>5. BodyInv'
      BY <1>0, <2>2 DEF BodyInv, Alive
    <2>6. FrameInv'
      <3>1. ASSUME NEW i \in 1..Len(stack[th]) PROVE pc'[stack[th][i]] = "poll"
        <4>1. stack[th][i] \in Caller
          BY <1>0, FrameFacts
        <4>2. pc[stack[th][i]] # "off"
          BY <1>0 DEF FrameInv
        <4>3. QED
          BY <2>2, <2>3, <4>1, <4>2
      <3>2. \A d \in Caller : d # t => pc'[d] = pc[d] \/ pc'[d] = "poll"
        BY <2>2
      <3>3. pc'[t] = "body" /\ stack' = [stack EXCEPT ![th] = Append(@, t)]
        BY <2>1, <2>2
      <3>4. TypeOK /\ BodyInv /\ FrameInv
        BY <1>0
      <3>5. QED
        BY <1>1, <3>1, <3>2, <3>3, <3>4, PushFrames
    <2>7. TicketInv'
      <3>1. \A c \in Caller : pc'[c] \in Ticketed <=> pc[c] \in Ticketed
        BY <2>2, <2>3 DEF Ticketed
      <3>2. \A c \in Caller : pc'[c] \in Registered <=> pc[c] \in Registered
        BY <2>2, <2>3 DEF Registered
      <3>3. QED
        BY <1>0, <3>1, <3>2 DEF TicketInv
    <2>8. SlotInv'
      BY <1>0, <2>2, <2>3 DEF SlotInv
    <2>9. QED
      BY <2>4, <2>5, <2>6, <2>7, <2>8
  <1>2. CASE status[t] # "pending"
    <2>1. pc' = at /\ UNCHANGED <<status, stack>>
      BY <1>2 DEF PushFrame
    <2>2. BodyInv'
      BY <1>0, <2>1 DEF BodyInv, Alive
    <2>3. FrameInv'
      <3>1. \A th2 \in Thread : \A i \in 1..Len(stack[th2]) : stack[th2][i] \in Caller
        BY <1>0, FrameFacts
      <3>2. ASSUME NEW th2 \in Thread, NEW i \in 1..Len(stack[th2])
            PROVE  /\ at[stack[th2][i]] # "off"
                   /\ stack[th2][i] # Root => at[stack[th2][i]] # "end"
                   /\ i < Len(stack[th2]) => at[stack[th2][i]] = "poll"
                   /\ at[stack[th2][i]] = "help" => Len(stack[th2]) <= MAX_AWAIT_DEPTH
        <4>1. \/ at[stack[th2][i]] = pc[stack[th2][i]]
              \/ at[stack[th2][i]] = "poll"
          BY <3>1
        <4>2. QED
          BY <1>0, <4>1 DEF FrameInv, BuriedFramesWait
      <3>3. BuriedFramesWait'
        BY <1>0, <2>1, <3>2 DEF FrameInv, BuriedFramesWait
      <3>4. QED
        BY <2>1, <3>2, <3>3 DEF FrameInv
    <2>4. TicketInv'
      <3>1. \A c \in Caller : pc'[c] \in Ticketed <=> pc[c] \in Ticketed
        BY <2>1 DEF Ticketed
      <3>2. \A c \in Caller : pc'[c] \in Registered <=> pc[c] \in Registered
        BY <2>1 DEF Registered
      <3>3. QED
        BY <1>0, <3>1, <3>2 DEF TicketInv
    <2>5. SlotInv'
      BY <1>0, <2>1 DEF SlotInv
    <2>6. QED
      BY <1>0, <2>1, <2>2, <2>3, <2>4, <2>5 DEF TypeOK
  <1>3. QED
    BY <1>1, <1>2

\* A worker that enters recv has no frame.
LEMMA ListenStep ==
    ASSUME AwaitInv, NEW w \in Worker, WorkerListen(w) PROVE AwaitInv'
  <1> USE CallerFacts
  <1>1. TypeOK' /\ BodyInv' /\ TicketInv' /\ SlotInv'
    BY DEF WorkerListen, AwaitInv, TypeOK, BodyInv, TicketInv, SlotInv
  <1>2. FrameInv'
    BY DEF WorkerListen, AwaitInv, FrameInv, BuriedFramesWait
  <1>3. QED
    BY <1>1, <1>2, Quiet DEF WorkerListen

\* A worker leaves recv with a job and runs it on its empty stack.
LEMMA ReceiveStep ==
    ASSUME AwaitInv, NEW w \in Worker, WorkerReceive(w) PROVE AwaitInv'
  <1> USE CallerFacts
  <1>1. TypeOK /\ stack[w] = <<>>
    BY DEF WorkerReceive, AwaitInv, FrameInv
  <1>2. Head(queue) \in Task /\ Tail(queue) \in Seq(Task)
    BY <1>1, QueueFacts DEF WorkerReceive
  <1>3. \A i \in 1..Len(stack[w]) : pc[stack[w][i]] = "poll"
    BY <1>1
  <1>4. pc \in [Caller -> Labels] /\ PushFrame(w, Head(queue), pc)
    BY <1>1 DEF TypeOK, WorkerReceive
  <1>5. /\ receiver' = NoThread
        /\ UNCHANGED <<slot, cancelled, awaited, edges, ticket, outcome, tried>>
    BY DEF WorkerReceive
  <1>6. /\ status' \in [Task -> Statuses] /\ stack' \in [Thread -> Seq(Caller)]
        /\ pc' \in [Caller -> Labels]
        /\ BodyInv' /\ FrameInv' /\ TicketInv' /\ SlotInv'
    BY <1>2, <1>3, <1>4, <1>5, RunJob
  <1>7. TypeOK'
    BY <1>1, <1>2, <1>5, <1>6 DEF TypeOK, WorkerReceive
  <1>8. QED
    BY <1>5, <1>6, <1>7, Quiet

\* A started task is queued and has no frame.
LEMMA StartStep ==
    ASSUME AwaitInv, NEW th \in Thread, NEW c \in Caller, NEW t \in Task, Start(th, c, t)
    PROVE  AwaitInv'
  <1> USE CallerFacts
  <1>1. TypeOK /\ BodyInv /\ FrameInv /\ TicketInv /\ SlotInv
    BY DEF AwaitInv
  <1>2. /\ status[t] = "absent" /\ status' = [status EXCEPT ![t] = "pending"]
        /\ queue' = Append(queue, t)
        /\ UNCHANGED <<slot, cancelled, awaited, edges, receiver, stack, pc,
                       ticket, outcome, tried>>
    BY DEF Start
  <1>3. \A u \in Task : status'[u] = IF u = t THEN "pending" ELSE status[u]
    BY <1>1, <1>2 DEF TypeOK
  <1>4. queue' \in Seq(Task)
    BY <1>1, <1>2, PushFacts DEF TypeOK
  <1>5. status' \in [Task -> Statuses]
    BY <1>1, <1>2 DEF TypeOK, Statuses
  <1>6. TypeOK'
    BY <1>1, <1>2, <1>4, <1>5 DEF TypeOK
  <1>7. BodyInv' /\ SlotInv'
    BY <1>1, <1>2, <1>3 DEF BodyInv, SlotInv
  <1>8. FrameInv'
    BY <1>1, <1>2 DEF FrameInv, BuriedFramesWait
  <1>9. TicketInv'
    BY <1>1, <1>2 DEF TicketInv
  <1>10. QED
    BY <1>2, <1>6, <1>7, <1>8, <1>9, Quiet

\* An await that is admitted claims its target, which nobody had claimed before,
\* so its result is still to come or still in its slot.
LEMMA BeginStep ==
    ASSUME AwaitInv, NEW th \in Thread, NEW c \in Caller, NEW t \in Task, Begin(th, c, t)
    PROVE  AwaitInv'
  <1> USE CallerFacts
  <1>1. TypeOK /\ BodyInv /\ FrameInv /\ TicketInv /\ SlotInv
    BY DEF AwaitInv
  <1>2. /\ Runs(th, c) /\ pc[c] = "body" /\ awaited \subseteq awaited'
        /\ awaited' \subseteq Task /\ tried' \in [Caller -> SUBSET Task]
        /\ UNCHANGED <<status, slot, cancelled, edges, queue, receiver, stack, outcome>>
    BY <1>1 DEF Begin, TypeOK
  <1>3. CASE UNCHANGED <<pc, ticket>>
    <2>1. TypeOK'
      BY <1>1, <1>2, <1>3 DEF TypeOK
    <2>2. BodyInv' /\ SlotInv'
      BY <1>1, <1>2, <1>3 DEF BodyInv, SlotInv
    <2>3. FrameInv'
      BY <1>1, <1>2, <1>3 DEF FrameInv, BuriedFramesWait
    <2>4. TicketInv'
      BY <1>1, <1>2, <1>3 DEF TicketInv
    <2>5. QED
      BY <1>2, <2>1, <2>2, <2>3, <2>4, Quiet
  <1>4. CASE ~UNCHANGED <<pc, ticket>>
    <2>1. t \notin awaited /\ awaited' = awaited \cup {t}
      BY <1>4 DEF Begin
    <2>2. PICK l \in {"poll", "register"} :
            /\ ticket' = [ticket EXCEPT ![c] = t] /\ pc' = [pc EXCEPT ![c] = l]
            /\ c # Root => l = "register"
      BY <1>4 DEF Begin
    <2>3. /\ \A d \in Caller : ticket'[d] = IF d = c THEN t ELSE ticket[d]
          /\ \A d \in Caller : pc'[d] = IF d = c THEN l ELSE pc[d]
      BY <1>1, <2>2 DEF TypeOK
    <2>4. TypeOK'
      <3>1. pc' \in [Caller -> Labels] /\ ticket' \in [Caller -> Task \cup {NoTask}]
        BY <1>1, <2>2 DEF TypeOK, Labels
      <3>2. QED
        BY <1>1, <1>2, <3>1 DEF TypeOK
    <2>5. BodyInv'
      BY <1>1, <1>2, <2>3 DEF BodyInv, Alive
    <2>6. FrameInv'
      BY <1>1, <1>2, <2>2, MoveFrames
    <2>7. \A d \in Caller : ticket[d] # t
      BY <1>1, <2>1 DEF TicketInv
    <2>8. TicketInv'
      <3>1. \A d \in Caller : ticket'[d] # NoTask <=> pc'[d] \in Ticketed
        BY <1>1, <2>3 DEF TicketInv, Ticketed
      <3>2. \A d \in Caller : ticket'[d] # NoTask => ticket'[d] \in awaited'
        BY <1>1, <2>1, <2>3 DEF TicketInv
      <3>3. \A d, e \in Caller : ticket'[d] = ticket'[e] /\ ticket'[d] # NoTask => d = e
        BY <1>1, <2>3, <2>7 DEF TicketInv
      <3>4. \A u \in Task :
              edges'[u] = IF pc'[u] \in Registered THEN ticket'[u] ELSE NoTask
        BY <1>1, <1>2, <2>2, <2>3 DEF TicketInv, Registered
      <3>5. QED
        BY <3>1, <3>2, <3>3, <3>4 DEF TicketInv
    <2>9. SlotInv'
      BY <1>1, <1>2, <2>1, <2>3 DEF SlotInv
    <2>10. QED
      BY <1>2, <2>4, <2>5, <2>6, <2>8, <2>9, Quiet
  <1>5. QED
    BY <1>3, <1>4

\* register_wait keeps the graph acyclic: a cycle through the new edge would
\* have kept its walk from reaching an end.
LEMMA VerdictAcyclic ==
    ASSUME NEW e \in [Task -> Task \cup {NoTask}], Acyclic(e), NEW c \in Task, NEW t \in Task,
           Verdict(c, [e EXCEPT ![c] = t]) = "none"
    PROVE  Acyclic([e EXCEPT ![c] = t])
  <1> DEFINE added == [e EXCEPT ![c] = t]
  <1>1. \A u \in Task : added[u] = IF u = c THEN t ELSE e[u]
    OBVIOUS
  <1>2. Follow(added, added[c], MAX_AWAIT_DEPTH) = NoTask
    BY DEF Verdict
  <1> HIDE DEF added
  <1>3. ASSUME NEW S \in SUBSET Task, S # {}, \A u \in S : added[u] \in S PROVE FALSE
    <2>1. CASE c \in S
      <3>1. Follow(added, added[c], MAX_AWAIT_DEPTH) \in S
        BY <1>3, <2>1, FollowStays, DepthAssumption
      <3>2. QED
        BY <1>2, <3>1, CallerFacts
    <2>2. CASE c \notin S
      <3>1. \A u \in S : e[u] \in S
        BY <1>1, <1>3, <2>2
      <3>2. QED
        BY <1>3, <3>1 DEF Acyclic
    <2>3. QED
      BY <2>1, <2>2
  <1>4. Acyclic(added)
    BY <1>3 DEF Acyclic
  <1>5. QED
    BY <1>4 DEF added

\* An admitted wait enters the graph, a rejected one gives its ticket up.
LEMMA RegisterStep ==
    ASSUME AwaitInv, NEW th \in Thread, NEW c \in Caller, Register(th, c)
    PROVE  AwaitInv'
  <1> USE CallerFacts
  <1> DEFINE added == [edges EXCEPT ![c] = ticket[c]]
  <1>1. TypeOK /\ BodyInv /\ FrameInv /\ TicketInv /\ SlotInv
    BY DEF AwaitInv
  <1>2. /\ Runs(th, c) /\ pc[c] = "register"
        /\ UNCHANGED <<status, slot, cancelled, awaited, queue, receiver, stack,
                       outcome, tried>>
    BY DEF Register
  <1>3. ticket[c] \in Task /\ ticket[c] \in awaited
    BY <1>1, <1>2 DEF TypeOK, TicketInv, Ticketed
  <1>4. CASE Verdict(c, added) = "none"
    <2>1. edges' = added /\ pc' = [pc EXCEPT ![c] = "poll"] /\ UNCHANGED ticket
      BY <1>4 DEF Register
    <2>2. \A d \in Caller : pc'[d] = IF d = c THEN "poll" ELSE pc[d]
      BY <1>1, <2>1 DEF TypeOK
    <2>3. TypeOK'
      <3>1. pc' \in [Caller -> Labels] /\ edges' \in [Task -> Task \cup {NoTask}]
        BY <1>1, <1>3, <2>1 DEF TypeOK, Labels
      <3>2. QED
        BY <1>1, <1>2, <2>1, <3>1 DEF TypeOK
    <2>4. BodyInv'
      BY <1>1, <1>2, <2>2 DEF BodyInv, Alive
    <2>5. FrameInv'
      BY <1>1, <1>2, <2>1, MoveFrames
    <2>6. \A u \in Task : edges'[u] = IF u = c THEN ticket[c] ELSE edges[u]
      BY <1>1, <2>1 DEF TypeOK
    <2>7. TicketInv'
      <3>1. \A d \in Caller : pc'[d] \in Ticketed <=> pc[d] \in Ticketed
        BY <1>2, <2>2 DEF Ticketed
      <3>2. \A u \in Task : edges'[u] = IF pc'[u] \in Registered THEN ticket[u] ELSE NoTask
        BY <1>1, <2>2, <2>6 DEF TicketInv, Registered
      <3>3. QED
        BY <1>1, <1>2, <2>1, <3>1, <3>2 DEF TicketInv
    <2>8. SlotInv' /\ AdmittedGetsResult'
      BY <1>1, <1>2, <2>1, <2>2 DEF SlotInv, AwaitInv, AdmittedGetsResult
    <2>9. Acyclic(edges')
      <3>1. CASE c \in Task
        BY <1>1, <1>3, <1>4, <2>1, <3>1, VerdictAcyclic DEF TypeOK, AwaitInv
      <3>2. CASE c \notin Task
        <4>1. edges' = edges
          BY <1>1, <2>1, <3>2 DEF TypeOK
        <4>2. QED
          BY <4>1 DEF AwaitInv
      <3>3. QED
        BY <3>1, <3>2
    <2>10. QED
      BY <2>3, <2>4, <2>5, <2>7, <2>8, <2>9 DEF AwaitInv, Acyclic
  <1>5. CASE Verdict(c, added) # "none"
    <2>1. /\ edges' = edges /\ pc' = [pc EXCEPT ![c] = "body"]
          /\ ticket' = [ticket EXCEPT ![c] = NoTask]
      BY <1>5 DEF Register
    <2>2. /\ \A d \in Caller : pc'[d] = IF d = c THEN "body" ELSE pc[d]
          /\ \A d \in Caller : ticket'[d] = IF d = c THEN NoTask ELSE ticket[d]
      BY <1>1, <2>1 DEF TypeOK
    <2>3. TypeOK'
      <3>1. pc' \in [Caller -> Labels] /\ ticket' \in [Caller -> Task \cup {NoTask}]
        BY <1>1, <2>1 DEF TypeOK, Labels
      <3>2. QED
        BY <1>1, <1>2, <2>1, <3>1 DEF TypeOK
    <2>4. BodyInv'
      BY <1>1, <1>2, <2>2 DEF BodyInv, Alive
    <2>5. FrameInv'
      BY <1>1, <1>2, <2>1, MoveFrames
    <2>6. TicketInv'
      BY <1>1, <1>2, <2>1, <2>2 DEF TicketInv, Ticketed, Registered
    <2>7. SlotInv'
      BY <1>1, <1>2, <2>2 DEF SlotInv
    <2>8. QED
      BY <1>2, <2>1, <2>3, <2>4, <2>5, <2>6, <2>7, Quiet
  <1>6. QED
    BY <1>4, <1>5

\* A cancellation request ends a pending task with its payload in its slot, and
\* leaves the labels, the tickets and the frames alone.
LEMMA CancelEffect ==
    ASSUME AwaitInv, NEW t \in Task, RequestCancel(t)
    PROVE  /\ status' \in [Task -> Statuses] /\ slot' \subseteq Task /\ slot \subseteq slot'
           /\ cancelled' \subseteq Task
           /\ \A u \in Task : \/ status'[u] = status[u]
                              \/ status[u] = "pending" /\ status'[u] = "terminal" /\ u \in slot'
  <1>1. TypeOK
    BY DEF AwaitInv
  <1>2. CASE t \notin cancelled /\ status[t] = "pending"
    <2>1. /\ status' = [status EXCEPT ![t] = "terminal"] /\ slot' = slot \cup {t}
          /\ cancelled' = cancelled \cup {t}
      BY <1>2 DEF RequestCancel
    <2>2. \A u \in Task : status'[u] = IF u = t THEN "terminal" ELSE status[u]
      BY <1>1, <2>1 DEF TypeOK
    <2>3. status' \in [Task -> Statuses]
      BY <1>1, <2>1 DEF TypeOK, Statuses
    <2>4. QED
      BY <1>1, <1>2, <2>1, <2>2, <2>3 DEF TypeOK
  <1>3. CASE ~(t \notin cancelled /\ status[t] = "pending")
    <2>1. status' = status /\ slot' = slot /\ cancelled' \in {cancelled, cancelled \cup {t}}
      BY <1>3 DEF RequestCancel
    <2>2. QED
      BY <1>1, <2>1 DEF TypeOK
  <1>4. QED
    BY <1>2, <1>3

\* Settling an await moves the caller and installs its outcome.
LEMMA SettleFacts ==
    ASSUME AwaitInv, NEW th \in Thread, NEW c \in Caller, Runs(th, c), pc[c] \in {"poll", "help"},
           NEW o \in Outcomes, o \notin {"consumed", "storage"}, Settle(c, o),
           UNCHANGED <<stack, receiver, awaited, ticket, edges>>
    PROVE  /\ pc' \in [Caller -> Labels] /\ outcome' \in [Caller -> Outcomes]
           /\ \A d \in Caller : pc'[d] = IF d = c THEN "settle" ELSE pc[d]
           /\ FrameInv' /\ TicketInv' /\ AdmittedGetsResult' /\ Acyclic(edges')
  <1>1. TypeOK /\ FrameInv /\ TicketInv /\ AdmittedGetsResult /\ Acyclic(edges)
    BY DEF AwaitInv
  <1>2. /\ pc' = [pc EXCEPT ![c] = "settle"] /\ outcome' = [outcome EXCEPT ![c] = o]
        /\ \A d \in Caller : pc'[d] = IF d = c THEN "settle" ELSE pc[d]
        /\ \A d \in Caller : outcome'[d] = IF d = c THEN o ELSE outcome[d]
    BY <1>1 DEF Settle, TypeOK
  <1>3. pc' \in [Caller -> Labels] /\ outcome' \in [Caller -> Outcomes]
    BY <1>1, <1>2 DEF TypeOK, Labels
  <1>4. FrameInv'
    BY <1>1, <1>2, MoveFrames
  <1>5. TicketInv'
    <2>1. \A d \in Caller : pc'[d] \in Ticketed <=> pc[d] \in Ticketed
      BY <1>2 DEF Ticketed
    <2>2. \A d \in Caller : pc'[d] \in Registered <=> pc[d] \in Registered
      BY <1>2 DEF Registered
    <2>3. QED
      BY <1>1, <2>1, <2>2, CallerFacts DEF TicketInv
  <1>6. AdmittedGetsResult'
    BY <1>1, <1>2 DEF AdmittedGetsResult
  <1>7. QED
    BY <1>1, <1>2, <1>3, <1>4, <1>5, <1>6 DEF Acyclic

\* A poll finds the result of the target or that it is still to come: the slot of
\* a terminal target cannot be empty, since only this caller may empty it.
LEMMA PollStep ==
    ASSUME AwaitInv, NEW th \in Thread, NEW c \in Caller, Poll(th, c)
    PROVE  AwaitInv'
  <1> USE CallerFacts
  <1> DEFINE t == ticket[c]
  <1>1. TypeOK /\ BodyInv /\ FrameInv /\ TicketInv /\ SlotInv
    BY DEF AwaitInv
  <1>2. /\ Runs(th, c) /\ pc[c] = "poll"
        /\ UNCHANGED <<awaited, edges, queue, receiver, stack, ticket, tried>>
    BY DEF Poll
  <1>3. t \in Task /\ t \in awaited /\ \A d \in Caller : ticket[d] = t => d = c
    BY <1>1, <1>2 DEF TypeOK, TicketInv, Ticketed
  <1> HIDE DEF t
  <1>4. CASE c \in cancelled
    <2>1. RequestCancel(t) /\ Settle(c, "terminated")
      BY <1>4 DEF Poll, t
    <2>2. /\ pc' \in [Caller -> Labels] /\ outcome' \in [Caller -> Outcomes]
          /\ \A d \in Caller : pc'[d] = IF d = c THEN "settle" ELSE pc[d]
          /\ FrameInv' /\ TicketInv' /\ AdmittedGetsResult' /\ Acyclic(edges')
      BY <1>2, <2>1, SettleFacts DEF Outcomes
    <2>3. /\ status' \in [Task -> Statuses] /\ slot' \subseteq Task /\ slot \subseteq slot'
          /\ cancelled' \subseteq Task
          /\ \A u \in Task : \/ status'[u] = status[u]
                             \/ status[u] = "pending" /\ status'[u] = "terminal" /\ u \in slot'
      BY <1>3, <2>1, CancelEffect
    <2>4. TypeOK'
      BY <1>1, <1>2, <2>2, <2>3 DEF TypeOK
    <2>5. BodyInv'
      BY <1>1, <1>2, <2>2, <2>3 DEF BodyInv, Alive
    <2>6. SlotInv'
      BY <1>1, <1>2, <2>2, <2>3 DEF SlotInv
    <2>7. QED
      BY <2>2, <2>4, <2>5, <2>6 DEF AwaitInv, Acyclic
  <1>5. CASE c \notin cancelled /\ t \in slot
    <2>1. slot' = slot \ {t} /\ Settle(c, "value") /\ UNCHANGED <<status, cancelled>>
      BY <1>5 DEF Poll, t
    <2>2. /\ pc' \in [Caller -> Labels] /\ outcome' \in [Caller -> Outcomes]
          /\ \A d \in Caller : pc'[d] = IF d = c THEN "settle" ELSE pc[d]
          /\ FrameInv' /\ TicketInv' /\ AdmittedGetsResult' /\ Acyclic(edges')
      BY <1>2, <2>1, SettleFacts DEF Outcomes
    <2>3. TypeOK'
      BY <1>1, <1>2, <2>1, <2>2 DEF TypeOK
    <2>4. BodyInv'
      BY <1>1, <1>2, <2>1, <2>2 DEF BodyInv, Alive
    <2>5. SlotInv'
      <3> SUFFICES ASSUME NEW u \in Task, status[u] = "terminal", u \notin slot'
                   PROVE  u \in awaited /\ \A d \in Caller : ticket[d] = u => pc'[d] = "settle"
        BY <1>2, <2>1 DEF SlotInv
      <3>1. CASE u = t
        BY <1>3, <2>2, <3>1
      <3>2. CASE u # t
        BY <1>1, <2>1, <2>2, <3>2 DEF SlotInv
      <3>3. QED
        BY <3>1, <3>2
    <2>6. QED
      BY <2>2, <2>3, <2>4, <2>5 DEF AwaitInv, Acyclic
  <1>6. CASE c \notin cancelled /\ t \notin slot
    <2>1. /\ IF status[t] = "terminal" THEN Settle(c, "consumed")
             ELSE IF HelpDepth(th) >= MAX_AWAIT_DEPTH THEN Settle(c, "await_depth")
             ELSE pc' = [pc EXCEPT ![c] = "help"] /\ UNCHANGED outcome
          /\ UNCHANGED <<status, slot, cancelled>>
      BY <1>6 DEF Poll, t
    <2>2. status[t] # "terminal"
      BY <1>1, <1>2, <1>3, <1>6 DEF SlotInv, t
    <2>3. CASE HelpDepth(th) >= MAX_AWAIT_DEPTH
      <3>1. Settle(c, "await_depth")
        BY <2>1, <2>2, <2>3
      <3>2. /\ pc' \in [Caller -> Labels] /\ outcome' \in [Caller -> Outcomes]
            /\ \A d \in Caller : pc'[d] = IF d = c THEN "settle" ELSE pc[d]
            /\ FrameInv' /\ TicketInv' /\ AdmittedGetsResult' /\ Acyclic(edges')
        BY <1>2, <3>1, SettleFacts DEF Outcomes
      <3>3. TypeOK'
        BY <1>1, <1>2, <2>1, <3>2 DEF TypeOK
      <3>4. BodyInv' /\ SlotInv'
        BY <1>1, <1>2, <2>1, <3>2 DEF BodyInv, Alive, SlotInv
      <3>5. QED
        BY <3>2, <3>3, <3>4 DEF AwaitInv, Acyclic
    <2>4. CASE ~(HelpDepth(th) >= MAX_AWAIT_DEPTH)
      <3>1. pc' = [pc EXCEPT ![c] = "help"] /\ UNCHANGED outcome
        BY <2>1, <2>2, <2>4
      <3>2. \A d \in Caller : pc'[d] = IF d = c THEN "help" ELSE pc[d]
        BY <1>1, <3>1 DEF TypeOK
      <3>3. Len(stack[th]) <= MAX_AWAIT_DEPTH
        <4>1. Len(stack[th]) \in Nat
          BY <1>1, FrameFacts
        <4>2. QED
          BY <2>4, <4>1, DepthAssumption DEF HelpDepth
      <3>4. FrameInv'
        BY <1>1, <1>2, <3>1, <3>3, MoveFrames
      <3>5. TypeOK'
        <4>1. pc' \in [Caller -> Labels]
          BY <1>1, <3>1 DEF TypeOK, Labels
        <4>2. QED
          BY <1>1, <1>2, <2>1, <3>1, <4>1 DEF TypeOK
      <3>6. BodyInv'
        BY <1>1, <1>2, <2>1, <3>2 DEF BodyInv, Alive
      <3>7. SlotInv'
        <4> SUFFICES ASSUME NEW u \in Task, status[u] = "terminal", u \notin slot
                     PROVE  u \in awaited /\ \A d \in Caller : ticket[d] = u => pc'[d] = "settle"
          BY <1>2, <2>1 DEF SlotInv
        <4>1. u # t
          BY <2>2
        <4>2. QED
          BY <1>1, <3>2, <4>1 DEF SlotInv, t
      <3>8. TicketInv'
        <4>1. \A d \in Caller : pc'[d] \in Ticketed <=> pc[d] \in Ticketed
          BY <1>2, <3>2 DEF Ticketed
        <4>2. \A d \in Caller : pc'[d] \in Registered <=> pc[d] \in Registered
          BY <1>2, <3>2 DEF Registered
        <4>3. QED
          BY <1>1, <1>2, <4>1, <4>2 DEF TicketInv
      <3>9. QED
        BY <1>2, <3>1, <3>4, <3>5, <3>6, <3>7, <3>8, Quiet
    <2>5. QED
      BY <2>3, <2>4
  <1>7. QED
    BY <1>4, <1>5, <1>6

\* A round of helping always has room for a frame, since poll compared the depth
\* and nothing was pushed on this thread since.
LEMMA HelpStep ==
    ASSUME AwaitInv, NEW th \in Thread, NEW c \in Caller, Help(th, c)
    PROVE  AwaitInv'
  <1> USE CallerFacts
  <1> DEFINE at == [pc EXCEPT ![c] = "poll"]
  <1>1. TypeOK /\ BodyInv /\ FrameInv /\ TicketInv /\ SlotInv
    BY DEF AwaitInv
  <1>2. /\ Runs(th, c) /\ pc[c] = "help"
        /\ UNCHANGED <<slot, cancelled, awaited, edges, receiver, ticket, tried>>
    BY DEF Help
  <1>3. Len(stack[th]) \in Nat /\ Len(stack[th]) # 0 /\ c = stack[th][Len(stack[th])]
    BY <1>1, <1>2, FrameFacts
  <1>4. CanReserve(th)
    <2>1. Len(stack[th]) \in 1..Len(stack[th])
      BY <1>3
    <2>2. Len(stack[th]) <= MAX_AWAIT_DEPTH
      BY <1>1, <1>2, <1>3, <2>1 DEF FrameInv
    <2>3. QED
      BY <1>3, <2>2, DepthAssumption DEF CanReserve, MaxLocalFrames
  <1>5. at \in [Caller -> Labels] /\ \A d \in Caller : at[d] = IF d = c THEN "poll" ELSE pc[d]
    BY <1>1 DEF TypeOK, Labels
  <1>6. CASE TakeHelp
    <2>1. /\ queue' = Tail(queue) /\ PushFrame(th, Head(queue), at)
          /\ UNCHANGED outcome /\ receiver = NoThread /\ queue # <<>>
      BY <1>4, <1>6 DEF Help, TakeHelp
    <2>2. Head(queue) \in Task /\ Tail(queue) \in Seq(Task)
      BY <1>1, <2>1, QueueFacts
    <2>3. ASSUME NEW i \in 1..Len(stack[th]) PROVE at[stack[th][i]] = "poll"
      <3>1. stack[th][i] \in Caller
        BY <1>1, FrameFacts
      <3>2. i < Len(stack[th]) => pc[stack[th][i]] = "poll"
        BY <1>1 DEF FrameInv, BuriedFramesWait
      <3>3. i < Len(stack[th]) \/ i = Len(stack[th])
        BY <1>3
      <3>4. QED
        BY <1>3, <1>5, <3>1, <3>2, <3>3
    <2>4. \A d \in Caller : at[d] = pc[d] \/ (pc[d] = "help" /\ at[d] = "poll")
      BY <1>2, <1>5
    <2> HIDE DEF at
    <2>5. /\ status' \in [Task -> Statuses] /\ stack' \in [Thread -> Seq(Caller)]
          /\ pc' \in [Caller -> Labels]
          /\ BodyInv' /\ FrameInv' /\ TicketInv' /\ SlotInv'
      BY <1>2, <1>5, <2>1, <2>2, <2>3, <2>4, RunJob
    <2>6. TypeOK'
      BY <1>1, <1>2, <2>1, <2>2, <2>5 DEF TypeOK
    <2>7. QED
      BY <1>2, <2>1, <2>5, <2>6, Quiet
  <1>7. CASE ~TakeHelp
    <2>1. pc' = at /\ UNCHANGED <<queue, status, stack, outcome>>
      BY <1>4, <1>7 DEF Help
    <2>2. TypeOK'
      BY <1>1, <1>2, <1>5, <2>1 DEF TypeOK
    <2>3. FrameInv'
      BY <1>1, <1>2, <2>1, MoveFrames
    <2>4. BodyInv' /\ SlotInv'
      BY <1>1, <1>2, <1>5, <2>1 DEF BodyInv, Alive, SlotInv
    <2>5. TicketInv'
      <3>1. \A d \in Caller : pc'[d] \in Ticketed <=> pc[d] \in Ticketed
        BY <1>2, <1>5, <2>1 DEF Ticketed
      <3>2. \A d \in Caller : pc'[d] \in Registered <=> pc[d] \in Registered
        BY <1>2, <1>5, <2>1 DEF Registered
      <3>3. QED
        BY <1>1, <1>2, <3>1, <3>2 DEF TicketInv
    <2>6. QED
      BY <1>2, <2>1, <2>2, <2>3, <2>4, <2>5, Quiet
  <1>8. QED
    BY <1>6, <1>7

\* A dropped guard takes the caller's edge out of the graph with its ticket.
LEMMA RetireWaitStep ==
    ASSUME AwaitInv, NEW th \in Thread, NEW c \in Caller, RetireWait(th, c)
    PROVE  AwaitInv'
  <1> USE CallerFacts
  <1>1. TypeOK /\ BodyInv /\ FrameInv /\ TicketInv /\ SlotInv
    BY DEF AwaitInv
  <1>2. /\ Runs(th, c) /\ pc[c] = "settle"
        /\ edges' = IF c = Root THEN edges ELSE [edges EXCEPT ![c] = NoTask]
        /\ pc' = [pc EXCEPT ![c] = "body"]
        /\ ticket' = [ticket EXCEPT ![c] = NoTask]
        /\ outcome' = [outcome EXCEPT ![c] = "none"]
        /\ UNCHANGED <<status, slot, cancelled, awaited, queue, receiver, stack, tried>>
    BY DEF RetireWait
  <1>3. /\ \A d \in Caller : pc'[d] = IF d = c THEN "body" ELSE pc[d]
        /\ \A d \in Caller : ticket'[d] = IF d = c THEN NoTask ELSE ticket[d]
        /\ \A d \in Caller : outcome'[d] = IF d = c THEN "none" ELSE outcome[d]
    BY <1>1, <1>2 DEF TypeOK
  <1>4. \A u \in Task : edges'[u] = IF u = c THEN NoTask ELSE edges[u]
    BY <1>1, <1>2 DEF TypeOK
  <1>5. TypeOK'
    <2>1. /\ pc' \in [Caller -> Labels] /\ ticket' \in [Caller -> Task \cup {NoTask}]
          /\ outcome' \in [Caller -> Outcomes]
      BY <1>1, <1>2 DEF TypeOK, Labels, Outcomes
    <2>2. edges' \in [Task -> Task \cup {NoTask}]
      BY <1>1, <1>2 DEF TypeOK
    <2>3. QED
      BY <1>1, <1>2, <2>1, <2>2 DEF TypeOK
  <1>6. BodyInv'
    BY <1>1, <1>2, <1>3 DEF BodyInv, Alive
  <1>7. FrameInv'
    BY <1>1, <1>2, MoveFrames
  <1>8. TicketInv'
    BY <1>1, <1>2, <1>3, <1>4 DEF TicketInv, Ticketed, Registered
  <1>9. SlotInv'
    BY <1>1, <1>2, <1>3 DEF SlotInv
  <1>10. AdmittedGetsResult'
    BY <1>3 DEF AwaitInv, AdmittedGetsResult
  <1>11. Acyclic(edges')
    <2> SUFFICES ASSUME NEW S \in SUBSET Task, S # {} PROVE \E u \in S : edges'[u] \notin S
      BY DEF Acyclic
    <2>1. PICK u \in S : edges[u] \notin S
      BY DEF AwaitInv, Acyclic
    <2>2. QED
      BY <1>4, <2>1
  <1>12. QED
    BY <1>5, <1>6, <1>7, <1>8, <1>9, <1>10, <1>11 DEF AwaitInv, Acyclic

\* A body that returns waits for nobody, and its result is published with its
\* terminal status.
LEMMA CompleteStep ==
    ASSUME AwaitInv, NEW th \in Thread, NEW t \in Task, Complete(th, t)
    PROVE  AwaitInv'
  <1> USE CallerFacts
  <1>1. TypeOK /\ BodyInv /\ FrameInv /\ TicketInv /\ SlotInv
    BY DEF AwaitInv
  <1>2. /\ Runs(th, t) /\ pc[t] = "body"
        /\ status' = [status EXCEPT ![t] = "terminal"] /\ slot' = slot \cup {t}
        /\ pc' = [pc EXCEPT ![t] = "retire"]
        /\ UNCHANGED <<cancelled, awaited, edges, queue, receiver, stack, ticket,
                       outcome, tried>>
    BY DEF Complete
  <1>3. /\ \A d \in Caller : pc'[d] = IF d = t THEN "retire" ELSE pc[d]
        /\ \A u \in Task : status'[u] = IF u = t THEN "terminal" ELSE status[u]
    BY <1>1, <1>2 DEF TypeOK
  <1>4. TypeOK'
    <2>1. pc' \in [Caller -> Labels] /\ status' \in [Task -> Statuses]
      BY <1>1, <1>2 DEF TypeOK, Labels, Statuses
    <2>2. QED
      BY <1>1, <1>2, <2>1 DEF TypeOK
  <1>5. BodyInv'
    BY <1>1, <1>3 DEF BodyInv, Alive
  <1>6. FrameInv'
    BY <1>1, <1>2, MoveFrames
  <1>7. TicketInv'
    BY <1>1, <1>2, <1>3 DEF TicketInv, Ticketed, Registered
  <1>8. SlotInv'
    BY <1>1, <1>2, <1>3 DEF SlotInv
  <1>9. QED
    BY <1>2, <1>4, <1>5, <1>6, <1>7, <1>8, Quiet

\* A retired frame leaves its thread, and its body has no other.
LEMMA RetireStep ==
    ASSUME AwaitInv, NEW th \in Thread, NEW t \in Task, Retire(th, t)
    PROVE  AwaitInv'
  <1> USE CallerFacts
  <1>1. TypeOK /\ BodyInv /\ FrameInv /\ TicketInv /\ SlotInv
    BY DEF AwaitInv
  <1>2. /\ Runs(th, t) /\ pc[t] = "retire"
        /\ stack' = [stack EXCEPT ![th] = Front(@)]
        /\ pc' = [pc EXCEPT ![t] = "end"]
        /\ UNCHANGED <<status, slot, cancelled, awaited, edges, queue, receiver,
                       ticket, outcome, tried>>
    BY DEF Retire
  <1>3. \A d \in Caller : pc'[d] = IF d = t THEN "end" ELSE pc[d]
    BY <1>1, <1>2 DEF TypeOK
  <1>4. TypeOK'
    <2>1. pc' \in [Caller -> Labels]
      BY <1>1, <1>2 DEF TypeOK, Labels
    <2>2. stack[th] \in Seq(Caller) /\ stack[th] # <<>>
      BY <1>1, <1>2, FrameFacts
    <2>3. Front(stack[th]) \in Seq(Caller)
      BY <2>2, PopFacts
    <2>4. stack' \in [Thread -> Seq(Caller)]
      BY <1>1, <1>2, <2>3 DEF TypeOK
    <2>5. QED
      BY <1>1, <1>2, <2>1, <2>4 DEF TypeOK
  <1>5. BodyInv'
    BY <1>1, <1>2, <1>3 DEF BodyInv, Alive
  <1>6. FrameInv'
    BY <1>1, <1>2, PopFrames
  <1>7. TicketInv'
    BY <1>1, <1>2, <1>3 DEF TicketInv, Ticketed, Registered
  <1>8. SlotInv'
    BY <1>1, <1>2, <1>3 DEF SlotInv
  <1>9. QED
    BY <1>2, <1>4, <1>5, <1>6, <1>7, <1>8, Quiet

\* The caller outside any task ends with its frame alone on its thread.
LEMMA RootStep == AwaitInv /\ RootEnds => AwaitInv'
  <1> SUFFICES ASSUME AwaitInv, RootEnds PROVE AwaitInv'
    OBVIOUS
  <1> USE CallerFacts
  <1>1. TypeOK /\ BodyInv /\ FrameInv /\ TicketInv /\ SlotInv
    BY DEF AwaitInv
  <1>2. /\ Runs(Root, Root) /\ pc[Root] = "body" /\ pc' = [pc EXCEPT ![Root] = "end"]
        /\ UNCHANGED <<status, slot, cancelled, awaited, edges, queue, receiver,
                       stack, ticket, outcome, tried>>
    BY DEF RootEnds
  <1>3. \A d \in Caller : pc'[d] = IF d = Root THEN "end" ELSE pc[d]
    BY <1>1, <1>2 DEF TypeOK
  <1>4. TypeOK'
    <2>1. pc' \in [Caller -> Labels]
      BY <1>1, <1>2 DEF TypeOK, Labels
    <2>2. QED
      BY <1>1, <1>2, <2>1 DEF TypeOK
  <1>5. BodyInv' /\ SlotInv'
    BY <1>1, <1>2, <1>3 DEF BodyInv, Alive, SlotInv
  <1>6. FrameInv'
    BY <1>1, <1>2, MoveFrames
  <1>7. TicketInv'
    BY <1>1, <1>2, <1>3 DEF TicketInv, Ticketed, Registered
  <1>8. QED
    BY <1>2, <1>4, <1>5, <1>6, <1>7, Quiet

\* A cancellation from outside touches no frame, ticket or edge.
LEMMA CancelStep ==
    ASSUME AwaitInv, NEW t \in Task, Cancel(t) PROVE AwaitInv'
  <1>1. TypeOK /\ BodyInv /\ FrameInv /\ TicketInv /\ SlotInv
    BY DEF AwaitInv
  <1>2. RequestCancel(t) /\ UNCHANGED <<awaited, edges, queue, receiver, stack, pc, ticket,
                                        outcome, tried>>
    BY DEF Cancel
  <1>3. /\ status' \in [Task -> Statuses] /\ slot' \subseteq Task /\ slot \subseteq slot'
        /\ cancelled' \subseteq Task
        /\ \A u \in Task : \/ status'[u] = status[u]
                           \/ status[u] = "pending" /\ status'[u] = "terminal" /\ u \in slot'
    BY <1>2, CancelEffect
  <1>4. TypeOK'
    BY <1>1, <1>2, <1>3 DEF TypeOK
  <1>5. BodyInv' /\ SlotInv'
    BY <1>1, <1>2, <1>3 DEF BodyInv, SlotInv
  <1>6. FrameInv' /\ TicketInv'
    BY <1>1, <1>2 DEF FrameInv, BuriedFramesWait, TicketInv
  <1>7. QED
    BY <1>2, <1>4, <1>5, <1>6, Quiet

-----------------------------------------------------------------------------
(* Theorems *)

\* Every step of every thread, and every cancellation, keeps the invariant.
LEMMA AwaitStep == AwaitInv /\ [Next]_vars => AwaitInv'
  <1> SUFFICES ASSUME AwaitInv, [Next]_vars PROVE AwaitInv'
    OBVIOUS
  <1>1. ASSUME NEW th \in Thread, Step(th) PROVE AwaitInv'
    <2>1. CASE th \in Worker /\ (WorkerListen(th) \/ WorkerReceive(th))
      BY <2>1, ListenStep, ReceiveStep
    <2>2. ASSUME NEW c \in Caller, NEW t \in Task, Start(th, c, t) \/ Begin(th, c, t)
          PROVE  AwaitInv'
      BY <2>2, StartStep, BeginStep
    <2>3. ASSUME NEW c \in Caller,
                 Register(th, c) \/ Poll(th, c) \/ Help(th, c) \/ RetireWait(th, c)
          PROVE  AwaitInv'
      BY <2>3, RegisterStep, PollStep, HelpStep, RetireWaitStep
    <2>4. ASSUME NEW t \in Task, Complete(th, t) \/ Retire(th, t) PROVE AwaitInv'
      BY <2>4, CompleteStep, RetireStep
    <2>5. CASE th = Root /\ RootEnds
      BY <2>5, RootStep
    <2>6. QED
      BY <1>1, <2>1, <2>2, <2>3, <2>4, <2>5 DEF Step
  <1>2. ASSUME NEW t \in Task, Cancel(t) PROVE AwaitInv'
    BY <1>2, CancelStep
  <1>3. CASE UNCHANGED vars
    <2>1. UNCHANGED <<status, slot, cancelled, awaited, edges, queue, receiver, stack, pc,
                      ticket, outcome, tried>>
      BY <1>3 DEF vars
    <2>2. TypeOK' /\ BodyInv' /\ TicketInv' /\ SlotInv'
      BY <2>1 DEF AwaitInv, TypeOK, BodyInv, TicketInv, SlotInv
    <2>3. FrameInv'
      BY <2>1 DEF AwaitInv, FrameInv, BuriedFramesWait
    <2>4. QED
      BY <2>1, <2>2, <2>3, Quiet
  <1>4. QED
    BY <1>1, <1>2, <1>3 DEF Next

\* For every set of bodies, threads and cancellations: the wait graph has no
\* cycle, no task that is over is a waiter, a thread buries only frames that
\* wait, and no body has two frames (register_wait, TaskWaitGuard, claim_run).
THEOREM WaitsSafety == Spec => []WaitsSound
  <1>1. AwaitInv => WaitsSound
    <2> SUFFICES ASSUME AwaitInv PROVE WaitsSound
      OBVIOUS
    <2>1. TypeOK /\ BuriedFramesWait
      BY DEF AwaitInv, FrameInv
    <2>2. \A S \in SUBSET Task : S # {} => \E t \in S : edges[t] \notin S
      BY DEF AwaitInv, Acyclic
    <2>3. ASSUME NEW t \in Task, status[t] = "terminal" PROVE edges[t] = NoTask
      <3>1. pc[t] \notin Alive
        BY <2>3 DEF AwaitInv, BodyInv
      <3>2. pc[t] \notin Registered
        BY <3>1 DEF Alive, Registered
      <3>3. QED
        BY <3>2 DEF AwaitInv, TicketInv
    <2>4. QED
      BY <2>1, <2>2, <2>3 DEF WaitsSound, WaitGraphSound
  <1>2. QED
    BY <1>1, AwaitInit, AwaitStep, PTL DEF Spec

\* For every set of bodies, threads and cancellations: an await that claimed its
\* target gets its result, and no await fails for want of a frame (claim_await,
\* AwaitCore::poll, reserve_next).
THEOREM ResultSafety == Spec => []AdmittedGetsResult
  <1>1. AwaitInv => AdmittedGetsResult
    BY DEF AwaitInv
  <1>2. QED
    BY <1>1, AwaitInit, AwaitStep, PTL DEF Spec

=============================================================================
