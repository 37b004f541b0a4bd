----------------------- MODULE ProcessExecutionProofs -----------------------
(***************************************************************************)
(* Safety of ku supervise for every batch, number of pipes, budget and     *)
(* number of faults.  The argument follows one job: it waits in the queue, *)
(* runs in the list of active programs or is held by the coordinator, and  *)
(* what was given up unconfirmed is a stray that keeps its reservation.    *)
(***************************************************************************)
EXTENDS ProcessExecution, FiniteSetTheorems, TLAPS

Cleans == {"kill", "cleanup", "finish", "settle"}

\* The coordinator has a job in its hands.
Held == co.at \in {"start"} \cup Cleans

\* The batch was given up.
Draining == co.at = "drain" \/ (co.at \in Cleans /\ co.back = "drain")
Ending == co.at \in {"stop", "end"} \/ Draining

\* The coordinator has cleaned up or finished with the streams before.
CleanInv ==
    /\ co.stream # 0 /\ co.index # 0
    /\ co.at \in {"kill", "cleanup"} => co.stream = 1 /\ co.clean /\ ~co.retired
    /\ co.at \in {"finish", "settle"} =>
         /\ co.clean => co.retired
         /\ co.retired => group[co.job] = "empty"
         /\ co.clean => \A s \in 1..Streams : s < co.stream => Finished(<<co.job, s>>)
    /\ co.at = "settle" => co.stream > Streams

\* Whatever lives was killed, or could not be, or is still in the list or about
\* to be killed.
KillInv ==
    /\ \A j \in Job : group[j] = "live" =>
         \/ j \in killed \cup missed \/ j \in ToSet(active)
         \/ co.at = "kill" /\ j = co.job
    /\ Draining \/ co.at = "end" =>
         \A j \in Job : group[j] = "live" => j \in killed \cup missed
    /\ result # "running" => co.at = "end"

Distinct(s) == \A i, k \in 1..Len(s) : s[i] = s[k] => i = k

\* Nothing of the job was started.
Fresh(j) ==
    /\ group[j] = "none" /\ main[j] = "none" /\ receipt[j] = "none"
    /\ \A s \in 1..Streams : reader[<<j, s>>].at = "none"

\* A job is in one place, and has no receipt before it left the last one.
PlaceInv ==
    /\ Distinct(queue) /\ Distinct(active)
    /\ \A j \in ToSet(queue) : Fresh(j)
    /\ \A j \in ToSet(active) : group[j] # "none" /\ receipt[j] = "none"
    /\ co.at = "start" => Fresh(co.job) /\ co.job \notin ToSet(queue)
    /\ co.at \in Cleans => /\ group[co.job] # "none" /\ receipt[co.job] = "none"
                           /\ co.job \notin ToSet(active)
    /\ ToSet(queue) \cup ToSet(active) \subseteq ToSet(Jobs)
    /\ Held => co.job \in ToSet(Jobs)

\* What may still use memory and is in nobody's hands.
Loose(j) == /\ group[j] = "live" \/ Unfinished(j)
            /\ j \notin ToSet(active)
            /\ ~(Held /\ j = co.job)
Stray == {j \in Job : Loose(j)}

InHand == IF Held THEN 1 ELSE 0
SlotInHand ==
    IF co.at \in {"kill", "cleanup"} \/ (co.at \in {"finish", "settle"} /\ ~co.retired) THEN 1 ELSE 0

\* Reservations cover the list, the job in hand and the strays; exactly,
\* until the batch is given up.
LedgerInv ==
    /\ ledger \in Nat /\ slots \in Nat
    /\ IsFiniteSet(Stray)
    /\ Cardinality(Stray) + Len(active) + InHand <= ledger
    /\ ledger <= MaxRunning
    /\ Len(active) + SlotInHand <= slots
    /\ slots + InHand <= ledger + SlotInHand
    /\ ~Ending => ledger = Len(active) + InHand /\ slots = Len(active) + SlotInHand
    /\ result \in {"ok", "failed"} => ledger = 0 /\ slots = 0

Pending(j) == \/ j \in ToSet(queue) \/ j \in ToSet(active)
              \/ Held /\ j = co.job

Good(r) == r \notin {"none", "torn", "cleanup_unconfirmed"}

\* No receipt says of a program that lives that it is over.
OverInv == \A j \in Job : group[j] = "live" => ~Good(receipt[j])

\* A receipt says no more than what happened.
TruthInv ==
    /\ \A j \in Job : receipt[j] = "completed" =>
         /\ main[j] = "ok" /\ group[j] = "empty"
         /\ j \notin exceeded \cup readError /\ ~Unfinished(j)
    /\ co.at \in Cleans /\ co.verdict = "completed" => main[co.job] = "ok"
    /\ co.at \in Cleans /\ co.back # "drain" => Good(co.verdict)

\* No job is counted as failed twice.
FailedInv ==
    /\ failed \in Nat
    /\ failed + Len(queue) + Len(active) + InHand <= Len(Jobs)

\* Every job waits for its receipt or has one, and the failures are counted.
CoverInv ==
    /\ ~Ending =>
         /\ \A j \in ToSet(Jobs) : Pending(j) \/ Good(receipt[j])
         /\ failed = 0 => \A j \in Job : receipt[j] \in {"none", "completed"}
         /\ failed # 0 => \E j \in ToSet(Jobs) : receipt[j] \notin {"none", "completed"}
    /\ result \in {"ok", "failed"} =>
         /\ \A j \in ToSet(Jobs) : Good(receipt[j])
         /\ result = "ok" <=> \A j \in ToSet(Jobs) : receipt[j] = "completed"

-----------------------------------------------------------------------------
(* The queue and the list of active programs *)

\* The members of a sequence are what its indices lead to.
LEMMA MembersOf ==
    ASSUME NEW s \in Seq(Job)
    PROVE  /\ \A j : j \in ToSet(s) <=> \E i \in 1..Len(s) : s[i] = j
           /\ ToSet(s) \subseteq Job /\ Len(s) \in Nat
           /\ s = <<>> => ToSet(s) = {} /\ Len(s) = 0
           /\ s # <<>> => Len(s) # 0
  BY DEF ToSet

\* Taking the head of a queue without repetition takes that job for good.
LEMMA TakeHead ==
    ASSUME NEW s \in Seq(Job), s # <<>>, Distinct(s)
    PROVE  /\ Head(s) \in Job /\ Tail(s) \in Seq(Job) /\ Len(Tail(s)) = Len(s) - 1
           /\ Head(s) \in ToSet(s) /\ Head(s) \notin ToSet(Tail(s))
           /\ ToSet(s) = {Head(s)} \cup ToSet(Tail(s))
           /\ Distinct(Tail(s))
  <1>1. /\ Len(s) \in Nat /\ Len(s) >= 1 /\ Tail(s) \in Seq(Job)
        /\ Len(Tail(s)) = Len(s) - 1 /\ Head(s) = s[1]
        /\ \A i \in 1..(Len(s) - 1) : Tail(s)[i] = s[i + 1]
    OBVIOUS
  <1>2. /\ \A j : j \in ToSet(s) <=> \E i \in 1..Len(s) : s[i] = j
        /\ \A j : j \in ToSet(Tail(s)) <=> \E i \in 1..(Len(s) - 1) : Tail(s)[i] = j
    BY <1>1, MembersOf
  <1>3. \A i \in 1..(Len(s) - 1) : i + 1 \in 1..Len(s) /\ i + 1 # 1
    BY <1>1
  <1>4. Distinct(Tail(s))
    BY <1>1, <1>3 DEF Distinct
  <1>5. Head(s) \in ToSet(s) /\ Head(s) \in Job
    BY <1>1, <1>2
  <1>6. Head(s) \notin ToSet(Tail(s))
    BY <1>1, <1>2, <1>3 DEF Distinct
  <1>7. ASSUME NEW j \in ToSet(Tail(s)) PROVE j \in ToSet(s)
    BY <1>1, <1>2, <1>3, <1>7
  <1>8. ASSUME NEW j \in ToSet(s), j # Head(s) PROVE j \in ToSet(Tail(s))
    <2>1. PICK i \in 1..Len(s) : s[i] = j
      BY <1>2, <1>8
    <2>2. i # 1 /\ i - 1 \in 1..(Len(s) - 1) /\ (i - 1) + 1 = i
      BY <1>1, <1>8, <2>1
    <2> QED
      BY <1>1, <1>2, <2>1, <2>2
  <1> QED
    BY <1>1, <1>4, <1>5, <1>6, <1>7, <1>8

\* A started program is added once.
LEMMA AppendOne ==
    ASSUME NEW s \in Seq(Job), NEW j \in Job, Distinct(s), j \notin ToSet(s)
    PROVE  /\ Append(s, j) \in Seq(Job) /\ Len(Append(s, j)) = Len(s) + 1
           /\ ToSet(Append(s, j)) = ToSet(s) \cup {j}
           /\ Distinct(Append(s, j))
  <1>1. /\ Len(s) \in Nat /\ Append(s, j) \in Seq(Job) /\ Len(Append(s, j)) = Len(s) + 1
        /\ Append(s, j)[Len(s) + 1] = j
        /\ \A i \in 1..Len(s) : Append(s, j)[i] = s[i]
    OBVIOUS
  <1>2. /\ \A k : k \in ToSet(s) <=> \E i \in 1..Len(s) : s[i] = k
        /\ \A k : k \in ToSet(Append(s, j)) <=> \E i \in 1..(Len(s) + 1) : Append(s, j)[i] = k
    BY <1>1, MembersOf
  <1>3. \A i \in 1..(Len(s) + 1) : i \in 1..Len(s) \/ i = Len(s) + 1
    BY <1>1
  <1>4. 1..Len(s) \subseteq 1..(Len(s) + 1) /\ Len(s) + 1 \in 1..(Len(s) + 1)
    BY <1>1
  <1>5. Distinct(Append(s, j))
    BY <1>1, <1>2, <1>3 DEF Distinct
  <1>6. ToSet(Append(s, j)) = ToSet(s) \cup {j}
    BY <1>1, <1>2, <1>3, <1>4
  <1> QED
    BY <1>1, <1>5, <1>6

\* swap_remove takes out one program and keeps the others.
LEMMA RemoveOne ==
    ASSUME NEW s \in Seq(Job), NEW i \in 1..Len(s), Distinct(s)
    PROVE  /\ s[i] \in Job /\ s[i] \in ToSet(s)
           /\ SwapRemove(s, i) \in Seq(Job) /\ Len(SwapRemove(s, i)) = Len(s) - 1
           /\ ToSet(SwapRemove(s, i)) = ToSet(s) \ {s[i]}
           /\ Distinct(SwapRemove(s, i))
  <1> DEFINE n == Len(s)
             t == [s EXCEPT ![i] = s[n]]
             r == SwapRemove(s, i)
  <1>1. n \in Nat /\ n >= 1 /\ n \in 1..n /\ t \in Seq(Job) /\ Len(t) = n
        /\ \A k \in 1..n : t[k] = IF k = i THEN s[n] ELSE s[k]
    OBVIOUS
  <1>2. r = SubSeq(t, 1, n - 1)
    BY DEF SwapRemove, Last
  <1> HIDE DEF t
  <1>3. r \in Seq(Job) /\ Len(r) = n - 1 /\ \A k \in 1..(n - 1) : r[k] = t[k]
    <2> HIDE DEF r, n
    <2>1. n - 1 \in Nat /\ n - 1 <= Len(t)
      BY <1>1
    <2> QED
      BY <1>1, <1>2, <2>1
  <1> HIDE DEF r
  <1>4. \A k \in 1..(n - 1) : k \in 1..n /\ k # n /\ r[k] = IF k = i THEN s[n] ELSE s[k]
    BY <1>1, <1>3, SMTT(30)
  <1>5. /\ \A j : j \in ToSet(s) <=> \E k \in 1..n : s[k] = j
        /\ \A j : j \in ToSet(r) <=> \E k \in 1..(n - 1) : r[k] = j
    BY <1>3, MembersOf
  <1>6. Distinct(r)
    <2> SUFFICES ASSUME NEW a \in 1..(n - 1), NEW b \in 1..(n - 1), r[a] = r[b]
                 PROVE  a = b
      BY <1>3 DEF Distinct
    <2> HIDE DEF n
    <2> QED
      BY <1>1, <1>4 DEF Distinct, n
  <1>7. ASSUME NEW j \in ToSet(r) PROVE j \in ToSet(s) /\ j # s[i]
    <2>1. PICK k \in 1..(n - 1) : r[k] = j
      BY <1>5, <1>7
    <2>2. k \in 1..n /\ k # n /\ r[k] = IF k = i THEN s[n] ELSE s[k]
      BY <1>4
    <2> QED
      BY <1>1, <1>5, <2>1, <2>2 DEF Distinct
  <1>8. ASSUME NEW j \in ToSet(s), j # s[i] PROVE j \in ToSet(r)
    <2>1. PICK k \in 1..n : s[k] = j /\ k # i
      BY <1>5, <1>8
    <2>2. CASE k # n
      <3>1. k \in 1..(n - 1)
        BY <1>1, <2>2
      <3> QED
        BY <1>4, <1>5, <2>1, <3>1
    <2>3. CASE k = n
      <3>1. i \in 1..(n - 1)
        BY <1>1, <2>1, <2>3
      <3> QED
        BY <1>4, <1>5, <2>1, <2>3, <3>1
    <2> QED
      BY <2>2, <2>3
  <1> QED
    BY <1>3, <1>5, <1>6, <1>7, <1>8 DEF r

-----------------------------------------------------------------------------
(* Types *)

\* The types of everything but the counters, which take the invariants below.
ShapeInv ==
    /\ now \in 0..MaxTime
    /\ co \in Coordinators
    /\ queue \in Seq(Job) /\ active \in Seq(Job)
    /\ group \in [Job -> {"none", "live", "empty"}]
    /\ main \in [Job -> {"none", "running", "ok", "bad"}]
    /\ killed \subseteq Job /\ missed \subseteq Job
    /\ wrote \in [Pipe -> Nat] /\ pipe \in [Pipe -> Nat]
    /\ \A p \in Pipe : wrote[p] \in 0..Bytes[p[1]] /\ pipe[p] \in 0..wrote[p]
    /\ reader \in [Pipe -> [at : {"none", "loop", "empty", "done"},
                            stop : BOOLEAN, retired : BOOLEAN]]
    /\ kept \in [Job -> 0..Limit]
    /\ exceeded \subseteq Job /\ readError \subseteq Job
    /\ receipt \in [Job -> Verdicts]
    /\ result \in {"running", "ok", "failed", "error"}
    /\ faults \in 0..Faults

\* What moves without the coordinator.
Environment ==
    \/ \E p \in Pipe : ReadStep(p) \/ WriteByte(p)
    \/ \E j \in Job : MainExits(j, "ok") \/ MainExits(j, "bad") \/ GroupEmpties(j)
    \/ Tick

\* The bounds are naturals.
LEMMA Bounds ==
    /\ Limit \in Nat /\ Deadline \in Nat /\ Grace \in Nat /\ StopGrace \in Nat
    /\ Faults \in Nat /\ MaxTime \in Nat /\ Streams \in Nat
    /\ MaxRunning \in Nat /\ MaxRunning >= 1 /\ Jobs \in Seq(Job) /\ Jobs # <<>>
  BY ExecutionAssumption

\* Programs, readers and the clock keep the types.
LEMMA EnvironmentShape == ShapeInv /\ Environment => ShapeInv'
  <1> SUFFICES ASSUME ShapeInv, Environment PROVE ShapeInv'
    OBVIOUS
  <1> USE DEF ShapeInv, coordinator, receipts, os, capture
  <1>1. ASSUME NEW p \in Pipe, ReadStops(p) PROVE ShapeInv'
    BY <1>1 DEF ReadStops, ReaderGoes
  <1>2. ASSUME NEW p \in Pipe, ReadByte(p) PROVE ShapeInv'
    <2>1. /\ pipe' = [pipe EXCEPT ![p] = @ - 1] /\ pipe[p] > 0 /\ Append1(p[1])
          /\ UNCHANGED <<now, co, queue, active, killed, missed, receipt, result, group, main,
                         wrote, reader, readError, faults>>
      BY <1>2 DEF ReadByte
    <2>2. p[1] \in Job /\ pipe[p] - 1 \in Nat /\ pipe[p] - 1 \in 0..wrote[p]
      BY <2>1 DEF Pipe
    <2>3. kept' \in [Job -> 0..Limit] /\ exceeded' \subseteq Job
      <3>1. kept[p[1]] \in 0..Limit /\ Limit \in Nat
        BY <2>2, Bounds
      <3>2. kept[p[1]] < Limit => kept[p[1]] + 1 \in 0..Limit
        BY <3>1, SMTT(30)
      <3> QED
        BY <2>1, <2>2, <3>2 DEF Append1
    <2>4. pipe' \in [Pipe -> Nat] /\ \A q \in Pipe : pipe'[q] \in 0..wrote[q]
      BY <2>1, <2>2
    <2> QED
      BY <2>1, <2>3, <2>4
  <1>3. ASSUME NEW p \in Pipe, ReadNothing(p) PROVE ShapeInv'
    <2>1. PICK to \in {"done", "empty"} : ReaderGoes(p, "loop", to)
      BY <1>3 DEF ReadNothing
    <2>2. reader' \in [Pipe -> [at : {"none", "loop", "empty", "done"},
                                 stop : BOOLEAN, retired : BOOLEAN]]
      BY <2>1 DEF ReaderGoes
    <2> QED
      BY <1>3, <2>2 DEF ReadNothing
  <1>4. ASSUME NEW p \in Pipe, ReadFails(p) PROVE ShapeInv'
    <2>1. p[1] \in Job
      BY DEF Pipe
    <2>2. faults' \in 0..Faults
      <3>1. faults < Faults /\ faults' = faults + 1 /\ faults \in 0..Faults /\ Faults \in Nat
        BY <1>4, Bounds DEF ReadFails, Fault
      <3> QED
        BY <3>1
    <2> QED
      BY <1>4, <2>1, <2>2 DEF ReadFails, ReaderGoes
  <1>5. ASSUME NEW p \in Pipe, CheckRetired(p) PROVE ShapeInv'
    <2>1. PICK to \in {"done", "loop"} : ReaderGoes(p, "empty", to)
      BY <1>5 DEF CheckRetired
    <2>2. reader' \in [Pipe -> [at : {"none", "loop", "empty", "done"},
                                 stop : BOOLEAN, retired : BOOLEAN]]
      BY <2>1 DEF ReaderGoes
    <2> QED
      BY <1>5, <2>2 DEF CheckRetired
  <1>6. ASSUME NEW p \in Pipe, WriteByte(p) PROVE ShapeInv'
    <2>1. /\ wrote' = [wrote EXCEPT ![p] = @ + 1] /\ pipe' = [pipe EXCEPT ![p] = @ + 1]
          /\ wrote[p] < Bytes[p[1]]
          /\ UNCHANGED <<now, co, queue, active, killed, missed, receipt, result, group, main,
                         kept, exceeded, reader, readError, faults>>
      BY <1>6 DEF WriteByte
    <2>2. /\ p[1] \in Job /\ Bytes[p[1]] \in Nat
          /\ wrote[p] \in Nat /\ pipe[p] \in 0..wrote[p]
      BY ExecutionAssumption DEF Pipe
    <2>3. /\ wrote[p] + 1 \in 0..Bytes[p[1]] /\ pipe[p] + 1 \in 0..(wrote[p] + 1)
          /\ wrote[p] + 1 \in Nat /\ pipe[p] + 1 \in Nat
      BY <2>1, <2>2
    <2>4. wrote' \in [Pipe -> Nat] /\ pipe' \in [Pipe -> Nat]
      BY <2>1, <2>3
    <2>5. \A q \in Pipe : wrote'[q] \in 0..Bytes[q[1]] /\ pipe'[q] \in 0..wrote'[q]
      BY <2>1, <2>3
    <2> QED
      BY <2>1, <2>4, <2>5
  <1>7. ASSUME NEW j \in Job, NEW status \in {"ok", "bad"}, MainExits(j, status)
        PROVE  ShapeInv'
    BY <1>7 DEF MainExits
  <1>8. ASSUME NEW j \in Job, GroupEmpties(j) PROVE ShapeInv'
    BY <1>8 DEF GroupEmpties
  <1>9. CASE Tick
    BY <1>9, Bounds DEF Tick
  <1> QED
    BY <1>1, <1>2, <1>3, <1>4, <1>5, <1>6, <1>7, <1>8, <1>9 DEF Environment, ReadStep

\* Without the coordinator programs only end, groups only become empty and
\* readers only finish; what has finished reads nothing.
LEMMA EnvironmentFacts ==
    ASSUME ShapeInv, Environment
    PROVE  /\ UNCHANGED <<co, queue, active, killed, missed, ledger, slots, receipt, failed, result>>
           /\ \A j \in Job : \/ group'[j] = group[j]
                             \/ group[j] = "live" /\ group'[j] = "empty"
           /\ \A j \in Job : main'[j] = main[j] \/ main[j] = "running"
           /\ \A q \in Pipe : Finished(q) => reader'[q].at = reader[q].at
           /\ \A j \in Job : ~Unfinished(j) =>
                ~Unfinished(j)' /\ (j \in exceeded' => j \in exceeded)
                                /\ (j \in readError' => j \in readError)
  <1> DEFINE Kept ==
        /\ UNCHANGED <<co, queue, active, killed, missed, ledger, slots, receipt, failed, result>>
        /\ \A j \in Job : \/ group'[j] = group[j]
                          \/ group[j] = "live" /\ group'[j] = "empty"
        /\ \A j \in Job : main'[j] = main[j] \/ main[j] = "running"
        /\ \A q \in Pipe : Finished(q) => reader'[q].at = reader[q].at
        /\ \A j \in Job : (j \in exceeded' => j \in exceeded)
                          \/ \E s \in 1..Streams : ~Finished(<<j, s>>)
        /\ \A j \in Job : (j \in readError' => j \in readError)
                          \/ \E s \in 1..Streams : ~Finished(<<j, s>>)
  <1> USE DEF ShapeInv, coordinator, receipts, os, capture
  <1>a. \A q \in Pipe : q[1] \in Job /\ q[2] \in 1..Streams /\ q = <<q[1], q[2]>>
    BY DEF Pipe
  <1>1. ASSUME NEW p \in Pipe, ReadStops(p) PROVE Kept
    BY <1>1 DEF ReadStops, ReaderGoes, Finished
  <1>2. ASSUME NEW p \in Pipe, ReadByte(p) PROVE Kept
    <2>1. /\ ~Finished(p) /\ (exceeded' = exceeded \/ exceeded' = exceeded \cup {p[1]})
          /\ UNCHANGED <<co, queue, active, killed, missed, ledger, slots, receipt, failed, result,
                         group, main, reader, readError>>
      BY <1>2 DEF ReadByte, Append1, Finished
    <2>2. p[1] \in Job /\ p[2] \in 1..Streams /\ ~Finished(<<p[1], p[2]>>)
      BY <2>1, <1>a
    <2>3. \A j \in Job : (j \in exceeded' => j \in exceeded)
                          \/ \E s \in 1..Streams : ~Finished(<<j, s>>)
      BY <2>1, <2>2
    <2> QED
      BY <2>1, <2>3
  <1>3. ASSUME NEW p \in Pipe, ReadNothing(p) PROVE Kept
    BY <1>3 DEF ReadNothing, ReaderGoes, Finished
  <1>4. ASSUME NEW p \in Pipe, ReadFails(p) PROVE Kept
    <2>1. /\ ~Finished(p) /\ readError' = readError \cup {p[1]}
          /\ reader' = [reader EXCEPT ![p].at = "done"]
          /\ UNCHANGED <<co, queue, active, killed, missed, ledger, slots, receipt, failed, result,
                         group, main, exceeded>>
      BY <1>4 DEF ReadFails, ReaderGoes, Finished
    <2>2. \A q \in Pipe : Finished(q) => reader'[q].at = reader[q].at
      BY <2>1
    <2>3. p[1] \in Job /\ p[2] \in 1..Streams /\ ~Finished(<<p[1], p[2]>>)
      BY <2>1, <1>a
    <2>4. \A j \in Job : (j \in readError' => j \in readError)
                          \/ \E s \in 1..Streams : ~Finished(<<j, s>>)
      BY <2>1, <2>3
    <2> QED
      BY <2>1, <2>2, <2>4
  <1>5. ASSUME NEW p \in Pipe, CheckRetired(p) PROVE Kept
    BY <1>5 DEF CheckRetired, ReaderGoes, Finished
  <1>6. ASSUME NEW p \in Pipe, WriteByte(p) PROVE Kept
    BY <1>6 DEF WriteByte
  <1>7. ASSUME NEW j \in Job, NEW status \in {"ok", "bad"}, MainExits(j, status)
        PROVE  Kept
    BY <1>7 DEF MainExits
  <1>8. ASSUME NEW j \in Job, GroupEmpties(j) PROVE Kept
    BY <1>8 DEF GroupEmpties
  <1>9. ASSUME Tick PROVE Kept
    <2>1. UNCHANGED <<co, queue, active, killed, missed, ledger, slots, receipt, failed, result,
                      group, main, reader, exceeded, readError>>
      BY <1>9 DEF Tick
    <2> QED
      BY <2>1
  <1> HIDE DEF Kept
  <1>10. Kept
    BY <1>1, <1>2, <1>3, <1>4, <1>5, <1>6, <1>7, <1>8, <1>9 DEF Environment, ReadStep
  <1> USE DEF Kept
  <1>11. \A j \in Job : ~Unfinished(j) => ~Unfinished(j)'
    <2>1. \A j \in Job, s \in 1..Streams : <<j, s>> \in Pipe
      BY DEF Pipe
    <2> QED
      BY <1>10, <2>1 DEF Unfinished, Finished
  <1> QED
    BY <1>10, <1>11 DEF Unfinished

\* A receipt is published as judged, or torn; then the batch stops.
LEMMA PublishFacts ==
    ASSUME NEW j \in Job, NEW v \in Verdicts, NEW next \in Coordinators, NEW spent \in 0..1,
           ShapeInv, faults + spent <= Faults, Publish(j, v, next, spent)
    PROVE  /\ faults' \in 0..Faults /\ receipt' \in [Job -> Verdicts]
           /\ co' \in Coordinators
           /\ failed' = IF v = "completed" THEN failed ELSE failed + 1
           /\ \/ receipt' = [receipt EXCEPT ![j] = v] /\ co' = next
              \/ receipt' = [receipt EXCEPT ![j] = "torn"] /\ co' = [next EXCEPT !.at = "stop"]
  <1>1. receipt \in [Job -> Verdicts] /\ faults \in Nat /\ Faults \in Nat /\ "torn" \in Verdicts
    BY Bounds DEF ShapeInv, Verdicts
  <1>2. [next EXCEPT !.at = "stop"] \in Coordinators /\ [next EXCEPT !.at = "stop"].at = "stop"
    BY DEF Coordinators, Labels
  <1>3. failed' = IF v = "completed" THEN failed ELSE failed + 1
    BY DEF Publish
  <1>4. CASE /\ receipt' = [receipt EXCEPT ![j] = v]
             /\ co' = next /\ faults' = faults + spent
    BY <1>1, <1>3, <1>4
  <1>5. CASE /\ faults + spent < Faults /\ faults' = faults + spent + 1
             /\ receipt' = [receipt EXCEPT ![j] = "torn"]
             /\ co' = [next EXCEPT !.at = "stop"]
    <2>1. faults' \in 0..Faults
      BY <1>1, <1>5
    <2> QED
      BY <1>1, <1>2, <1>3, <1>5, <2>1
  <1> QED
    BY <1>4, <1>5 DEF Publish

\* The coordinator's record when it begins a cleanup.
LEMMA CleaningFacts ==
    ASSUME ShapeInv, NEW j \in Job, NEW v \in Verdicts, NEW back \in {"admit", "scan", "drain"}
    PROVE  /\ Cleaning(j, v, back) \in Coordinators
           /\ Cleaning(j, v, back).at = "kill" /\ Cleaning(j, v, back).job = j
           /\ Cleaning(j, v, back).verdict = v /\ Cleaning(j, v, back).stream = 1
           /\ Cleaning(j, v, back).clean /\ ~Cleaning(j, v, back).retired
           /\ Cleaning(j, v, back).back = back
  <1>1. Capped(now + Grace) \in 0..MaxTime
    BY Bounds DEF ShapeInv, Capped
  <1> QED
    BY <1>1 DEF ShapeInv, Coordinators, Labels, Cleaning

\* The job of a verdict is judged by what is known of it.
LEMMA VerdictFacts ==
    ASSUME NEW j \in Job
    PROVE  /\ Verdict(j) \in Verdicts
           /\ Verdict(j) \notin {"torn", "cleanup_unconfirmed"}
           /\ Verdict(j) = "completed" => main[j] = "ok"
  BY DEF Verdict, Verdicts

\* Kills add to what was killed and to what could not be.
LEMMA KillFacts ==
    ASSUME ShapeInv, NEW jobs \in SUBSET Job, NEW missing \in SUBSET jobs,
           Kill(jobs, missing)
    PROVE  /\ killed \subseteq killed' /\ killed' \subseteq Job
           /\ missed \subseteq missed' /\ missed' \subseteq Job
           /\ jobs \subseteq killed' \cup missed'
  BY DEF Kill, ShapeInv

\* Reaping takes one program out of the list; it is about to be killed.
LEMMA ReapFacts ==
    ASSUME ShapeInv, Distinct(active), NEW i \in 1..Len(active), NEW v \in Verdicts,
           NEW spent \in 0..1, Reap(i, v, spent)
    PROVE  /\ active[i] \in Job /\ active[i] \in ToSet(active)
           /\ active' \in Seq(Job) /\ Len(active') = Len(active) - 1
           /\ ToSet(active') = ToSet(active) \ {active[i]} /\ Distinct(active')
           /\ co' = Cleaning(active[i], v, "scan")
           /\ co' \in Coordinators /\ co'.at = "kill" /\ co'.job = active[i]
           /\ co'.verdict = v /\ co'.stream = 1 /\ co'.clean /\ ~co'.retired
           /\ co'.back = "scan"
           /\ killed \subseteq killed' /\ killed' \subseteq Job
           /\ missed \subseteq missed' /\ missed' \subseteq Job
           /\ faults' \in 0..Faults
  <1>1. active \in Seq(Job) /\ killed \subseteq Job
    BY DEF ShapeInv
  <1>2. /\ active[i] \in Job /\ active[i] \in ToSet(active)
        /\ SwapRemove(active, i) \in Seq(Job) /\ Len(SwapRemove(active, i)) = Len(active) - 1
        /\ ToSet(SwapRemove(active, i)) = ToSet(active) \ {active[i]}
        /\ Distinct(SwapRemove(active, i))
    BY <1>1, RemoveOne
  <1> DEFINE others == ExpiredOf(ToSet(SwapRemove(active, i)))
  <1>3. co' = Cleaning(active[i], v, "scan") /\ active' = SwapRemove(active, i)
    BY DEF Reap
  <1>4. others \subseteq Job
    BY <1>1, <1>2, MembersOf DEF ExpiredOf
  <1>5. PICK missing \in SUBSET others :
          /\ Kill(others, missing)
          /\ faults + spent + Spent(missing) <= Faults
          /\ faults' = faults + spent + Spent(missing)
    BY DEF Reap
  <1> HIDE DEF others
  <1>6. /\ killed \subseteq killed' /\ killed' \subseteq Job
        /\ missed \subseteq missed' /\ missed' \subseteq Job
    BY <1>4, <1>5, KillFacts
  <1>7. faults' \in 0..Faults
    <2>1. faults \in Nat /\ Faults \in Nat /\ Spent(missing) \in 0..1
      BY Bounds DEF ShapeInv, Spent
    <2> QED
      BY <1>5, <2>1
  <1> QED
    <2> DEFINE c == Cleaning(active[i], v, "scan")
    <2>1. /\ c \in Coordinators /\ c.at = "kill" /\ c.job = active[i] /\ c.verdict = v
          /\ c.stream = 1 /\ c.clean /\ ~c.retired /\ c.back = "scan"
      BY <1>2, CleaningFacts
    <2> HIDE DEF c
    <2>2. co' = c
      BY <1>3 DEF c
    <2> QED
      BY <1>2, <1>3, <1>6, <1>7, <2>1, <2>2

\* The verdict that is published at last.
LEMMA FinalVerdictFacts ==
    ASSUME ShapeInv
    PROVE  /\ FinalVerdict \in Verdicts
           /\ ~co.clean => FinalVerdict = "cleanup_unconfirmed"
           /\ co.clean => FinalVerdict \in {co.verdict, "output_limit", "reader_error"}
           /\ FinalVerdict = "completed" =>
                co.clean /\ co.verdict = "completed" /\ co.job \notin exceeded \cup readError
  BY DEF FinalVerdict, ShapeInv, Coordinators, Verdicts

\* One look at a reader: it is done with all of them, waits on, forces the
\* reader to stop, or goes on to the next; unforced and finished, or unclean.
LEMMA FinishFacts ==
    ASSUME ShapeInv, FinishReader
    PROVE  /\ co.at = "finish"
           /\ UNCHANGED <<now, queue, active, killed, missed, ledger, slots, group, main, wrote, pipe,
                          kept, exceeded, receipt, failed, result, faults>>
           /\ readError' \in {readError, readError \cup {co.job}}
           /\ \/ /\ co' = [co EXCEPT !.at = "settle"] /\ co.stream > Streams
                 /\ reader' = reader
              \/ /\ co' = [co EXCEPT !.forced = TRUE]
                 /\ reader' = [reader EXCEPT ![<<co.job, co.stream>>].stop = TRUE]
              \/ /\ \/ co' = [co EXCEPT !.stream = co.stream + 1, !.forced = FALSE,
                                        !.clean = FALSE]
                    \/ /\ co' = [co EXCEPT !.stream = co.stream + 1, !.forced = FALSE]
                       /\ Finished(<<co.job, co.stream>>)
                 /\ reader' = [q \in Pipe |->
                      IF q = <<co.job, co.stream + 1>> /\ co.retired
                      THEN [reader[q] EXCEPT !.retired = TRUE] ELSE reader[q]]
  <1> DEFINE p == <<co.job, co.stream>>
             next(err) ==
               /\ co' = [co EXCEPT !.stream = @ + 1, !.forced = FALSE,
                                   !.clean = @ /\ ~err]
               /\ readError' = IF err THEN readError \cup {co.job} ELSE readError
               /\ reader' = [q \in Pipe |->
                    IF q = <<co.job, co.stream + 1>> /\ co.retired
                    THEN [reader[q] EXCEPT !.retired = TRUE] ELSE reader[q]]
  <1>1. /\ co \in Coordinators /\ co.clean \in BOOLEAN /\ co.forced \in BOOLEAN
        /\ co.stream \in Nat /\ Streams \in Nat
    BY Bounds DEF ShapeInv, Coordinators
  <1>2. /\ co.at = "finish"
        /\ UNCHANGED <<now, queue, active, killed, missed, ledger, slots, group, main, wrote, pipe,
                       kept, exceeded, receipt, failed, result, faults>>
    BY DEF FinishReader, os, receipts
  <1>3. \/ /\ co.stream > Streams /\ co' = [co EXCEPT !.at = "settle"]
           /\ UNCHANGED <<reader, readError>>
        \/ Finished(p) /\ next(co.forced)
        \/ /\ co' = [co EXCEPT !.forced = TRUE] /\ UNCHANGED readError
           /\ reader' = [reader EXCEPT ![p].stop = TRUE]
        \/ next(TRUE)
    <2>1. CASE co.stream > Streams
      BY <1>1, <2>1 DEF FinishReader
    <2>2. CASE co.stream <= Streams /\ Finished(p)
      BY <1>1, <2>2 DEF FinishReader
    <2>3. CASE co.stream <= Streams /\ ~Finished(p) /\ ~co.forced
      BY <1>1, <2>3 DEF FinishReader
    <2>4. CASE co.stream <= Streams /\ ~Finished(p) /\ co.forced
      BY <1>1, <2>4 DEF FinishReader
    <2> QED
      BY <1>1, <2>1, <2>2, <2>3, <2>4
  <1>4. CASE /\ co.stream > Streams /\ co' = [co EXCEPT !.at = "settle"]
             /\ UNCHANGED <<reader, readError>>
    BY <1>2, <1>4
  <1>5. CASE /\ co' = [co EXCEPT !.forced = TRUE] /\ UNCHANGED readError
             /\ reader' = [reader EXCEPT ![p].stop = TRUE]
    BY <1>2, <1>5
  <1>6. next(TRUE) => co' = [co EXCEPT !.stream = co.stream + 1, !.forced = FALSE,
                                       !.clean = FALSE]
    <2>1. (co.clean /\ ~TRUE) = FALSE
      OBVIOUS
    <2> QED
      BY <2>1
  <1>7. next(FALSE) => co' = [co EXCEPT !.stream = co.stream + 1, !.forced = FALSE]
    <2>1. (co.clean /\ ~FALSE) = co.clean
      BY <1>1
    <2> QED
      BY <1>1, <2>1 DEF Coordinators
  <1>8. CASE next(TRUE)
    BY <1>2, <1>6, <1>8
  <1>9. CASE Finished(p) /\ next(FALSE)
    BY <1>2, <1>7, <1>9
  <1>10. next(co.forced) => next(TRUE) \/ next(FALSE)
    BY <1>1
  <1> QED
    BY <1>3, <1>4, <1>5, <1>8, <1>9, <1>10

\* The kills of a round.
LEMMA KillExpiredFacts ==
    ASSUME ShapeInv, KillExpired
    PROVE  /\ killed \subseteq killed' /\ killed' \subseteq Job
           /\ missed \subseteq missed' /\ missed' \subseteq Job
           /\ faults' \in 0..Faults
  <1> DEFINE jobs == ExpiredOf(ToSet(active))
  <1>1. jobs \subseteq Job
    BY MembersOf DEF ShapeInv, ExpiredOf
  <1>2. PICK missing \in SUBSET jobs :
          /\ Kill(jobs, missing)
          /\ faults + Spent(missing) <= Faults /\ faults' = faults + Spent(missing)
    BY DEF KillExpired
  <1> HIDE DEF jobs
  <1>3. faults \in Nat /\ Faults \in Nat /\ Spent(missing) \in 0..1
    BY Bounds DEF ShapeInv, Spent
  <1> QED
    BY <1>1, <1>2, <1>3, KillFacts

\* The kills of all that run, of the batch that is given up.
LEMMA KillAllFacts ==
    ASSUME ShapeInv, Stop
    PROVE  /\ killed \subseteq killed' /\ killed' \subseteq Job
           /\ missed \subseteq missed' /\ missed' \subseteq Job
           /\ ToSet(active) \subseteq killed' \cup missed'
           /\ faults' \in 0..Faults
  <1>1. ToSet(active) \subseteq Job
    BY MembersOf DEF ShapeInv
  <1>2. PICK missing \in SUBSET ToSet(active) :
          /\ Kill(ToSet(active), missing)
          /\ faults + Spent(missing) <= Faults /\ faults' = faults + Spent(missing)
    BY DEF Stop
  <1>3. faults \in Nat /\ Faults \in Nat /\ Spent(missing) \in 0..1
    BY Bounds DEF ShapeInv, Spent
  <1> QED
    BY <1>1, <1>2, <1>3, KillFacts

\* The program in hand is killed, or its cleanup has failed already.
LEMMA CleanupKillFacts ==
    ASSUME ShapeInv, CleanupKill
    PROVE  /\ co.at = "kill" /\ co.job \in Job
           /\ \/ co'.at = "cleanup" /\ co'.clean = co.clean
              \/ co'.at = "finish" /\ ~co'.clean
           /\ killed \subseteq killed' /\ killed' \subseteq Job
           /\ missed \subseteq missed' /\ missed' \subseteq Job
           /\ co.job \in killed' \cup missed'
           /\ UNCHANGED <<queue, active, ledger, slots, group, main, reader, exceeded,
                          readError, receipt, failed, result>>
           /\ co'.job = co.job /\ co'.stream = co.stream /\ co'.index = co.index
           /\ co'.verdict = co.verdict /\ co'.retired = co.retired /\ co'.back = co.back
  <1>1. co \in Coordinators /\ co.job \in Job
    BY DEF ShapeInv, Coordinators
  <1>2. /\ killed \subseteq killed' /\ killed' \subseteq Job
        /\ missed \subseteq missed' /\ missed' \subseteq Job
        /\ co.job \in killed' \cup missed'
    BY <1>1 DEF CleanupKill, Kill, ShapeInv
  <1> QED
    BY <1>1, <1>2 DEF CleanupKill, Coordinators, os, capture, receipts

\* The steps of the coordinator keep the types.
LEMMA CoordinateShape ==
    ASSUME ShapeInv, Distinct(queue), Distinct(active), co.index # 0, Coordinate
    PROVE  ShapeInv'
  <1>a. /\ co \in Coordinators /\ co.job \in Job /\ queue \in Seq(Job) /\ active \in Seq(Job)
        /\ ToSet(active) \subseteq Job
    BY MembersOf DEF ShapeInv, Coordinators
  <1>b. \A to \in Labels : [co EXCEPT !.at = to] \in Coordinators
    BY <1>a DEF Coordinators
  <1>c. queue # <<>> => Head(queue) \in Job /\ Tail(queue) \in Seq(Job)
    BY <1>a
  <1>d. \A S \in SUBSET Job : killed \cup S \subseteq Job
    BY DEF ShapeInv
  <1>e. \A T : Readers(co.job, T) \in [Pipe -> [at : {"none", "loop", "empty", "done"},
                                                stop : BOOLEAN, retired : BOOLEAN]]
    BY DEF Readers, ShapeInv
  <1>f. faults < Faults => faults + 1 \in 0..Faults /\ faults + 1 <= Faults
    BY Bounds DEF ShapeInv
  <1>g. faults + 0 <= Faults
    BY Bounds DEF ShapeInv
  <1> USE DEF os, capture, receipts
  <1>1. CASE Loop
    <2>1. /\ co' = [co EXCEPT !.at = "end"] \/ co' = [co EXCEPT !.at = "admit", !.admitted = FALSE]
          /\ result' \in {result, "ok", "failed", "error"}
          /\ \/ KillExpired
             \/ UNCHANGED <<killed, missed>> /\ faults' \in 0..Faults
      BY <1>1, <1>f DEF Loop, Fault, ShapeInv
    <2>2. co' \in Coordinators
      BY <2>1, <1>a DEF Coordinators, Labels
    <2>3. killed' \subseteq Job /\ missed' \subseteq Job /\ faults' \in 0..Faults
      BY <2>1, KillExpiredFacts DEF ShapeInv
    <2> QED
      BY <1>1, <2>1, <2>2, <2>3 DEF Loop, ShapeInv
  <1>2. CASE QueueTimeout
    <2>1. queue # <<>> /\ queue' = Tail(queue)
      BY <1>2 DEF QueueTimeout, MayAdmit
    <2>a. PICK missing \in SUBSET ToSet(active) :
            /\ Kill(ToSet(active), missing) /\ faults + Spent(missing) <= Faults
            /\ Publish(Head(queue), "queue_timeout", co, Spent(missing))
      BY <1>2 DEF QueueTimeout
    <2>b. Spent(missing) \in 0..1
      BY DEF Spent
    <2>2. faults' \in 0..Faults /\ receipt' \in [Job -> Verdicts] /\ co' \in Coordinators
      BY <2>1, <2>a, <2>b, <1>a, <1>c, PublishFacts DEF Verdicts
    <2>3. killed' \subseteq Job /\ missed' \subseteq Job
      BY <2>a, <1>a, KillFacts
    <2> QED
      BY <1>2, <2>1, <2>2, <2>3, <1>c DEF QueueTimeout, ShapeInv
  <1>3. CASE Reserve
    <2>1. queue # <<>> /\ queue' = Tail(queue)
          /\ \/ co' = [co EXCEPT !.at = "start", !.job = Head(queue), !.admitted = TRUE]
             \/ co' = [co EXCEPT !.at = "stop"]
      BY <1>3 DEF Reserve, MayAdmit
    <2>2. co' \in Coordinators
      BY <2>1, <1>a, <1>c DEF Coordinators, Labels
    <2> QED
      BY <1>3, <2>1, <2>2, <1>c DEF Reserve, ShapeInv
  <1>4. CASE AdmitNone
    <2>1. co' \in Coordinators
      BY <1>4, <1>a DEF AdmitNone, Coordinators, Labels
    <2> QED
      BY <1>4, <2>1 DEF AdmitNone, ShapeInv
  <1>5. CASE Started
    <2>1. co' \in Coordinators
      BY <1>5, <1>b DEF Started, Goes, Labels
    <2>2. active' \in Seq(Job)
      BY <1>5, <1>a DEF Started
    <2>3. /\ group' \in [Job -> {"none", "live", "empty"}]
          /\ main' \in [Job -> {"none", "running", "ok", "bad"}]
      BY <1>5 DEF Started, ShapeInv
    <2> QED
      BY <1>5, <2>1, <2>2, <2>3, <1>e DEF Started, ShapeInv
  <1>6. CASE SpawnFails
    <2>1. [co EXCEPT !.at = "admit"] \in Coordinators
      BY <1>b DEF Labels
    <2>2. faults' \in 0..Faults /\ receipt' \in [Job -> Verdicts] /\ co' \in Coordinators
      BY <1>6, <2>1, <1>a, <1>f, PublishFacts DEF SpawnFails, Verdicts
    <2> QED
      BY <1>6, <2>2 DEF SpawnFails, ShapeInv
  <1>7. CASE SpawnUnconfirmed
    <2>1. [co EXCEPT !.at = "stop"] \in Coordinators
      BY <1>b DEF Labels
    <2>2. faults' \in 0..Faults /\ receipt' \in [Job -> Verdicts] /\ co' \in Coordinators
      BY <1>7, <2>1, <1>a, <1>f, PublishFacts DEF SpawnUnconfirmed, Verdicts
    <2>3. /\ group' \in [Job -> {"none", "live", "empty"}]
          /\ killed' \subseteq Job /\ missed' \subseteq Job
      BY <1>7, <1>a DEF SpawnUnconfirmed, Kill, ShapeInv
    <2> QED
      BY <1>7, <2>2, <2>3 DEF SpawnUnconfirmed, ShapeInv
  <1>8. ASSUME NEW n \in 0..(Streams - 1), SetupFails(n) PROVE ShapeInv'
    <2>1. co' \in Coordinators
      BY <1>8, <1>a, CleaningFacts DEF SetupFails, Verdicts
    <2>2. /\ group' \in [Job -> {"none", "live", "empty"}]
          /\ main' \in [Job -> {"none", "running", "ok", "bad"}]
      BY <1>8, <1>a DEF SetupFails, ShapeInv
    <2> QED
      BY <1>8, <2>1, <2>2, <1>e, <1>f DEF SetupFails, Fault, ShapeInv
  <1>9. CASE Scan
    <2>1. /\ \/ co' = [co EXCEPT !.at = "loop"] /\ UNCHANGED <<active, killed, missed, faults>>
             \/ co' = [co EXCEPT !.index = co.index + 1] /\ UNCHANGED <<active, killed, missed, faults>>
             \/ co.index \in 1..Len(active) /\ Reap(co.index, Verdict(active[co.index]), 0)
          /\ UNCHANGED <<now, queue, receipt, failed, result, group, main, wrote,
                         pipe, reader, kept, exceeded, readError>>
      BY <1>9, <1>a DEF Scan, Coordinators
    <2>2. CASE co' = [co EXCEPT !.at = "loop"] /\ UNCHANGED <<active, killed, missed, faults>>
      BY <2>1, <2>2, <1>b DEF ShapeInv, Labels
    <2>3. CASE co' = [co EXCEPT !.index = co.index + 1] /\ UNCHANGED <<active, killed, missed, faults>>
      <3>1. co' \in Coordinators
        BY <2>3, <1>a DEF Coordinators
      <3> QED
        BY <2>1, <2>3, <3>1 DEF ShapeInv
    <2>4. CASE co.index \in 1..Len(active) /\ Reap(co.index, Verdict(active[co.index]), 0)
      <3>1. Verdict(active[co.index]) \in Verdicts
        BY <2>4, <1>a, VerdictFacts
      <3>2. /\ co' \in Coordinators /\ active' \in Seq(Job) /\ killed' \subseteq Job
            /\ missed' \subseteq Job /\ faults' \in 0..Faults
        BY <2>4, <3>1, ReapFacts
      <3> QED
        BY <2>1, <3>2 DEF ShapeInv
    <2> QED
      BY <2>1, <2>2, <2>3, <2>4
  <1>10. CASE WaitFails
    <2>1. /\ co.index \in 1..Len(active) /\ Reap(co.index, "worker_exit", 1)
          /\ UNCHANGED <<now, queue, receipt, failed, result, group, main, wrote,
                         pipe, reader, kept, exceeded, readError>>
      BY <1>10, <1>a DEF WaitFails, Coordinators
    <2>2. /\ co' \in Coordinators /\ active' \in Seq(Job) /\ killed' \subseteq Job
          /\ missed' \subseteq Job /\ faults' \in 0..Faults
      BY <2>1, ReapFacts DEF Verdicts
    <2> QED
      BY <2>1, <2>2 DEF ShapeInv
  <1>11. CASE GroupRetired
    <2>1. co' \in Coordinators
      BY <1>11, <1>a DEF GroupRetired, Coordinators, Labels
    <2>2. reader' \in [Pipe -> [at : {"none", "loop", "empty", "done"},
                                stop : BOOLEAN, retired : BOOLEAN]]
      BY <1>11 DEF GroupRetired, ShapeInv
    <2> QED
      BY <1>11, <2>1, <2>2 DEF GroupRetired, ShapeInv
  <1>12. CASE GroupUnconfirmed
    <2>1. co' \in Coordinators /\ faults' \in 0..Faults
      BY <1>12, <1>a, <1>f DEF GroupUnconfirmed, Fault, Coordinators, Labels, ShapeInv
    <2> QED
      BY <1>12, <2>1 DEF GroupUnconfirmed, ShapeInv
  <1>13. CASE FinishReader
    <2>1. /\ UNCHANGED <<now, queue, active, killed, missed, group, main, wrote, pipe, kept, exceeded,
                         receipt, result, faults>>
          /\ readError' \in {readError, readError \cup {co.job}}
      BY <1>13, FinishFacts
    <2>a. /\ [co EXCEPT !.at = "settle"] \in Coordinators
          /\ [co EXCEPT !.forced = TRUE] \in Coordinators
      BY <1>a DEF Coordinators, Labels
    <2>d. ASSUME NEW n \in Nat
          PROVE  /\ [co EXCEPT !.stream = n, !.forced = FALSE] \in Coordinators
                 /\ [co EXCEPT !.stream = n, !.forced = FALSE, !.clean = FALSE] \in Coordinators
      BY <1>a DEF Coordinators
    <2>e. co.stream + 1 \in Nat
      BY <1>a DEF Coordinators
    <2>b. /\ [co EXCEPT !.stream = co.stream + 1, !.forced = FALSE] \in Coordinators
          /\ [co EXCEPT !.stream = co.stream + 1, !.forced = FALSE, !.clean = FALSE]
               \in Coordinators
      BY <2>d, <2>e
    <2>2. co' \in Coordinators
      BY <1>13, <2>a, <2>b, FinishFacts
    <2>3. reader' \in [Pipe -> [at : {"none", "loop", "empty", "done"},
                                stop : BOOLEAN, retired : BOOLEAN]]
      <3>1. reader \in [Pipe -> [at : {"none", "loop", "empty", "done"},
                                 stop : BOOLEAN, retired : BOOLEAN]]
        BY DEF ShapeInv
      <3>2. [reader EXCEPT ![<<co.job, co.stream>>].stop = TRUE]
              \in [Pipe -> [at : {"none", "loop", "empty", "done"},
                            stop : BOOLEAN, retired : BOOLEAN]]
        BY <3>1
      <3>3. [q \in Pipe |-> IF q = <<co.job, co.stream + 1>> /\ co.retired
                            THEN [reader[q] EXCEPT !.retired = TRUE] ELSE reader[q]]
              \in [Pipe -> [at : {"none", "loop", "empty", "done"},
                            stop : BOOLEAN, retired : BOOLEAN]]
        BY <3>1
      <3> QED
        BY <1>13, <3>1, <3>2, <3>3, FinishFacts
    <2> QED
      BY <2>1, <2>2, <2>3, <1>a DEF ShapeInv
  <1>14. CASE Settle
    <2>1. [co EXCEPT !.at = IF co.clean THEN co.back ELSE "stop"] \in Coordinators
      BY <1>a DEF Coordinators, Labels
    <2>2. faults' \in 0..Faults /\ receipt' \in [Job -> Verdicts] /\ co' \in Coordinators
      BY <1>14, <2>1, <1>a, <1>g, PublishFacts, FinalVerdictFacts DEF Settle
    <2> QED
      BY <1>14, <2>2 DEF Settle, ShapeInv
  <1>15. CASE Stop
    <2>1. Capped(now + Grace) \in 0..MaxTime
      BY Bounds DEF ShapeInv, Capped
    <2>2. co' \in Coordinators
      BY <1>15, <2>1, <1>a DEF Stop, Coordinators, Labels
    <2>3. killed' \subseteq Job /\ missed' \subseteq Job /\ faults' \in 0..Faults
      BY <1>15, KillAllFacts
    <2> QED
      BY <1>15, <2>2, <2>3 DEF Stop, ShapeInv
  <1>16. CASE Drain
    <2>1. active # <<>> => /\ [Cleaning(Head(active), "none", "drain") EXCEPT !.by = co.by]
                                 \in Coordinators
                           /\ Tail(active) \in Seq(Job)
      <3>1. active # <<>> => Head(active) \in Job /\ Tail(active) \in Seq(Job)
        BY <1>a
      <3>2. active # <<>> => Cleaning(Head(active), "none", "drain") \in Coordinators
        BY <3>1, CleaningFacts DEF Verdicts
      <3> QED
        BY <3>1, <3>2, <1>a DEF Coordinators
    <2>2. co' \in Coordinators /\ active' \in Seq(Job)
      BY <1>16, <2>1, <1>a, <1>b DEF Drain, Labels
    <2> QED
      BY <1>16, <2>2 DEF Drain, ShapeInv
  <1>17. CASE DrainSettled
    <2>1. co' \in Coordinators
      BY <1>17, <1>b DEF DrainSettled, Labels
    <2> QED
      BY <1>17, <2>1 DEF DrainSettled, ShapeInv
  <1>20. CASE CleanupKill
    <2>1. co' \in Coordinators /\ faults' \in 0..Faults
      BY <1>20, <1>a, <1>f, ZenonT(30) DEF CleanupKill, Fault, Coordinators, Labels, ShapeInv
    <2> QED
      BY <1>20, <2>1, CleanupKillFacts DEF CleanupKill, ShapeInv
  <1> QED
    BY <1>1, <1>2, <1>3, <1>4, <1>5, <1>6, <1>7, <1>8, <1>9, <1>10, <1>11, <1>12, <1>13,
       <1>14, <1>15, <1>16, <1>17, <1>20 DEF Coordinate

-----------------------------------------------------------------------------
(* What the steps of the coordinator do *)

\* The loop ends when nothing is left, or begins another round.
LEMMA LoopFacts ==
    ASSUME ShapeInv, Loop
    PROVE  /\ co.at = "loop"
           /\ UNCHANGED <<queue, active, ledger, slots, group, main, reader, exceeded,
                          readError, receipt, failed>>
           /\ killed \subseteq killed' /\ missed \subseteq missed'
           /\ co'.job = co.job /\ co'.stream = co.stream /\ co'.index = co.index
           /\ co'.verdict = co.verdict /\ co'.clean = co.clean /\ co'.retired = co.retired
           /\ co'.back = co.back
           /\ \/ co'.at = "admit" /\ result' = result
              \/ /\ co'.at = "end" /\ queue = <<>> /\ active = <<>>
                 /\ result' \in {IF failed = 0 THEN "ok" ELSE "failed", "error"}
  <1>1. co \in Coordinators
    BY DEF ShapeInv
  <1>2. /\ co.at = "loop"
        /\ UNCHANGED <<queue, active, ledger, slots, group, main, reader, exceeded, readError,
                       receipt, failed>>
    BY DEF Loop, os, capture, receipts
  <1>3. CASE queue = <<>> /\ active = <<>>
    BY <1>1, <1>2, <1>3 DEF Loop, Coordinators
  <1>4. CASE ~(queue = <<>> /\ active = <<>>)
    <2>1. killed \subseteq killed' /\ missed \subseteq missed'
      BY <1>4, KillExpiredFacts DEF Loop
    <2> QED
      BY <1>1, <1>2, <1>4, <2>1 DEF Loop, Coordinators
  <1> QED
    BY <1>3, <1>4

\* The head of the queue gets its receipt.
LEMMA QueueTimeoutFacts ==
    ASSUME ShapeInv, Distinct(queue), QueueTimeout
    PROVE  /\ co.at = "admit" /\ queue # <<>> /\ queue' = Tail(queue)
           /\ UNCHANGED <<active, ledger, slots, group, main, reader, exceeded, readError,
                          result>>
           /\ killed \subseteq killed' /\ missed \subseteq missed'
           /\ co'.job = co.job /\ co'.stream = co.stream /\ co'.index = co.index
           /\ co'.verdict = co.verdict /\ co'.clean = co.clean /\ co'.retired = co.retired
           /\ co'.back = co.back
           /\ failed' = failed + 1
           /\ \/ receipt' = [receipt EXCEPT ![Head(queue)] = "queue_timeout"] /\ co'.at = "admit"
              \/ receipt' = [receipt EXCEPT ![Head(queue)] = "torn"] /\ co'.at = "stop"
  <1>1. co \in Coordinators /\ queue \in Seq(Job) /\ ToSet(active) \subseteq Job
    BY MembersOf DEF ShapeInv
  <1>2. /\ co.at = "admit" /\ queue # <<>> /\ queue' = Tail(queue)
        /\ UNCHANGED <<active, ledger, slots, group, main, reader, exceeded, readError, result>>
    BY DEF QueueTimeout, MayAdmit, os, capture
  <1>a. PICK missing \in SUBSET ToSet(active) :
          /\ Kill(ToSet(active), missing) /\ faults + Spent(missing) <= Faults
          /\ Publish(Head(queue), "queue_timeout", co, Spent(missing))
    BY DEF QueueTimeout
  <1>b. Spent(missing) \in 0..1
    BY DEF Spent
  <1>c. killed \subseteq killed' /\ missed \subseteq missed'
    BY <1>a, <1>1, KillFacts
  <1>3. Head(queue) \in Job
    BY <1>1, <1>2
  <1>4. /\ failed' = failed + 1
        /\ \/ receipt' = [receipt EXCEPT ![Head(queue)] = "queue_timeout"] /\ co' = co
           \/ /\ receipt' = [receipt EXCEPT ![Head(queue)] = "torn"]
              /\ co' = [co EXCEPT !.at = "stop"]
    BY <1>1, <1>2, <1>3, <1>a, <1>b, PublishFacts DEF Verdicts
  <1> QED
    BY <1>1, <1>2, <1>4, <1>c DEF Coordinators

\* The head of the queue gets a reservation, or the batch stops.
LEMMA ReserveFacts ==
    ASSUME ShapeInv, Reserve
    PROVE  /\ co.at = "admit" /\ queue # <<>> /\ queue' = Tail(queue)
           /\ UNCHANGED <<active, killed, missed, slots, group, main, reader, exceeded, readError,
                          receipt, failed, result>>
           /\ co'.stream = co.stream /\ co'.index = co.index /\ co'.verdict = co.verdict
           /\ co'.clean = co.clean /\ co'.retired = co.retired /\ co'.back = co.back
           /\ \/ /\ co'.at = "start" /\ co'.job = Head(queue)
                 /\ ledger < MaxRunning /\ ledger' = ledger + 1
              \/ co'.at = "stop" /\ ledger' = ledger
  <1>1. co \in Coordinators
    BY DEF ShapeInv
  <1> QED
    BY <1>1 DEF Reserve, MayAdmit, Coordinators, os, capture, receipts

\* Nothing more is admitted in this round.
LEMMA AdmitNoneFacts ==
    ASSUME ShapeInv, AdmitNone
    PROVE  /\ co.at = "admit" /\ co'.at = "scan" /\ co'.index = 1
           /\ UNCHANGED <<queue, active, killed, missed, ledger, slots, group, main, reader, exceeded,
                          readError, receipt, failed, result>>
           /\ co'.job = co.job /\ co'.stream = co.stream /\ co'.verdict = co.verdict
           /\ co'.clean = co.clean /\ co'.retired = co.retired /\ co'.back = co.back
  <1>1. co \in Coordinators
    BY DEF ShapeInv
  <1> QED
    BY <1>1 DEF AdmitNone,  Coordinators, os, capture, receipts

\* The program in hand joins the list.
LEMMA StartedFacts ==
    ASSUME ShapeInv, Distinct(active), Started
    PROVE  /\ co.at = "start" /\ co'.at = "admit" /\ co.job \in Job
           /\ UNCHANGED <<queue, killed, missed, ledger, exceeded, readError, receipt, failed, result>>
           /\ co'.job = co.job /\ co'.stream = co.stream /\ co'.index = co.index
           /\ co'.verdict = co.verdict /\ co'.clean = co.clean /\ co'.retired = co.retired
           /\ co'.back = co.back
           /\ slots' = slots + 1 /\ active' = Append(active, co.job)
           /\ group' = [group EXCEPT ![co.job] = "live"] /\ main' = [main EXCEPT ![co.job] = "running"]
           /\ \A q \in Pipe : q[1] # co.job => reader'[q] = reader[q]
  <1>1. co \in Coordinators /\ co.job \in Job
    BY DEF ShapeInv, Coordinators
  <1>2. reader' = Readers(co.job, 1..Streams)
    BY DEF Started
  <1>3. \A q \in Pipe : q[1] # co.job => reader'[q] = reader[q]
    BY <1>2 DEF Readers
  <1> QED
    BY <1>1, <1>3 DEF Started, Goes, Coordinators, receipts

\* The reservation is returned with a receipt.
LEMMA SpawnFailsFacts ==
    ASSUME ShapeInv, SpawnFails
    PROVE  /\ co.at = "start" /\ co.job \in Job
           /\ UNCHANGED <<queue, active, killed, missed, slots, group, main, reader, exceeded,
                          readError, result>>
           /\ co'.job = co.job /\ co'.stream = co.stream /\ co'.index = co.index
           /\ co'.verdict = co.verdict /\ co'.clean = co.clean /\ co'.retired = co.retired
           /\ co'.back = co.back
           /\ ledger' = ledger - 1 /\ failed' = failed + 1
           /\ \/ receipt' = [receipt EXCEPT ![co.job] = "spawn_error"] /\ co'.at = "admit"
              \/ receipt' = [receipt EXCEPT ![co.job] = "torn"] /\ co'.at = "stop"
  <1>1. co \in Coordinators /\ co.job \in Job
    BY DEF ShapeInv, Coordinators
  <1>2. [co EXCEPT !.at = "admit"] \in Coordinators
    BY <1>1 DEF Coordinators, Labels
  <1>3. /\ co.at = "start" /\ faults < Faults /\ ledger' = ledger - 1
        /\ Publish(co.job, "spawn_error", [co EXCEPT !.at = "admit"], 1)
        /\ UNCHANGED <<queue, active, killed, missed, slots, group, main, reader, exceeded, readError,
                       result>>
    BY DEF SpawnFails, os, capture
  <1>4. faults + 1 <= Faults
    BY <1>3, Bounds DEF ShapeInv
  <1> DEFINE next == [co EXCEPT !.at = "admit"]
  <1> HIDE DEF next
  <1>5. /\ failed' = failed + 1
        /\ \/ receipt' = [receipt EXCEPT ![co.job] = "spawn_error"] /\ co' = next
           \/ receipt' = [receipt EXCEPT ![co.job] = "torn"] /\ co' = [next EXCEPT !.at = "stop"]
    <2>1. "spawn_error" \in Verdicts /\ "spawn_error" # "completed" /\ next \in Coordinators
          /\ Publish(co.job, "spawn_error", next, 1) /\ 1 \in 0..1
      BY <1>2, <1>3 DEF Verdicts, next
    <2> QED
      BY <1>1, <1>4, <2>1, PublishFacts
  <1> QED
    BY <1>1, <1>3, <1>5 DEF Coordinators, next

\* The group may live on, killed, without anyone who waits for it.
LEMMA SpawnUnconfirmedFacts ==
    ASSUME ShapeInv, SpawnUnconfirmed
    PROVE  /\ co.at = "start" /\ co.job \in Job /\ co'.at = "stop"
           /\ UNCHANGED <<queue, active, ledger, main, reader, exceeded, readError, result>>
           /\ co'.job = co.job /\ co'.stream = co.stream /\ co'.index = co.index
           /\ co'.verdict = co.verdict /\ co'.clean = co.clean /\ co'.retired = co.retired
           /\ co'.back = co.back
           /\ slots' = slots + 1 /\ failed' = failed + 1
           /\ killed \subseteq killed' /\ missed \subseteq missed'
           /\ co.job \in killed' \cup missed'
           /\ group' = [group EXCEPT ![co.job] = "live"]
           /\ \E r \in {"cleanup_unconfirmed", "torn"} : receipt' = [receipt EXCEPT ![co.job] = r]
  <1>1. co \in Coordinators /\ co.job \in Job
    BY DEF ShapeInv, Coordinators
  <1>2. [co EXCEPT !.at = "stop"] \in Coordinators
    BY <1>1 DEF Coordinators, Labels
  <1>3. /\ co.at = "start" /\ faults < Faults /\ slots' = slots + 1
        /\ group' = [group EXCEPT ![co.job] = "live"]
        /\ killed \subseteq killed' /\ missed \subseteq missed'
        /\ co.job \in killed' \cup missed'
        /\ Publish(co.job, "cleanup_unconfirmed", [co EXCEPT !.at = "stop"], 1)
        /\ UNCHANGED <<queue, active, ledger, main, reader, exceeded, readError, result>>
    BY DEF SpawnUnconfirmed, Kill, capture
  <1>4. faults + 1 <= Faults
    BY <1>3, Bounds DEF ShapeInv
  <1> DEFINE next == [co EXCEPT !.at = "stop"]
  <1> HIDE DEF next
  <1>5. /\ failed' = failed + 1
        /\ \/ receipt' = [receipt EXCEPT ![co.job] = "cleanup_unconfirmed"] /\ co' = next
           \/ receipt' = [receipt EXCEPT ![co.job] = "torn"] /\ co' = [next EXCEPT !.at = "stop"]
    <2>1. /\ "cleanup_unconfirmed" \in Verdicts /\ "cleanup_unconfirmed" # "completed"
          /\ next \in Coordinators
          /\ Publish(co.job, "cleanup_unconfirmed", next, 1) /\ 1 \in 0..1
      BY <1>2, <1>3 DEF Verdicts, next
    <2> QED
      BY <1>1, <1>4, <2>1, PublishFacts
  <1> QED
    BY <1>1, <1>3, <1>5 DEF Coordinators, next

\* A program without all its readers is cleaned up.
LEMMA SetupFailsFacts ==
    ASSUME ShapeInv, NEW n \in 0..(Streams - 1), SetupFails(n)
    PROVE  /\ co.at = "start" /\ co.job \in Job
           /\ UNCHANGED <<queue, active, ledger, exceeded, readError, receipt, failed, result>>
           /\ co'.at = "kill" /\ co'.job = co.job /\ co'.verdict = "spawn_error"
           /\ co'.stream = 1
              /\ co'.clean /\ ~co'.retired /\ co'.back = "admit" /\ co'.index = co.index
           /\ slots' = slots + 1 /\ UNCHANGED <<killed, missed>>
           /\ group' = [group EXCEPT ![co.job] = "live"] /\ main' = [main EXCEPT ![co.job] = "running"]
           /\ \A q \in Pipe : q[1] # co.job => reader'[q] = reader[q]
  <1>1. co \in Coordinators /\ co.job \in Job /\ "spawn_error" \in Verdicts
    BY DEF ShapeInv, Coordinators, Verdicts
  <1> DEFINE c == Cleaning(co.job, "spawn_error", "admit")
  <1>2. /\ c.at = "kill" /\ c.job = co.job /\ c.verdict = "spawn_error"
        /\ c.stream = 1 /\ c.clean /\ ~c.retired /\ c.back = "admit"
    BY <1>1, CleaningFacts
  <1>3. c.index = co.index
    BY <1>1 DEF Cleaning, Coordinators
  <1> HIDE DEF c
  <1>4. /\ co.at = "start" /\ co' = c /\ reader' = Readers(co.job, 1..n)
        /\ slots' = slots + 1 /\ UNCHANGED <<killed, missed>>
        /\ group' = [group EXCEPT ![co.job] = "live"] /\ main' = [main EXCEPT ![co.job] = "running"]
        /\ UNCHANGED <<queue, active, ledger, exceeded, readError, receipt, failed, result>>
    BY DEF SetupFails, receipts, c
  <1>5. \A q \in Pipe : q[1] # co.job => reader'[q] = reader[q]
    BY <1>4 DEF Readers
  <1> QED
    BY <1>1, <1>2, <1>3, <1>4, <1>5

\* A program with a verdict leaves the list.
LEMMA ScanFacts ==
    ASSUME ShapeInv, Distinct(active), co.index # 0, Scan
    PROVE  /\ co.at = "scan"
           /\ UNCHANGED <<queue, ledger, slots, group, main, reader, exceeded, readError,
                          receipt, failed, result>>
           /\ \/ /\ UNCHANGED <<active, killed, missed, faults>>
                 /\ co'.job = co.job /\ co'.stream = co.stream /\ co'.verdict = co.verdict
                 /\ co'.clean = co.clean /\ co'.retired = co.retired /\ co'.back = co.back
                 /\ \/ co'.at = "loop" /\ co'.index = co.index
                    \/ co'.at = "scan" /\ co'.index = co.index + 1
              \/ \E j \in ToSet(active) :
                   /\ active' \in Seq(Job) /\ Len(active') = Len(active) - 1
                   /\ ToSet(active') = ToSet(active) \ {j} /\ Distinct(active')
                   /\ killed \subseteq killed' /\ missed \subseteq missed'
                   /\ co'.at = "kill" /\ co'.job = j /\ co'.stream = 1 /\ co'.clean
                   /\ ~co'.retired /\ co'.back = "scan" /\ co'.index = co.index
                   /\ Good(co'.verdict) /\ (co'.verdict = "completed" => main[j] = "ok")
  <1>1. co \in Coordinators /\ active \in Seq(Job) /\ co.index \in Nat /\ Len(active) \in Nat
    BY DEF ShapeInv, Coordinators
  <1>2. /\ co.at = "scan"
        /\ UNCHANGED <<queue, ledger, slots, group, main, reader, exceeded, readError, receipt,
                       failed, result>>
        /\ \/ co' = [co EXCEPT !.at = "loop"] /\ UNCHANGED <<active, killed, missed, faults>>
           \/ co' = [co EXCEPT !.index = co.index + 1] /\ UNCHANGED <<active, killed, missed, faults>>
           \/ /\ co.index \in 1..Len(active) /\ Verdict(active[co.index]) # "none"
              /\ Reap(co.index, Verdict(active[co.index]), 0)
    BY <1>1 DEF Scan, os, capture, receipts
  <1>3. CASE co' = [co EXCEPT !.at = "loop"] /\ UNCHANGED <<active, killed, missed, faults>>
    BY <1>1, <1>2, <1>3 DEF Coordinators
  <1>4. CASE co' = [co EXCEPT !.index = co.index + 1] /\ UNCHANGED <<active, killed, missed, faults>>
    BY <1>1, <1>2, <1>4 DEF Coordinators
  <1>5. CASE /\ co.index \in 1..Len(active) /\ Verdict(active[co.index]) # "none"
             /\ Reap(co.index, Verdict(active[co.index]), 0)
    <2> DEFINE v == Verdict(active[co.index])
    <2>1. active[co.index] \in Job
      BY <1>1, <1>5
    <2>2. v \in Verdicts /\ Good(v) /\ (v = "completed" => main[active[co.index]] = "ok")
      BY <1>5, <2>1, VerdictFacts DEF Good
    <2>3. Reap(co.index, v, 0)
      BY <1>5
    <2> HIDE DEF v
    <2>4. /\ active[co.index] \in ToSet(active)
          /\ active' \in Seq(Job) /\ Len(active') = Len(active) - 1
          /\ ToSet(active') = ToSet(active) \ {active[co.index]} /\ Distinct(active')
          /\ co' = Cleaning(active[co.index], v, "scan")
          /\ co'.at = "kill" /\ co'.job = active[co.index]
          /\ co'.verdict = v /\ co'.stream = 1 /\ co'.clean /\ ~co'.retired
          /\ co'.back = "scan"
          /\ killed \subseteq killed' /\ missed \subseteq missed'
      BY <1>5, <2>2, <2>3, ReapFacts
    <2>5. co'.index = co.index
      BY <1>1, <2>4 DEF Cleaning, Coordinators
    <2> QED
      BY <1>2, <2>2, <2>4, <2>5
  <1> QED
    BY <1>2, <1>3, <1>4, <1>5

\* A program that cannot be waited for counts as failed.
LEMMA WaitFailsFacts ==
    ASSUME ShapeInv, Distinct(active), co.index # 0, WaitFails
    PROVE  /\ co.at = "scan"
           /\ UNCHANGED <<queue, ledger, slots, group, main, reader, exceeded, readError,
                          receipt, failed, result>>
           /\ \E j \in ToSet(active) :
                /\ active' \in Seq(Job) /\ Len(active') = Len(active) - 1
                /\ ToSet(active') = ToSet(active) \ {j} /\ Distinct(active')
                /\ killed \subseteq killed' /\ missed \subseteq missed'
                /\ co'.at = "kill" /\ co'.job = j /\ co'.stream = 1 /\ co'.clean
                /\ ~co'.retired /\ co'.back = "scan" /\ co'.index = co.index
                /\ Good(co'.verdict) /\ (co'.verdict = "completed" => main[j] = "ok")
  <1>1. co \in Coordinators /\ active \in Seq(Job) /\ co.index \in Nat /\ Len(active) \in Nat
        /\ "worker_exit" \in Verdicts /\ Good("worker_exit")
    BY DEF ShapeInv, Coordinators, Verdicts, Good
  <1>2. /\ co.at = "scan"
        /\ UNCHANGED <<queue, ledger, slots, group, main, reader, exceeded, readError, receipt,
                       failed, result>>
        /\ co.index \in 1..Len(active) /\ Reap(co.index, "worker_exit", 1)
    BY <1>1 DEF WaitFails, os, capture, receipts
  <1>3. /\ active[co.index] \in ToSet(active)
        /\ active' \in Seq(Job) /\ Len(active') = Len(active) - 1
        /\ ToSet(active') = ToSet(active) \ {active[co.index]} /\ Distinct(active')
        /\ co' = Cleaning(active[co.index], "worker_exit", "scan")
        /\ co'.at = "kill" /\ co'.job = active[co.index]
        /\ co'.verdict = "worker_exit" /\ co'.stream = 1 /\ co'.clean /\ ~co'.retired
        /\ co'.back = "scan"
        /\ killed \subseteq killed' /\ missed \subseteq missed'
    BY <1>1, <1>2, ReapFacts
  <1>4. co'.index = co.index
    BY <1>1, <1>3 DEF Cleaning, Coordinators
  <1> QED
    BY <1>1, <1>2, <1>3, <1>4

\* The group is known to be empty.
LEMMA GroupRetiredFacts ==
    ASSUME ShapeInv, GroupRetired
    PROVE  /\ co.at = "cleanup" /\ group[co.job] = "empty" /\ co'.at = "finish" /\ co'.retired
           /\ UNCHANGED <<queue, active, killed, missed, ledger, group, main, exceeded, readError,
                          receipt, failed, result>>
           /\ co'.job = co.job /\ co'.stream = co.stream /\ co'.index = co.index
           /\ co'.verdict = co.verdict /\ co'.clean = co.clean /\ co'.back = co.back
           /\ slots' = slots - 1
           /\ \A q \in Pipe : reader'[q].at = reader[q].at
  <1>1. co \in Coordinators
    BY DEF ShapeInv
  <1>2. \A q \in Pipe : reader'[q].at = reader[q].at
    BY DEF GroupRetired, ShapeInv
  <1> QED
    BY <1>1, <1>2 DEF GroupRetired, Coordinators, os, receipts

\* The group may not be empty: the cleanup failed.
LEMMA GroupUnconfirmedFacts ==
    ASSUME ShapeInv, GroupUnconfirmed
    PROVE  /\ co.at = "cleanup" /\ co'.at = "finish" /\ ~co'.clean
           /\ UNCHANGED <<queue, active, killed, missed, ledger, slots, group, main, reader, exceeded,
                          readError, receipt, failed, result>>
           /\ co'.job = co.job /\ co'.stream = co.stream /\ co'.index = co.index
           /\ co'.verdict = co.verdict /\ co'.retired = co.retired /\ co'.back = co.back
  <1>1. co \in Coordinators
    BY DEF ShapeInv
  <1> QED
    BY <1>1 DEF GroupUnconfirmed,  Coordinators, os, capture, receipts

\* A look at the readers moves none of them.
LEMMA FinishReaderFacts ==
    ASSUME ShapeInv, FinishReader
    PROVE  /\ co.at = "finish"
           /\ UNCHANGED <<queue, active, killed, missed, ledger, slots, group, main, exceeded,
                          receipt, failed, result>>
           /\ co'.job = co.job /\ co'.index = co.index /\ co'.verdict = co.verdict
           /\ co'.retired = co.retired /\ co'.back = co.back
           /\ readError' \in {readError, readError \cup {co.job}}
           /\ \A q \in Pipe : reader'[q].at = reader[q].at
           /\ \/ /\ co'.at = "settle" /\ co.stream > Streams
                 /\ co'.stream = co.stream /\ co'.clean = co.clean
              \/ /\ co'.at = "finish" /\ co'.stream = co.stream /\ co'.clean = co.clean
              \/ /\ co'.at = "finish" /\ co'.stream = co.stream + 1
                 /\ \/ ~co'.clean
                    \/ co'.clean = co.clean /\ Finished(<<co.job, co.stream>>)
  <1>1. co \in Coordinators
    BY DEF ShapeInv
  <1>2. \A q \in Pipe : reader'[q].at = reader[q].at
    <2>1. reader \in [Pipe -> [at : {"none", "loop", "empty", "done"},
                               stop : BOOLEAN, retired : BOOLEAN]]
      BY DEF ShapeInv
    <2>2. \A p, q \in Pipe : [reader EXCEPT ![p].stop = TRUE][q].at = reader[q].at
      BY <2>1
    <2>3. CASE reader' = reader
      BY <2>3
    <2>4. CASE reader' = [reader EXCEPT ![<<co.job, co.stream>>].stop = TRUE]
      BY <2>1, <2>4
    <2>5. CASE reader' = [q \in Pipe |-> IF q = <<co.job, co.stream + 1>> /\ co.retired
                            THEN [reader[q] EXCEPT !.retired = TRUE] ELSE reader[q]]
      BY <2>1, <2>5
    <2> QED
      BY <2>3, <2>4, <2>5, FinishFacts
  <1>3. CASE co' = [co EXCEPT !.at = "settle"] /\ co.stream > Streams
    BY <1>1, <1>2, <1>3, FinishFacts DEF Coordinators
  <1>4. CASE co' = [co EXCEPT !.forced = TRUE]
    BY <1>1, <1>2, <1>4, FinishFacts DEF Coordinators
  <1>5. CASE co' = [co EXCEPT !.stream = co.stream + 1, !.forced = FALSE, !.clean = FALSE]
    BY <1>1, <1>2, <1>5, FinishFacts DEF Coordinators
  <1>6. CASE /\ co' = [co EXCEPT !.stream = co.stream + 1, !.forced = FALSE]
             /\ Finished(<<co.job, co.stream>>)
    BY <1>1, <1>2, <1>6, FinishFacts DEF Coordinators
  <1> QED
    BY <1>3, <1>4, <1>5, <1>6, FinishFacts

\* A confirmed cleanup returns the reservation; the receipt is published.
LEMMA SettleFacts ==
    ASSUME ShapeInv, Settle
    PROVE  /\ co.at = "settle" /\ co.back # "drain" /\ co.job \in Job
           /\ UNCHANGED <<queue, active, killed, missed, slots, group, main, reader, exceeded,
                          readError, result>>
           /\ co'.job = co.job /\ co'.stream = co.stream /\ co'.index = co.index
           /\ co'.verdict = co.verdict /\ co'.clean = co.clean /\ co'.retired = co.retired
           /\ co'.back = co.back
           /\ ledger' = IF co.clean THEN ledger - 1 ELSE ledger
           /\ failed' = IF FinalVerdict = "completed" THEN failed ELSE failed + 1
           /\ \/ /\ receipt' = [receipt EXCEPT ![co.job] = FinalVerdict]
                 /\ co'.at = IF co.clean THEN co.back ELSE "stop"
              \/ receipt' = [receipt EXCEPT ![co.job] = "torn"] /\ co'.at = "stop"
           /\ co.back \in {"admit", "scan"}
  <1> DEFINE next == [co EXCEPT !.at = IF co.clean THEN co.back ELSE "stop"]
  <1>1. co \in Coordinators /\ co.job \in Job /\ faults + 0 <= Faults /\ FinalVerdict \in Verdicts
    BY Bounds, FinalVerdictFacts, SMTT(30) DEF ShapeInv, Coordinators
  <1>2. next \in Coordinators
    BY <1>1 DEF Coordinators, Labels
  <1>3. /\ co.at = "settle" /\ co.back # "drain"
        /\ ledger' = (IF co.clean THEN ledger - 1 ELSE ledger)
        /\ Publish(co.job, FinalVerdict, next, 0)
        /\ UNCHANGED <<queue, active, killed, missed, slots, group, main, reader, exceeded, readError,
                       result>>
    BY DEF Settle, os, capture
  <1>4. /\ next.at = (IF co.clean THEN co.back ELSE "stop")
        /\ next.job = co.job /\ next.stream = co.stream /\ next.index = co.index
        /\ next.verdict = co.verdict /\ next.clean = co.clean /\ next.retired = co.retired
        /\ next.back = co.back
    BY <1>1 DEF Coordinators
  <1> HIDE DEF next
  <1>5. /\ failed' = (IF FinalVerdict = "completed" THEN failed ELSE failed + 1)
        /\ \/ receipt' = [receipt EXCEPT ![co.job] = FinalVerdict] /\ co' = next
           \/ /\ receipt' = [receipt EXCEPT ![co.job] = "torn"]
              /\ co' = [next EXCEPT !.at = "stop"]
    BY <1>1, <1>2, <1>3, PublishFacts
  <1>6. /\ [next EXCEPT !.at = "stop"].at = "stop"
        /\ [next EXCEPT !.at = "stop"].job = next.job
        /\ [next EXCEPT !.at = "stop"].stream = next.stream
        /\ [next EXCEPT !.at = "stop"].index = next.index
        /\ [next EXCEPT !.at = "stop"].verdict = next.verdict
        /\ [next EXCEPT !.at = "stop"].clean = next.clean
        /\ [next EXCEPT !.at = "stop"].retired = next.retired
        /\ [next EXCEPT !.at = "stop"].back = next.back
    BY <1>2 DEF Coordinators
  <1>7. co.back \in {"admit", "scan"}
    BY <1>1, <1>3 DEF Coordinators
  <1> QED
    BY <1>1, <1>3, <1>4, <1>5, <1>6, <1>7

\* All programs are killed.
LEMMA StopFacts ==
    ASSUME ShapeInv, Stop
    PROVE  /\ co.at = "stop" /\ co'.at = "drain"
           /\ UNCHANGED <<queue, active, ledger, slots, group, main, reader, exceeded,
                          readError, receipt, failed, result>>
           /\ co'.job = co.job /\ co'.stream = co.stream /\ co'.index = co.index
           /\ co'.verdict = co.verdict /\ co'.clean = co.clean /\ co'.retired = co.retired
           /\ co'.back = co.back
           /\ killed \subseteq killed' /\ missed \subseteq missed'
           /\ ToSet(active) \subseteq killed' \cup missed'
  <1>1. co \in Coordinators
    BY DEF ShapeInv
  <1> QED
    BY <1>1, KillAllFacts DEF Stop,  Coordinators, os, capture, receipts

\* The next program is cleaned up, or the command ends.
LEMMA DrainFacts ==
    ASSUME ShapeInv, Drain
    PROVE  /\ co.at = "drain"
           /\ UNCHANGED <<queue, killed, missed, ledger, slots, group, main, reader, exceeded,
                          readError, receipt, failed>>
           /\ \/ /\ active = <<>> /\ active' = active /\ co'.at = "end" /\ result' = "error"
                 /\ co'.job = co.job /\ co'.stream = co.stream /\ co'.index = co.index
                 /\ co'.verdict = co.verdict
                 /\ co'.clean = co.clean /\ co'.retired = co.retired /\ co'.back = co.back
              \/ /\ active # <<>> /\ active' = Tail(active) /\ result' = result
                 /\ co'.at = "kill" /\ co'.job = Head(active) /\ co'.verdict = "none"
                 /\ co'.stream = 1
                 /\ co'.clean /\ ~co'.retired /\ co'.back = "drain" /\ co'.index = co.index
  <1>1. co \in Coordinators /\ active \in Seq(Job) /\ "none" \in Verdicts
    BY DEF ShapeInv, Verdicts
  <1>2. /\ co.at = "drain"
        /\ UNCHANGED <<queue, killed, missed, ledger, slots, group, main, reader, exceeded, readError,
                       receipt, failed>>
    BY DEF Drain, os, capture, receipts
  <1>3. CASE active = <<>>
    BY <1>1, <1>2, <1>3 DEF Drain, Coordinators
  <1>4. CASE active # <<>>
    <2> DEFINE c == Cleaning(Head(active), "none", "drain")
    <2>1. /\ c \in Coordinators /\ c.at = "kill" /\ c.job = Head(active) /\ c.verdict = "none"
          /\ c.stream = 1 /\ c.clean /\ ~c.retired /\ c.back = "drain"
      BY <1>1, <1>4, CleaningFacts
    <2>2. c.index = co.index
      BY <1>1 DEF Cleaning, Coordinators
    <2>3. active' = Tail(active) /\ result' = result /\ co' = [c EXCEPT !.by = co.by]
      BY <1>4 DEF Drain
    <2> HIDE DEF c
    <2> QED
      BY <1>2, <1>4, <2>1, <2>2, <2>3 DEF Coordinators
  <1> QED
    BY <1>3, <1>4

\* A confirmed cleanup returns the reservation.
LEMMA DrainSettledFacts ==
    ASSUME ShapeInv, DrainSettled
    PROVE  /\ co.at = "settle" /\ co.back = "drain" /\ co'.at = "drain"
           /\ UNCHANGED <<queue, active, killed, missed, slots, group, main, reader, exceeded,
                          readError, receipt, failed, result>>
           /\ co'.job = co.job /\ co'.stream = co.stream /\ co'.index = co.index
           /\ co'.verdict = co.verdict /\ co'.clean = co.clean /\ co'.retired = co.retired
           /\ co'.back = co.back
           /\ ledger' = IF co.clean THEN ledger - 1 ELSE ledger
  <1>1. co \in Coordinators
    BY DEF ShapeInv
  <1> QED
    BY <1>1 DEF DrainSettled,  Coordinators, os, capture, receipts

-----------------------------------------------------------------------------
(* Cleanups and kills *)

\* What a cleanup has confirmed stays confirmed.
LEMMA CleanStep ==
    ASSUME ShapeInv, PlaceInv, CleanInv, [Next]_vars
    PROVE  CleanInv'
  <1> USE DEF CleanInv
  <1>a. /\ co \in Coordinators /\ co.job \in Job /\ co.stream \in Nat /\ co.index \in Nat
        /\ Streams \in Nat
        /\ Distinct(queue) /\ Distinct(active) /\ co.index # 0
    BY Bounds DEF ShapeInv, Coordinators, PlaceInv
  <1>b. \A s \in 1..Streams : <<co.job, s>> \in Pipe
    BY <1>a DEF Pipe
  <1>1. CASE Loop
    BY <1>1, LoopFacts, <1>a
  <1>2. CASE QueueTimeout
    BY <1>2, QueueTimeoutFacts, <1>a
  <1>3. CASE Reserve
    BY <1>3, ReserveFacts, <1>a
  <1>4. CASE AdmitNone
    BY <1>4, AdmitNoneFacts, <1>a
  <1>5. CASE Started
    BY <1>5, StartedFacts, <1>a
  <1>6. CASE SpawnFails
    BY <1>6, SpawnFailsFacts, <1>a
  <1>7. CASE SpawnUnconfirmed
    BY <1>7, SpawnUnconfirmedFacts, <1>a
  <1>8. ASSUME NEW n \in 0..(Streams - 1), SetupFails(n) PROVE CleanInv'
    BY <1>8, SetupFailsFacts, <1>a
  <1>9. CASE Scan
    BY <1>9, ScanFacts, <1>a
  <1>10. CASE WaitFails
    BY <1>10, WaitFailsFacts, <1>a
  <1>11. CASE GroupRetired
    BY <1>11, GroupRetiredFacts, <1>a
  <1>12. CASE GroupUnconfirmed
    BY <1>12, GroupUnconfirmedFacts, <1>a
  <1>13. CASE FinishReader
    <2>1. \A s \in 1..Streams : Finished(<<co.job, s>>) => Finished(<<co.job, s>>)'
      BY <1>13, <1>b, FinishReaderFacts DEF Finished
    <2> QED
      BY <1>13, <1>a, <2>1, FinishReaderFacts
  <1>14. CASE Settle
    BY <1>14, SettleFacts, <1>a
  <1>15. CASE Stop
    BY <1>15, StopFacts, <1>a
  <1>16. CASE Drain
    BY <1>16, DrainFacts, <1>a
  <1>17. CASE DrainSettled
    BY <1>17, DrainSettledFacts, <1>a
  <1>18. CASE Environment
    <2>1. \A s \in 1..Streams : Finished(<<co.job, s>>) => Finished(<<co.job, s>>)'
      BY <1>18, <1>b, EnvironmentFacts DEF Finished
    <2>2. UNCHANGED co /\ (group[co.job] = "empty" => group'[co.job] = "empty")
      BY <1>18, <1>a, EnvironmentFacts
    <2> QED
      BY <2>1, <2>2
  <1>19. CASE UNCHANGED vars
    BY <1>19 DEF vars, Finished
  <1>20. CASE CleanupKill
    BY <1>20, CleanupKillFacts, <1>a
  <1> QED
    BY <1>1, <1>2, <1>3, <1>4, <1>5, <1>6, <1>7, <1>8, <1>9, <1>10, <1>11, <1>12, <1>13,
       <1>14, <1>15, <1>16, <1>17, <1>18, <1>19, <1>20
       DEF Next, Coordinate, Environment

\* Nothing is left alive that was not killed when the batch is given up.
LEMMA KillStep ==
    ASSUME ShapeInv, PlaceInv, CleanInv, KillInv, [Next]_vars
    PROVE  KillInv'
  <1> USE DEF KillInv, Draining, Cleans
  <1>a. /\ co \in Coordinators /\ co.job \in Job /\ co.at \in Labels
        /\ Distinct(queue) /\ Distinct(active) /\ co.index # 0
        /\ active \in Seq(Job) /\ queue \in Seq(Job)
        /\ group \in [Job -> {"none", "live", "empty"}]
    BY DEF ShapeInv, Coordinators, PlaceInv, CleanInv
  <1>b. active = <<>> => ToSet(active) = {}
    BY <1>a, MembersOf
  <1>1. CASE Loop
    BY <1>1, LoopFacts, <1>a, <1>b
  <1>2. CASE QueueTimeout
    BY <1>2, QueueTimeoutFacts, <1>a, <1>b
  <1>3. CASE Reserve
    BY <1>3, ReserveFacts, <1>a, <1>b
  <1>4. CASE AdmitNone
    BY <1>4, AdmitNoneFacts, <1>a, <1>b
  <1>5. CASE Started
    <2>1. co.job \notin ToSet(active)
      BY <1>5, StartedFacts DEF PlaceInv, Fresh
    <2>2. ToSet(active') = ToSet(active) \cup {co.job}
      <3>1. active' = Append(active, co.job)
        BY <1>5, <1>a, StartedFacts
      <3> QED
        BY <1>a, <2>1, <3>1, AppendOne
    <2> QED
      BY <1>5, <1>a, <2>2, StartedFacts
  <1>6. CASE SpawnFails
    BY <1>6, SpawnFailsFacts, <1>a, <1>b
  <1>7. CASE SpawnUnconfirmed
    BY <1>7, SpawnUnconfirmedFacts, <1>a, <1>b
  <1>8. ASSUME NEW n \in 0..(Streams - 1), SetupFails(n) PROVE KillInv'
    BY <1>8, SetupFailsFacts, <1>a, <1>b
  <1>9. CASE Scan
    BY <1>9, ScanFacts, <1>a, <1>b
  <1>10. CASE WaitFails
    BY <1>10, WaitFailsFacts, <1>a, <1>b
  <1>11. CASE GroupRetired
    BY <1>11, GroupRetiredFacts, <1>a, <1>b
  <1>12. CASE GroupUnconfirmed
    BY <1>12, GroupUnconfirmedFacts, <1>a, <1>b
  <1>13. CASE FinishReader
    BY <1>13, FinishReaderFacts, <1>a, <1>b
  <1>14. CASE Settle
    BY <1>14, SettleFacts, <1>a, <1>b
  <1>15. CASE Stop
    BY <1>15, StopFacts, <1>a, <1>b
  <1>16. CASE Drain
    <2>1. active # <<>> => ToSet(active) = {Head(active)} \cup ToSet(Tail(active))
      BY <1>a, TakeHead
    <2>2. \A j \in Job : group[j] = "live" => j \in killed \cup missed
      BY <1>16, DrainFacts
    <2> QED
      BY <1>16, <2>2, DrainFacts
  <1>17. CASE DrainSettled
    BY <1>17, DrainSettledFacts, <1>a, <1>b
  <1>18. CASE Environment
    <2>1. UNCHANGED <<co, active, killed, missed, result>>
      BY <1>18, EnvironmentFacts
    <2>2. \A j \in Job : group'[j] = "live" => group[j] = "live"
      BY <1>18, EnvironmentFacts
    <2> QED
      BY <2>1, <2>2
  <1>19. CASE UNCHANGED vars
    BY <1>19 DEF vars
  <1>20. CASE CleanupKill
    BY <1>20, CleanupKillFacts, <1>a, <1>b
  <1> QED
    BY <1>1, <1>2, <1>3, <1>4, <1>5, <1>6, <1>7, <1>8, <1>9, <1>10, <1>11, <1>12, <1>13,
       <1>14, <1>15, <1>16, <1>17, <1>18, <1>19, <1>20
       DEF Next, Coordinate, Environment

-----------------------------------------------------------------------------
(* The place of a job *)

\* Jobs move from place to place and are never in two.
LEMMA PlaceStep ==
    ASSUME ShapeInv, CleanInv, PlaceInv, [Next]_vars
    PROVE  PlaceInv'
  <1> USE DEF PlaceInv, Held, Cleans
  <1>a. /\ co \in Coordinators /\ co.job \in Job /\ co.at \in Labels /\ co.index # 0
        /\ Distinct(queue) /\ Distinct(active)
        /\ active \in Seq(Job) /\ queue \in Seq(Job)
        /\ ToSet(active) \subseteq Job /\ ToSet(queue) \subseteq Job
        /\ group \in [Job -> {"none", "live", "empty"}]
        /\ main \in [Job -> {"none", "running", "ok", "bad"}]
        /\ receipt \in [Job -> Verdicts]
    BY MembersOf DEF ShapeInv, Coordinators, CleanInv
  <1>b. queue # <<>> => /\ Head(queue) \in Job /\ Head(queue) \in ToSet(queue)
                        /\ Head(queue) \notin ToSet(Tail(queue))
                        /\ ToSet(queue) = {Head(queue)} \cup ToSet(Tail(queue))
                        /\ Distinct(Tail(queue))
    BY <1>a, TakeHead
  <1>c. \A j \in Job : \A s \in 1..Streams : <<j, s>> \in Pipe
    BY DEF Pipe
  <1>d. ToSet(queue) \cap ToSet(active) = {}
    BY DEF Fresh
  <1>1. CASE Loop
    <2>1. \A j \in Job : Fresh(j)' <=> Fresh(j)
      BY <1>1, <1>c, LoopFacts DEF Fresh
    <2> QED
      BY <1>1, <1>a, <2>1, LoopFacts
  <1>2. CASE QueueTimeout
    <2>1. \A j \in Job : j # Head(queue) /\ Fresh(j) => Fresh(j)'
      BY <1>2, <1>a, QueueTimeoutFacts DEF Fresh
    <2>2. \A j \in Job : j # Head(queue) => receipt'[j] = receipt[j]
      BY <1>2, <1>a, QueueTimeoutFacts
    <2>3. \A j \in ToSet(active) : j # Head(queue)
      BY <1>2, <1>b, <1>d, QueueTimeoutFacts
    <2>4. /\ queue # <<>> /\ queue' = Tail(queue) /\ UNCHANGED <<active, group>> /\ co.at = "admit"
          /\ co'.at \in {"admit", "stop"}
      BY <1>2, QueueTimeoutFacts
    <2>5. ToSet(queue') \subseteq ToSet(queue) /\ Head(queue) \notin ToSet(queue')
      BY <2>4, <1>b
    <2> QED
      BY <1>a, <1>b, <2>1, <2>2, <2>3, <2>4, <2>5
  <1>3. CASE Reserve
    <2>1. \A j \in Job : Fresh(j)' <=> Fresh(j)
      BY <1>3, ReserveFacts DEF Fresh
    <2>2. /\ queue # <<>> /\ queue' = Tail(queue) /\ UNCHANGED <<active, group, receipt>>
          /\ co'.at = "stop" \/ (co'.at = "start" /\ co'.job = Head(queue))
      BY <1>3, ReserveFacts
    <2>3. ToSet(queue') \subseteq ToSet(queue) /\ Head(queue) \notin ToSet(queue')
      BY <2>2, <1>b
    <2> QED
      BY <1>a, <1>b, <2>1, <2>2, <2>3
  <1>4. CASE AdmitNone
    <2>1. \A j \in Job : Fresh(j)' <=> Fresh(j)
      BY <1>4, <1>c, AdmitNoneFacts DEF Fresh
    <2> QED
      BY <1>4, <1>a, <2>1, AdmitNoneFacts
  <1>5. CASE Started
    <2>1. co.at = "start" /\ co.job \notin ToSet(active) /\ co.job \notin ToSet(queue)
      BY <1>5, StartedFacts DEF Fresh
    <2>2. active' = Append(active, co.job)
      BY <1>5, StartedFacts
    <2>3. ToSet(active') = ToSet(active) \cup {co.job} /\ Distinct(active')
      BY <1>a, <2>1, <2>2, AppendOne
    <2>4. \A j \in Job : j # co.job => group'[j] = group[j] /\ (Fresh(j) => Fresh(j)')
      <3>1. /\ group' = [group EXCEPT ![co.job] = "live"]
            /\ main' = [main EXCEPT ![co.job] = "running"]
            /\ UNCHANGED receipt
        BY <1>5, <1>a, StartedFacts
      <3>2. \A j \in Job : j # co.job => \A s \in 1..Streams : reader'[<<j, s>>] = reader[<<j, s>>]
        BY <1>5, <1>a, <1>c, StartedFacts
      <3> QED
        BY <1>a, <3>1, <3>2 DEF Fresh
    <2>5. group'[co.job] = "live" /\ receipt'[co.job] = "none"
      BY <1>5, <1>a, <2>1, StartedFacts DEF Fresh
    <2>6. UNCHANGED <<queue, receipt>> /\ co'.at = "admit"
      BY <1>5, StartedFacts
    <2> QED
      BY <1>a, <2>1, <2>3, <2>4, <2>5, <2>6
  <1>6. CASE SpawnFails
    <2>1. co.at = "start" /\ co.job \notin ToSet(active) /\ co.job \notin ToSet(queue)
      BY <1>6, SpawnFailsFacts DEF Fresh
    <2>2. \A j \in Job : j # co.job => receipt'[j] = receipt[j] /\ (Fresh(j) => Fresh(j)')
      BY <1>6, <1>a, SpawnFailsFacts DEF Fresh
    <2>3. UNCHANGED <<queue, active, group>> /\ co'.at \in {"admit", "stop"}
      BY <1>6, SpawnFailsFacts
    <2> QED
      BY <1>a, <2>1, <2>2, <2>3
  <1>7. CASE SpawnUnconfirmed
    <2>1. co.at = "start" /\ co.job \notin ToSet(active) /\ co.job \notin ToSet(queue)
      BY <1>7, SpawnUnconfirmedFacts DEF Fresh
    <2>2. \A j \in Job : j # co.job => /\ receipt'[j] = receipt[j] /\ group'[j] = group[j]
                                       /\ Fresh(j) => Fresh(j)'
      BY <1>7, <1>a, SpawnUnconfirmedFacts DEF Fresh
    <2>3. UNCHANGED <<queue, active>> /\ co'.at = "stop"
      BY <1>7, SpawnUnconfirmedFacts
    <2> QED
      BY <1>a, <2>1, <2>2, <2>3
  <1>8. ASSUME NEW n \in 0..(Streams - 1), SetupFails(n) PROVE PlaceInv'
    <2>1. co.at = "start" /\ co.job \notin ToSet(active) /\ co.job \notin ToSet(queue)
      BY <1>8, SetupFailsFacts DEF Fresh
    <2>2. \A j \in Job : j # co.job => group'[j] = group[j] /\ (Fresh(j) => Fresh(j)')
      BY <1>8, <1>a, <1>c, SetupFailsFacts, SMTT(30) DEF Fresh
    <2>3. group'[co.job] = "live" /\ receipt'[co.job] = "none"
      BY <1>8, <1>a, <2>1, SetupFailsFacts DEF Fresh
    <2>4. UNCHANGED <<queue, active, receipt>> /\ co'.at = "kill" /\ co'.job = co.job
      BY <1>8, SetupFailsFacts
    <2> QED
      BY <1>a, <2>1, <2>2, <2>3, <2>4
  <1>9. CASE Scan
    <2>1. UNCHANGED <<queue, group, main, reader, receipt>> /\ co.at = "scan"
      BY <1>9, <1>a, ScanFacts
    <2>2. \A j \in Job : Fresh(j)' <=> Fresh(j)
      BY <2>1 DEF Fresh
    <2>3. \/ UNCHANGED active /\ co'.at \in {"loop", "scan"}
          \/ \E j \in ToSet(active) :
               /\ ToSet(active') = ToSet(active) \ {j} /\ Distinct(active')
               /\ co'.at = "kill" /\ co'.job = j
      BY <1>9, <1>a, ScanFacts
    <2> QED
      BY <1>a, <2>1, <2>2, <2>3
  <1>10. CASE WaitFails
    <2>1. UNCHANGED <<queue, group, main, reader, receipt>> /\ co.at = "scan"
      BY <1>10, <1>a, WaitFailsFacts
    <2>2. \A j \in Job : Fresh(j)' <=> Fresh(j)
      BY <2>1 DEF Fresh
    <2>3. \/ UNCHANGED active /\ co'.at \in {"loop", "scan"}
          \/ \E j \in ToSet(active) :
               /\ ToSet(active') = ToSet(active) \ {j} /\ Distinct(active')
               /\ co'.at = "kill" /\ co'.job = j
      BY <1>10, <1>a, WaitFailsFacts
    <2> QED
      BY <1>a, <2>1, <2>2, <2>3
  <1>11. CASE GroupRetired
    <2>1. \A j \in Job : Fresh(j)' <=> Fresh(j)
      BY <1>11, <1>c, GroupRetiredFacts DEF Fresh
    <2> QED
      BY <1>11, <1>a, <2>1, GroupRetiredFacts
  <1>12. CASE GroupUnconfirmed
    <2>1. \A j \in Job : Fresh(j)' <=> Fresh(j)
      BY <1>12, <1>c, GroupUnconfirmedFacts DEF Fresh
    <2> QED
      BY <1>12, <1>a, <2>1, GroupUnconfirmedFacts
  <1>13. CASE FinishReader
    <2>1. \A j \in Job : Fresh(j)' <=> Fresh(j)
      BY <1>13, <1>c, FinishReaderFacts DEF Fresh
    <2> QED
      BY <1>13, <1>a, <2>1, FinishReaderFacts
  <1>14. CASE Settle
    <2>1. co.at = "settle" /\ co.job \notin ToSet(active) /\ co.job \notin ToSet(queue)
      BY <1>14, SettleFacts DEF Fresh
    <2>2. \A j \in Job : j # co.job => receipt'[j] = receipt[j] /\ (Fresh(j) => Fresh(j)')
      BY <1>14, <1>a, SettleFacts DEF Fresh
    <2>3. UNCHANGED <<queue, active, group>> /\ co'.at \in {"admit", "scan", "stop"}
      BY <1>14, SettleFacts
    <2> QED
      BY <1>a, <2>1, <2>2, <2>3
  <1>15. CASE Stop
    <2>1. \A j \in Job : Fresh(j)' <=> Fresh(j)
      BY <1>15, <1>c, StopFacts DEF Fresh
    <2> QED
      BY <1>15, <1>a, <2>1, StopFacts
  <1>16. CASE Drain
    <2>1. \A j \in Job : Fresh(j)' <=> Fresh(j)
      BY <1>16, DrainFacts DEF Fresh
    <2>2. active # <<>> => /\ Head(active) \in ToSet(active) /\ Head(active) \notin ToSet(Tail(active))
                           /\ ToSet(active) = {Head(active)} \cup ToSet(Tail(active))
                           /\ Distinct(Tail(active))
      BY <1>a, TakeHead
    <2>3. /\ UNCHANGED <<queue, group, receipt>>
          /\ \/ active' = active /\ co'.at = "end"
             \/ /\ active # <<>> /\ active' = Tail(active) /\ co'.at = "kill"
                /\ co'.job = Head(active)
      BY <1>16, DrainFacts
    <2> QED
      BY <1>a, <2>1, <2>2, <2>3
  <1>17. CASE DrainSettled
    <2>1. \A j \in Job : Fresh(j)' <=> Fresh(j)
      BY <1>17, <1>c, DrainSettledFacts DEF Fresh
    <2> QED
      BY <1>17, <1>a, <2>1, DrainSettledFacts
  <1>18. CASE Environment
    <2>1. \A j \in Job : Fresh(j) => Fresh(j)'
      BY <1>18, <1>a, <1>c, EnvironmentFacts DEF Fresh, Finished
    <2>2. \A j \in Job : group[j] # "none" => group'[j] # "none"
      BY <1>18, EnvironmentFacts
    <2>3. UNCHANGED <<co, queue, active, receipt>>
      BY <1>18, EnvironmentFacts
    <2> QED
      BY <1>a, <2>1, <2>2, <2>3
  <1>19. CASE UNCHANGED vars
    <2>1. \A j \in Job : Fresh(j)' <=> Fresh(j)
      BY <1>19 DEF Fresh, vars
    <2>2. UNCHANGED <<co, queue, active, group, receipt>>
      BY <1>19 DEF vars
    <2> QED
      BY <1>a, <2>1, <2>2
  <1>20. CASE CleanupKill
    <2>1. \A j \in Job : Fresh(j)' <=> Fresh(j)
      BY <1>20, <1>c, CleanupKillFacts DEF Fresh
    <2> QED
      BY <1>20, <1>a, <2>1, CleanupKillFacts
  <1> QED
    BY <1>1, <1>2, <1>3, <1>4, <1>5, <1>6, <1>7, <1>8, <1>9, <1>10, <1>11, <1>12, <1>13,
       <1>14, <1>15, <1>16, <1>17, <1>18, <1>19, <1>20
       DEF Next, Coordinate, Environment

-----------------------------------------------------------------------------
(* What lives has no receipt that says it is over *)

\* A verdict is only published of what was never started or is known to be gone.
LEMMA OverStep ==
    ASSUME ShapeInv, PlaceInv, CleanInv, OverInv, [Next]_vars
    PROVE  OverInv'
  <1> USE DEF OverInv, Good
  <1>a. /\ co \in Coordinators /\ co.job \in Job /\ co.index # 0
        /\ Distinct(queue) /\ Distinct(active)
        /\ active \in Seq(Job) /\ queue \in Seq(Job)
        /\ group \in [Job -> {"none", "live", "empty"}] /\ receipt \in [Job -> Verdicts]
    BY DEF ShapeInv, Coordinators, PlaceInv, CleanInv
  <1>1. CASE UNCHANGED <<group, receipt>>
    BY <1>1
  <1>2. CASE QueueTimeout
    <2>1. Head(queue) \in Job /\ Fresh(Head(queue))
      <3>1. queue # <<>>
        BY <1>2, <1>a, QueueTimeoutFacts
      <3>2. Head(queue) \in Job /\ Head(queue) \in ToSet(queue)
        BY <1>a, <3>1, TakeHead
      <3> QED
        BY <3>2 DEF PlaceInv
    <2>2. group' = group /\ \A j \in Job : j # Head(queue) => receipt'[j] = receipt[j]
      BY <1>2, <1>a, QueueTimeoutFacts
    <2> QED
      BY <2>1, <2>2 DEF Fresh
  <1>3. CASE Started
    <2>1. receipt[co.job] = "none"
      BY <1>3, <1>a, StartedFacts DEF PlaceInv, Fresh
    <2> QED
      BY <1>3, <1>a, <2>1, StartedFacts
  <1>4. CASE SpawnFails
    <2>1. group[co.job] = "none"
      BY <1>4, SpawnFailsFacts DEF PlaceInv, Fresh
    <2>2. group' = group /\ \A j \in Job : j # co.job => receipt'[j] = receipt[j]
      BY <1>4, <1>a, SpawnFailsFacts
    <2> QED
      BY <2>1, <2>2
  <1>5. CASE SpawnUnconfirmed
    BY <1>5, <1>a, SpawnUnconfirmedFacts
  <1>6. ASSUME NEW n \in 0..(Streams - 1), SetupFails(n) PROVE OverInv'
    <2>1. receipt[co.job] = "none"
      BY <1>6, SetupFailsFacts DEF PlaceInv, Fresh
    <2> QED
      BY <1>6, <1>a, <2>1, SetupFailsFacts
  <1>7. CASE Settle
    <2>1. group' = group /\ \A j \in Job : j # co.job => receipt'[j] = receipt[j]
      BY <1>7, <1>a, SettleFacts
    <2>2. co.clean => group[co.job] = "empty"
      BY <1>7, SettleFacts DEF CleanInv
    <2>3. ~co.clean => receipt'[co.job] \in {"cleanup_unconfirmed", "torn"}
      BY <1>7, <1>a, SettleFacts, FinalVerdictFacts
    <2> QED
      BY <2>1, <2>2, <2>3
  <1>8. CASE Environment
    <2>1. receipt' = receipt /\ \A j \in Job : group'[j] = "live" => group[j] = "live"
      BY <1>8, EnvironmentFacts
    <2> QED
      BY <2>1
  <1>9. \/ QueueTimeout \/ Started \/ SpawnFails \/ SpawnUnconfirmed \/ Settle
        \/ \E n \in 0..(Streams - 1) : SetupFails(n)
        \/ Environment \/ UNCHANGED <<group, receipt>>
    <2>1. CASE Loop \/ Reserve \/ AdmitNone \/ Scan \/ WaitFails
      BY <2>1 DEF Loop, Reserve, AdmitNone, Scan, WaitFails, os, receipts
    <2>2. CASE CleanupKill \/ GroupRetired \/ GroupUnconfirmed \/ FinishReader
      BY <2>2 DEF CleanupKill, GroupRetired, GroupUnconfirmed, FinishReader, os, receipts
    <2>3. CASE Stop \/ Drain \/ DrainSettled
      BY <2>3 DEF Stop, Drain, DrainSettled, os, receipts
    <2>4. CASE UNCHANGED vars
      BY <2>4 DEF vars
    <2> QED
      BY <2>1, <2>2, <2>3, <2>4 DEF Next, Coordinate, Environment
  <1> QED
    BY <1>1, <1>2, <1>3, <1>4, <1>5, <1>6, <1>7, <1>8, <1>9

-----------------------------------------------------------------------------
(* Reservations *)

\* A smaller set has fewer members.
LEMMA Fewer ==
    ASSUME NEW S, NEW T, IsFiniteSet(S), T \subseteq S
    PROVE  /\ IsFiniteSet(T) /\ Cardinality(T) \in Nat /\ Cardinality(S) \in Nat
           /\ Cardinality(T) <= Cardinality(S)
  BY FS_Subset, FS_CardinalityType

\* One more member counts at most one more.
LEMMA OneMore ==
    ASSUME NEW S, NEW T, NEW j, IsFiniteSet(S), T \subseteq S \cup {j}
    PROVE  /\ IsFiniteSet(T) /\ Cardinality(T) \in Nat /\ Cardinality(S) \in Nat
           /\ Cardinality(T) <= Cardinality(S) + 1
  <1>1. /\ IsFiniteSet(S \cup {j}) /\ Cardinality(S) \in Nat
        /\ Cardinality(S \cup {j}) <= Cardinality(S) + 1
    BY FS_AddElement, FS_CardinalityType
  <1>2. /\ IsFiniteSet(T) /\ Cardinality(T) \in Nat /\ Cardinality(S \cup {j}) \in Nat
        /\ Cardinality(T) <= Cardinality(S \cup {j})
    BY <1>1, Fewer
  <1> QED
    BY <1>1, <1>2

\* Every step keeps the books: what is given up keeps its reservation.
LEMMA LedgerStep ==
    ASSUME ShapeInv, PlaceInv, CleanInv, KillInv, LedgerInv, [Next]_vars
    PROVE  LedgerInv'
  <1>a. /\ co \in Coordinators /\ co.job \in Job /\ co.at \in Labels /\ co.index # 0
        /\ co.retired \in BOOLEAN /\ co.clean \in BOOLEAN
        /\ Distinct(queue) /\ Distinct(active)
        /\ active \in Seq(Job) /\ queue \in Seq(Job) /\ Len(active) \in Nat
        /\ ToSet(active) \subseteq Job
        /\ group \in [Job -> {"none", "live", "empty"}]
        /\ MaxRunning \in Nat
    BY MembersOf, Bounds DEF ShapeInv, Coordinators, CleanInv, PlaceInv
  <1>b. active = <<>> => ToSet(active) = {} /\ Len(active) = 0
    BY <1>a, MembersOf
  <1>c. \A j \in Job : \A s \in 1..Streams : <<j, s>> \in Pipe
    BY DEF Pipe
  <1>d. co.at # "end" => result = "running"
    BY DEF KillInv
  <1>e. /\ ledger \in Nat /\ slots \in Nat /\ IsFiniteSet(Stray) /\ Cardinality(Stray) \in Nat
        /\ Cardinality(Stray) + Len(active) + InHand <= ledger /\ ledger <= MaxRunning
        /\ Len(active) + SlotInHand <= slots /\ slots + InHand <= ledger + SlotInHand
        /\ ~Ending => ledger = Len(active) + InHand /\ slots = Len(active) + SlotInHand
    BY FS_CardinalityType DEF LedgerInv
  <1> USE DEF Held, Cleans, Ending, Draining, InHand, SlotInHand
  <1>1. CASE Loop
    <2>1. \A j \in Job : Unfinished(j)' <=> Unfinished(j)
      BY <1>1, <1>a, <1>c, LoopFacts DEF Unfinished, Finished
    <2>2. \A j \in Job : Loose(j)' => Loose(j)
      BY <1>1, <1>a, <1>b, <2>1, LoopFacts DEF Loose
    <2>3. /\ IsFiniteSet(Stray') /\ Cardinality(Stray') \in Nat
          /\ Cardinality(Stray') <= Cardinality(Stray)
      <3>1. Stray' \subseteq Stray
        BY <2>2 DEF Stray
      <3> QED
        BY <1>e, <3>1, Fewer

    <2> QED
      BY <1>1, <1>a, <1>b, <1>d, <1>e, <2>3, LoopFacts DEF LedgerInv
  <1>2. CASE QueueTimeout
    <2>1. \A j \in Job : Unfinished(j)' <=> Unfinished(j)
      BY <1>2, <1>a, <1>c, QueueTimeoutFacts DEF Unfinished, Finished
    <2>2. \A j \in Job : Loose(j)' => Loose(j)
      BY <1>2, <1>a, <1>b, <2>1, QueueTimeoutFacts DEF Loose
    <2>3. /\ IsFiniteSet(Stray') /\ Cardinality(Stray') \in Nat
          /\ Cardinality(Stray') <= Cardinality(Stray)
      <3>1. Stray' \subseteq Stray
        BY <2>2 DEF Stray
      <3> QED
        BY <1>e, <3>1, Fewer

    <2> QED
      BY <1>2, <1>a, <1>b, <1>d, <1>e, <2>3, QueueTimeoutFacts, SMTT(30) DEF LedgerInv
  <1>3. CASE Reserve
    <2>1. \A j \in Job : Unfinished(j)' <=> Unfinished(j)
      BY <1>3, <1>a, <1>c, ReserveFacts DEF Unfinished, Finished
    <2>2. \A j \in Job : Loose(j)' => Loose(j)
      BY <1>3, <1>a, <1>b, <2>1, ReserveFacts DEF Loose
    <2>3. /\ IsFiniteSet(Stray') /\ Cardinality(Stray') \in Nat
          /\ Cardinality(Stray') <= Cardinality(Stray)
      <3>1. Stray' \subseteq Stray
        BY <2>2 DEF Stray
      <3> QED
        BY <1>e, <3>1, Fewer

    <2>4. /\ co.at = "admit" /\ UNCHANGED <<active, slots, result>>
          /\ \/ co'.at = "start" /\ ledger < MaxRunning /\ ledger' = ledger + 1
             \/ co'.at = "stop" /\ ledger' = ledger
      BY <1>3, ReserveFacts
    <2>5. CASE co'.at = "start" /\ ledger < MaxRunning /\ ledger' = ledger + 1
      BY <1>a, <1>d, <1>e, <2>3, <2>4, <2>5 DEF LedgerInv
    <2>6. CASE co'.at = "stop" /\ ledger' = ledger
      BY <1>a, <1>d, <1>e, <2>3, <2>4, <2>6 DEF LedgerInv
    <2> QED
      BY <2>4, <2>5, <2>6
  <1>4. CASE AdmitNone
    <2>1. \A j \in Job : Unfinished(j)' <=> Unfinished(j)
      BY <1>4, <1>a, <1>c, AdmitNoneFacts DEF Unfinished, Finished
    <2>2. \A j \in Job : Loose(j)' => Loose(j)
      BY <1>4, <1>a, <1>b, <2>1, AdmitNoneFacts DEF Loose
    <2>3. /\ IsFiniteSet(Stray') /\ Cardinality(Stray') \in Nat
          /\ Cardinality(Stray') <= Cardinality(Stray)
      <3>1. Stray' \subseteq Stray
        BY <2>2 DEF Stray
      <3> QED
        BY <1>e, <3>1, Fewer

    <2> QED
      BY <1>4, <1>a, <1>b, <1>d, <1>e, <2>3, AdmitNoneFacts DEF LedgerInv
  <1>5. CASE Started
    <2>0. co.at = "start" /\ co.job \notin ToSet(active)
      BY <1>5, <1>a, StartedFacts DEF PlaceInv, Fresh
    <2>1. active' = Append(active, co.job)
      BY <1>5, <1>a, StartedFacts
    <2>a. ToSet(active') = ToSet(active) \cup {co.job} /\ Len(active') = Len(active) + 1
      BY <1>a, <2>0, <2>1, AppendOne
    <2>b. \A j \in Job : j # co.job => Unfinished(j)' = Unfinished(j) /\ group'[j] = group[j]
      <3>1. \A j \in Job : j # co.job => \A s \in 1..Streams : reader'[<<j, s>>] = reader[<<j, s>>]
        BY <1>5, <1>a, <1>c, StartedFacts
      <3>2. group' = [group EXCEPT ![co.job] = "live"]
        BY <1>5, <1>a, StartedFacts
      <3> QED
        BY <1>a, <3>1, <3>2 DEF Unfinished, Finished
    <2>c. /\ co'.at = "admit" /\ slots' = slots + 1 /\ UNCHANGED <<ledger, result>>
      BY <1>5, <1>a, StartedFacts
    <2>2. \A j \in Job : Loose(j)' => Loose(j)
      BY <2>0, <2>a, <2>b, <2>c DEF Loose
    <2>3. /\ IsFiniteSet(Stray') /\ Cardinality(Stray') \in Nat
          /\ Cardinality(Stray') <= Cardinality(Stray)
      <3>1. Stray' \subseteq Stray
        BY <2>2 DEF Stray
      <3> QED
        BY <1>e, <3>1, Fewer

    <2> QED
      BY <1>a, <1>d, <1>e, <2>0, <2>3, <2>a, <2>c DEF LedgerInv
  <1>6. CASE SpawnFails
    <2>1. \A j \in Job : Unfinished(j)' <=> Unfinished(j)
      BY <1>6, <1>a, <1>c, SpawnFailsFacts DEF Unfinished, Finished
    <2>a. group[co.job] # "live" /\ ~Unfinished(co.job)
      BY <1>6, SpawnFailsFacts DEF PlaceInv, Fresh, Unfinished, Finished
    <2>2. \A j \in Job : Loose(j)' => Loose(j)
      BY <1>6, <1>a, <2>1, <2>a, SpawnFailsFacts DEF Loose
    <2>3. /\ IsFiniteSet(Stray') /\ Cardinality(Stray') \in Nat
          /\ Cardinality(Stray') <= Cardinality(Stray)
      <3>1. Stray' \subseteq Stray
        BY <2>2 DEF Stray
      <3> QED
        BY <1>e, <3>1, Fewer

    <2> QED
      BY <1>6, <1>a, <1>b, <1>d, <1>e, <2>3, SpawnFailsFacts, SMTT(60) DEF LedgerInv
  <1>7. CASE SpawnUnconfirmed
    <2>1. \A j \in Job : Unfinished(j)' <=> Unfinished(j)
      BY <1>7, <1>a, <1>c, SpawnUnconfirmedFacts DEF Unfinished, Finished
    <2>2. \A j \in Job : Loose(j)' => Loose(j) \/ j = co.job
      BY <1>7, <1>a, <2>1, SpawnUnconfirmedFacts DEF Loose
    <2>3. /\ IsFiniteSet(Stray') /\ Cardinality(Stray') \in Nat
          /\ Cardinality(Stray') <= Cardinality(Stray) + 1
      <3>1. Stray' \subseteq Stray \cup {co.job}
        BY <2>2 DEF Stray
      <3> QED
        BY <1>e, <3>1, OneMore

    <2> QED
      BY <1>7, <1>a, <1>b, <1>d, <1>e, <2>3, SpawnUnconfirmedFacts, SMTT(30) DEF LedgerInv
  <1>8. ASSUME NEW n \in 0..(Streams - 1), SetupFails(n) PROVE LedgerInv'
    <2>b. \A j \in Job : j # co.job => Unfinished(j)' = Unfinished(j) /\ group'[j] = group[j]
      <3>1. \A j \in Job : j # co.job => \A s \in 1..Streams : reader'[<<j, s>>] = reader[<<j, s>>]
        BY <1>8, <1>a, <1>c, SetupFailsFacts
      <3>2. group' = [group EXCEPT ![co.job] = "live"]
        BY <1>8, <1>a, SetupFailsFacts
      <3> QED
        BY <1>a, <3>1, <3>2 DEF Unfinished, Finished
    <2>2. \A j \in Job : Loose(j)' => Loose(j)
      BY <1>8, <1>a, <2>b, SetupFailsFacts DEF Loose
    <2>3. /\ IsFiniteSet(Stray') /\ Cardinality(Stray') \in Nat
          /\ Cardinality(Stray') <= Cardinality(Stray)
      <3>1. Stray' \subseteq Stray
        BY <2>2 DEF Stray
      <3> QED
        BY <1>e, <3>1, Fewer

    <2> QED
      BY <1>8, <1>a, <1>b, <1>d, <1>e, <2>3, SetupFailsFacts, SMTT(30) DEF LedgerInv
  <1>9. CASE Scan
    <2>1. \A j \in Job : Unfinished(j)' <=> Unfinished(j)
      BY <1>9, <1>a, <1>c, ScanFacts DEF Unfinished, Finished
    <2>a. /\ co.at = "scan" /\ UNCHANGED <<group, ledger, slots, result>>
          /\ \/ UNCHANGED active /\ co'.at \in {"loop", "scan"}
             \/ /\ co'.job \in ToSet(active) /\ ToSet(active') = ToSet(active) \ {co'.job}
                /\ Len(active') = Len(active) - 1
                /\ co'.at = "kill" /\ co'.back = "scan"
      BY <1>9, <1>a, ScanFacts
    <2>2. \A j \in Job : Loose(j)' => Loose(j)
      BY <1>a, <2>1, <2>a DEF Loose
    <2>3. /\ IsFiniteSet(Stray') /\ Cardinality(Stray') \in Nat
          /\ Cardinality(Stray') <= Cardinality(Stray)
      <3>1. Stray' \subseteq Stray
        BY <2>2 DEF Stray
      <3> QED
        BY <1>e, <3>1, Fewer

    <2>4. ToSet(active) # {} => Len(active) # 0
      BY <1>a, MembersOf
    <2> QED
      BY <1>a, <1>d, <1>e, <2>3, <2>4, <2>a DEF LedgerInv
  <1>10. CASE WaitFails
    <2>1. \A j \in Job : Unfinished(j)' <=> Unfinished(j)
      BY <1>10, <1>a, <1>c, WaitFailsFacts DEF Unfinished, Finished
    <2>a. /\ co.at = "scan" /\ UNCHANGED <<group, ledger, slots, result>>
          /\ \/ UNCHANGED active /\ co'.at \in {"loop", "scan"}
             \/ /\ co'.job \in ToSet(active) /\ ToSet(active') = ToSet(active) \ {co'.job}
                /\ Len(active') = Len(active) - 1
                /\ co'.at = "kill" /\ co'.back = "scan"
      BY <1>10, <1>a, WaitFailsFacts
    <2>2. \A j \in Job : Loose(j)' => Loose(j)
      BY <1>a, <2>1, <2>a DEF Loose
    <2>3. /\ IsFiniteSet(Stray') /\ Cardinality(Stray') \in Nat
          /\ Cardinality(Stray') <= Cardinality(Stray)
      <3>1. Stray' \subseteq Stray
        BY <2>2 DEF Stray
      <3> QED
        BY <1>e, <3>1, Fewer

    <2>4. ToSet(active) # {} => Len(active) # 0
      BY <1>a, MembersOf
    <2> QED
      BY <1>a, <1>d, <1>e, <2>3, <2>4, <2>a DEF LedgerInv
  <1>11. CASE GroupRetired
    <2>1. \A j \in Job : Unfinished(j)' <=> Unfinished(j)
      BY <1>11, <1>a, <1>c, GroupRetiredFacts DEF Unfinished, Finished
    <2>2. \A j \in Job : Loose(j)' => Loose(j)
      BY <1>11, <1>a, <1>b, <2>1, GroupRetiredFacts DEF Loose
    <2>3. /\ IsFiniteSet(Stray') /\ Cardinality(Stray') \in Nat
          /\ Cardinality(Stray') <= Cardinality(Stray)
      <3>1. Stray' \subseteq Stray
        BY <2>2 DEF Stray
      <3> QED
        BY <1>e, <3>1, Fewer

    <2>4. co.at \in {"kill", "cleanup"} => ~co.retired
      BY DEF CleanInv
    <2> QED
      BY <1>11, <1>a, <1>b, <1>d, <1>e, <2>3, <2>4, GroupRetiredFacts, SMTT(30) DEF LedgerInv
  <1>12. CASE GroupUnconfirmed
    <2>1. \A j \in Job : Unfinished(j)' <=> Unfinished(j)
      BY <1>12, <1>a, <1>c, GroupUnconfirmedFacts DEF Unfinished, Finished
    <2>2. \A j \in Job : Loose(j)' => Loose(j)
      BY <1>12, <1>a, <1>b, <2>1, GroupUnconfirmedFacts DEF Loose
    <2>3. /\ IsFiniteSet(Stray') /\ Cardinality(Stray') \in Nat
          /\ Cardinality(Stray') <= Cardinality(Stray)
      <3>1. Stray' \subseteq Stray
        BY <2>2 DEF Stray
      <3> QED
        BY <1>e, <3>1, Fewer

    <2>4. co.at \in {"kill", "cleanup"} => ~co.retired
      BY DEF CleanInv
    <2> QED
      BY <1>12, <1>a, <1>b, <1>d, <1>e, <2>3, <2>4, GroupUnconfirmedFacts, SMTT(30) DEF LedgerInv
  <1>13. CASE FinishReader
    <2>1. \A j \in Job : Unfinished(j)' <=> Unfinished(j)
      BY <1>13, <1>a, <1>c, FinishReaderFacts DEF Unfinished, Finished
    <2>2. \A j \in Job : Loose(j)' => Loose(j)
      BY <1>13, <1>a, <1>b, <2>1, FinishReaderFacts DEF Loose
    <2>3. /\ IsFiniteSet(Stray') /\ Cardinality(Stray') \in Nat
          /\ Cardinality(Stray') <= Cardinality(Stray)
      <3>1. Stray' \subseteq Stray
        BY <2>2 DEF Stray
      <3> QED
        BY <1>e, <3>1, Fewer

    <2>4. co.at \in {"kill", "cleanup"} => ~co.retired
      BY DEF CleanInv
    <2> QED
      BY <1>13, <1>a, <1>b, <1>d, <1>e, <2>3, <2>4, FinishReaderFacts DEF LedgerInv
  <1>14. CASE Settle
    <2>1. \A j \in Job : Unfinished(j)' <=> Unfinished(j)
      BY <1>14, <1>a, <1>c, SettleFacts DEF Unfinished, Finished
    <2>a. CASE co.clean
      <3>1. co.retired /\ group[co.job] # "live" /\ ~Unfinished(co.job)
        <4>1. co.at = "settle" /\ co.stream \in Nat /\ Streams \in Nat
          BY <1>14, SettleFacts, Bounds DEF ShapeInv, Coordinators
        <4>2. /\ co.retired /\ group[co.job] = "empty" /\ co.stream > Streams
              /\ \A s \in 1..Streams : s < co.stream => Finished(<<co.job, s>>)
          BY <2>a, <4>1 DEF CleanInv
        <4>3. \A s \in 1..Streams : s < co.stream
          BY <4>1, <4>2
        <4> QED
          BY <4>2, <4>3 DEF Unfinished
      <3>2. \A j \in Job : Loose(j)' => Loose(j)
        BY <1>14, <1>a, <2>1, <3>1, SettleFacts DEF Loose
      <3>3. /\ IsFiniteSet(Stray') /\ Cardinality(Stray') \in Nat
            /\ Cardinality(Stray') <= Cardinality(Stray)
        <4>1. Stray' \subseteq Stray
          BY <3>2 DEF Stray
        <4> QED
          BY <1>e, <4>1, Fewer
      <3> QED
        BY <1>14, <1>a, <1>d, <1>e, <2>a, <3>1, <3>3, SettleFacts, SMTT(30) DEF LedgerInv
    <2>b. CASE ~co.clean
      <3>2. \A j \in Job : Loose(j)' => Loose(j) \/ j = co.job
        BY <1>14, <1>a, <2>1, SettleFacts DEF Loose
      <3>3. /\ IsFiniteSet(Stray') /\ Cardinality(Stray') \in Nat
            /\ Cardinality(Stray') <= Cardinality(Stray) + 1
        <4>1. Stray' \subseteq Stray \cup {co.job}
          BY <3>2 DEF Stray
        <4> QED
          BY <1>e, <4>1, OneMore
      <3>4. FinalVerdict # "completed"
        BY <2>b, FinalVerdictFacts
      <3> QED
        <4>1. /\ co.at = "settle" /\ co'.at = "stop" /\ ledger' = ledger
              /\ UNCHANGED <<active, slots, result>>
          BY <1>14, <2>b, <3>4, SettleFacts
        <4>2. InHand = 1 /\ InHand' = 0 /\ SlotInHand \in 0..1 /\ SlotInHand' = 0
          BY <4>1
        <4>3. Ending' /\ result' = "running"
          BY <1>d, <4>1
        <4> QED
          BY <1>a, <1>e, <3>3, <4>1, <4>2, <4>3 DEF LedgerInv
    <2> QED
      BY <2>a, <2>b
  <1>15. CASE Stop
    <2>1. \A j \in Job : Unfinished(j)' <=> Unfinished(j)
      BY <1>15, <1>a, <1>c, StopFacts DEF Unfinished, Finished
    <2>2. \A j \in Job : Loose(j)' => Loose(j)
      BY <1>15, <1>a, <1>b, <2>1, StopFacts DEF Loose
    <2>3. /\ IsFiniteSet(Stray') /\ Cardinality(Stray') \in Nat
          /\ Cardinality(Stray') <= Cardinality(Stray)
      <3>1. Stray' \subseteq Stray
        BY <2>2 DEF Stray
      <3> QED
        BY <1>e, <3>1, Fewer

    <2> QED
      BY <1>15, <1>a, <1>b, <1>d, <1>e, <2>3, StopFacts DEF LedgerInv
  <1>16. CASE Drain
    <2>1. \A j \in Job : Unfinished(j)' <=> Unfinished(j)
      BY <1>16, <1>a, <1>c, DrainFacts DEF Unfinished, Finished
    <2>a. active # <<>> => /\ Head(active) \in ToSet(active)
                           /\ ToSet(active) = {Head(active)} \cup ToSet(Tail(active))
                           /\ Len(Tail(active)) = Len(active) - 1 /\ Len(active) # 0
      BY <1>a, TakeHead, MembersOf
    <2>b. /\ co.at = "drain" /\ UNCHANGED group
          /\ \/ active' = active /\ co'.at = "end"
             \/ /\ active # <<>> /\ active' = Tail(active) /\ co'.at = "kill"
                /\ co'.job = Head(active)
      BY <1>16, DrainFacts
    <2>2. \A j \in Job : Loose(j)' => Loose(j)
      BY <2>1, <2>a, <2>b DEF Loose
    <2>3. /\ IsFiniteSet(Stray') /\ Cardinality(Stray') \in Nat
          /\ Cardinality(Stray') <= Cardinality(Stray)
      <3>1. Stray' \subseteq Stray
        BY <2>2 DEF Stray
      <3> QED
        BY <1>e, <3>1, Fewer

    <2> QED
      BY <1>16, <1>a, <1>b, <1>d, <1>e, <2>3, <2>a, DrainFacts DEF LedgerInv
  <1>17. CASE DrainSettled
    <2>1. \A j \in Job : Unfinished(j)' <=> Unfinished(j)
      BY <1>17, <1>a, <1>c, DrainSettledFacts DEF Unfinished, Finished
    <2>a. CASE co.clean
      <3>1. co.retired /\ group[co.job] # "live" /\ ~Unfinished(co.job)
        <4>1. co.at = "settle" /\ co.stream \in Nat /\ Streams \in Nat
          BY <1>17, DrainSettledFacts, Bounds DEF ShapeInv, Coordinators
        <4>2. /\ co.retired /\ group[co.job] = "empty" /\ co.stream > Streams
              /\ \A s \in 1..Streams : s < co.stream => Finished(<<co.job, s>>)
          BY <2>a, <4>1 DEF CleanInv
        <4>3. \A s \in 1..Streams : s < co.stream
          BY <4>1, <4>2
        <4> QED
          BY <4>2, <4>3 DEF Unfinished
      <3>2. \A j \in Job : Loose(j)' => Loose(j)
        BY <1>17, <1>a, <2>1, <3>1, DrainSettledFacts DEF Loose
      <3>3. /\ IsFiniteSet(Stray') /\ Cardinality(Stray') \in Nat
            /\ Cardinality(Stray') <= Cardinality(Stray)
        <4>1. Stray' \subseteq Stray
          BY <3>2 DEF Stray
        <4> QED
          BY <1>e, <4>1, Fewer
      <3> QED
        BY <1>17, <1>a, <1>d, <1>e, <2>a, <3>1, <3>3, DrainSettledFacts, SMTT(60) DEF LedgerInv
    <2>b. CASE ~co.clean
      <3>2. \A j \in Job : Loose(j)' => Loose(j) \/ j = co.job
        BY <1>17, <1>a, <2>1, DrainSettledFacts DEF Loose
      <3>3. /\ IsFiniteSet(Stray') /\ Cardinality(Stray') \in Nat
            /\ Cardinality(Stray') <= Cardinality(Stray) + 1
        <4>1. Stray' \subseteq Stray \cup {co.job}
          BY <3>2 DEF Stray
        <4> QED
          BY <1>e, <4>1, OneMore
      <3> QED
        BY <1>17, <1>a, <1>d, <1>e, <2>b, <3>3, DrainSettledFacts, SMTT(60) DEF LedgerInv
    <2> QED
      BY <2>a, <2>b
  <1>18. CASE Environment
    <2>1. UNCHANGED <<co, active, ledger, slots, result>>
      BY <1>18, EnvironmentFacts
    <2>2. \A j \in Job : Loose(j)' => Loose(j)
      BY <1>18, <2>1, EnvironmentFacts DEF Loose
    <2>3. /\ IsFiniteSet(Stray') /\ Cardinality(Stray') \in Nat
          /\ Cardinality(Stray') <= Cardinality(Stray)
      <3>1. Stray' \subseteq Stray
        BY <2>2 DEF Stray
      <3> QED
        BY <1>e, <3>1, Fewer
    <2> QED
      BY <1>e, <2>1, <2>3 DEF LedgerInv
  <1>19. CASE UNCHANGED vars
    <2>1. UNCHANGED <<co, active, ledger, slots, result, group, reader>>
      BY <1>19 DEF vars
    <2>2. \A j \in Job : Loose(j)' <=> Loose(j)
      BY <2>1 DEF Loose, Unfinished, Finished
    <2>3. Stray' = Stray
      BY <2>2 DEF Stray
    <2> QED
      BY <2>1, <2>3 DEF LedgerInv
  <1>20. CASE CleanupKill
    <2>1. \A j \in Job : Unfinished(j)' <=> Unfinished(j)
      BY <1>20, <1>a, <1>c, CleanupKillFacts DEF Unfinished, Finished
    <2>2. \A j \in Job : Loose(j)' => Loose(j)
      BY <1>20, <1>a, <1>b, <2>1, CleanupKillFacts DEF Loose
    <2>3. /\ IsFiniteSet(Stray') /\ Cardinality(Stray') \in Nat
          /\ Cardinality(Stray') <= Cardinality(Stray)
      <3>1. Stray' \subseteq Stray
        BY <2>2 DEF Stray
      <3> QED
        BY <1>e, <3>1, Fewer

    <2>4. co.at \in {"kill", "cleanup"} => ~co.retired
      BY DEF CleanInv
    <2> QED
      BY <1>20, <1>a, <1>b, <1>d, <1>e, <2>3, <2>4, CleanupKillFacts, SMTT(30) DEF LedgerInv
  <1> QED
    BY <1>1, <1>2, <1>3, <1>4, <1>5, <1>6, <1>7, <1>8, <1>9, <1>10, <1>11, <1>12, <1>13,
       <1>14, <1>15, <1>16, <1>17, <1>18, <1>19, <1>20
       DEF Next, Coordinate, Environment

-----------------------------------------------------------------------------
(* Receipts *)

\* A receipt that says completed stays true.
LEMMA TruthStep ==
    ASSUME ShapeInv, PlaceInv, CleanInv, TruthInv, [Next]_vars
    PROVE  TruthInv'
  <1>a. /\ co \in Coordinators /\ co.job \in Job /\ co.at \in Labels /\ co.index # 0
        /\ Distinct(queue) /\ Distinct(active)
        /\ active \in Seq(Job) /\ queue \in Seq(Job)
        /\ ToSet(active) \subseteq Job
        /\ group \in [Job -> {"none", "live", "empty"}]
        /\ main \in [Job -> {"none", "running", "ok", "bad"}]
        /\ receipt \in [Job -> Verdicts]
    BY MembersOf DEF ShapeInv, Coordinators, CleanInv, PlaceInv
  <1>b. queue # <<>> => Head(queue) \in Job
    BY <1>a
  <1>c. \A j \in Job : \A s \in 1..Streams : <<j, s>> \in Pipe
    BY DEF Pipe
  <1>d. Held => receipt[co.job] = "none"
    BY DEF PlaceInv, Held, Fresh
  <1> USE DEF TruthInv, Cleans, Held
  <1>1. CASE Loop
    <2>1. \A j \in Job : Unfinished(j)' <=> Unfinished(j)
      BY <1>1, <1>a, <1>c, LoopFacts DEF Unfinished, Finished
    <2> QED
      BY <1>1, <1>a, <1>b, <1>d, <2>1, LoopFacts
  <1>2. CASE QueueTimeout
    <2>1. \A j \in Job : Unfinished(j)' <=> Unfinished(j)
      BY <1>2, <1>a, <1>c, QueueTimeoutFacts DEF Unfinished, Finished
    <2> QED
      BY <1>2, <1>a, <1>b, <1>d, <2>1, QueueTimeoutFacts
  <1>3. CASE Reserve
    <2>1. \A j \in Job : Unfinished(j)' <=> Unfinished(j)
      BY <1>3, <1>a, <1>c, ReserveFacts DEF Unfinished, Finished
    <2> QED
      BY <1>3, <1>a, <1>b, <1>d, <2>1, ReserveFacts
  <1>4. CASE AdmitNone
    <2>1. \A j \in Job : Unfinished(j)' <=> Unfinished(j)
      BY <1>4, <1>a, <1>c, AdmitNoneFacts DEF Unfinished, Finished
    <2> QED
      BY <1>4, <1>a, <1>b, <1>d, <2>1, AdmitNoneFacts
  <1>5. CASE Started
    <2>b. \A j \in Job : j # co.job => /\ Unfinished(j)' <=> Unfinished(j)
                                       /\ group'[j] = group[j] /\ main'[j] = main[j]
      <3>1. \A j \in Job : j # co.job => \A s \in 1..Streams : reader'[<<j, s>>] = reader[<<j, s>>]
        BY <1>5, <1>a, <1>c, StartedFacts
      <3>2. /\ group' = [group EXCEPT ![co.job] = "live"]
            /\ main' = [main EXCEPT ![co.job] = "running"]
        BY <1>5, <1>a, StartedFacts
      <3>3. \A j \in Job : j # co.job => (Unfinished(j)' <=> Unfinished(j))
        BY <3>1 DEF Unfinished, Finished
      <3> QED
        BY <1>a, <3>2, <3>3
    <2>c. /\ co.at = "start" /\ co'.at = "admit" /\ UNCHANGED <<exceeded, readError, receipt>>
      BY <1>5, <1>a, StartedFacts
    <2> QED
      BY <1>a, <1>d, <2>b, <2>c
  <1>6. CASE SpawnFails
    <2>1. \A j \in Job : Unfinished(j)' <=> Unfinished(j)
      BY <1>6, <1>a, <1>c, SpawnFailsFacts DEF Unfinished, Finished
    <2> QED
      BY <1>6, <1>a, <1>b, <1>d, <2>1, SpawnFailsFacts
  <1>7. CASE SpawnUnconfirmed
    <2>1. \A j \in Job : Unfinished(j)' <=> Unfinished(j)
      BY <1>7, <1>a, <1>c, SpawnUnconfirmedFacts DEF Unfinished, Finished
    <2>2. PICK r \in {"cleanup_unconfirmed", "torn"} : receipt' = [receipt EXCEPT ![co.job] = r]
      BY <1>7, SpawnUnconfirmedFacts
    <2> QED
      BY <1>7, <1>a, <1>d, <2>1, <2>2, SpawnUnconfirmedFacts
  <1>8. ASSUME NEW n \in 0..(Streams - 1), SetupFails(n) PROVE TruthInv'
    <2>b. \A j \in Job : j # co.job => /\ Unfinished(j)' <=> Unfinished(j)
                                       /\ group'[j] = group[j] /\ main'[j] = main[j]
      <3>1. \A j \in Job : j # co.job => \A s \in 1..Streams : reader'[<<j, s>>] = reader[<<j, s>>]
        BY <1>8, <1>a, <1>c, SetupFailsFacts
      <3>2. /\ group' = [group EXCEPT ![co.job] = "live"]
            /\ main' = [main EXCEPT ![co.job] = "running"]
        BY <1>8, <1>a, SetupFailsFacts
      <3>3. \A j \in Job : j # co.job => (Unfinished(j)' <=> Unfinished(j))
        BY <3>1 DEF Unfinished, Finished
      <3> QED
        BY <1>a, <3>2, <3>3
    <2>c. /\ co.at = "start" /\ co'.verdict = "spawn_error"
          /\ UNCHANGED <<exceeded, readError, receipt>>
      BY <1>8, <1>a, SetupFailsFacts
    <2> QED
      BY <1>a, <1>d, <2>b, <2>c DEF Good
  <1>9. CASE Scan
    <2>1. UNCHANGED <<group, main, reader, exceeded, readError, receipt>> /\ co.at = "scan"
      BY <1>9, <1>a, ScanFacts
    <2>2. \A j \in Job : Unfinished(j)' <=> Unfinished(j)
      BY <2>1 DEF Unfinished, Finished
    <2>3. \/ co'.at \in {"loop", "scan"}
          \/ Good(co'.verdict) /\ (co'.verdict = "completed" => main[co'.job] = "ok")
      BY <1>9, <1>a, ScanFacts
    <2> QED
      BY <1>a, <2>1, <2>2, <2>3
  <1>10. CASE WaitFails
    <2>1. UNCHANGED <<group, main, reader, exceeded, readError, receipt>> /\ co.at = "scan"
      BY <1>10, <1>a, WaitFailsFacts
    <2>2. \A j \in Job : Unfinished(j)' <=> Unfinished(j)
      BY <2>1 DEF Unfinished, Finished
    <2>3. \/ co'.at \in {"loop", "scan"}
          \/ Good(co'.verdict) /\ (co'.verdict = "completed" => main[co'.job] = "ok")
      BY <1>10, <1>a, WaitFailsFacts
    <2> QED
      BY <1>a, <2>1, <2>2, <2>3
  <1>11. CASE GroupRetired
    <2>1. \A j \in Job : Unfinished(j)' <=> Unfinished(j)
      BY <1>11, <1>a, <1>c, GroupRetiredFacts DEF Unfinished, Finished
    <2> QED
      BY <1>11, <1>a, <1>b, <1>d, <2>1, GroupRetiredFacts
  <1>12. CASE GroupUnconfirmed
    <2>1. \A j \in Job : Unfinished(j)' <=> Unfinished(j)
      BY <1>12, <1>a, <1>c, GroupUnconfirmedFacts DEF Unfinished, Finished
    <2> QED
      BY <1>12, <1>a, <1>b, <1>d, <2>1, GroupUnconfirmedFacts
  <1>13. CASE FinishReader
    <2>1. \A j \in Job : Unfinished(j)' <=> Unfinished(j)
      BY <1>13, <1>a, <1>c, FinishReaderFacts DEF Unfinished, Finished
    <2> QED
      BY <1>13, <1>a, <1>b, <1>d, <2>1, FinishReaderFacts
  <1>14. CASE Settle
    <2>1. \A j \in Job : Unfinished(j)' <=> Unfinished(j)
      BY <1>14, <1>a, <1>c, SettleFacts DEF Unfinished, Finished
    <2>2. /\ co.at = "settle" /\ UNCHANGED <<group, main, exceeded, readError>>
          /\ co'.at \in {"admit", "scan", "stop"}
          /\ \E r \in {FinalVerdict, "torn"} : receipt' = [receipt EXCEPT ![co.job] = r]
      BY <1>14, SettleFacts
    <2>3. ASSUME FinalVerdict = "completed"
          PROVE  /\ main[co.job] = "ok" /\ group[co.job] = "empty"
                 /\ co.job \notin exceeded \cup readError /\ ~Unfinished(co.job)
      <3>1. co.clean /\ co.verdict = "completed" /\ co.job \notin exceeded \cup readError
        BY <2>3, FinalVerdictFacts
      <3>2. co.stream \in Nat /\ Streams \in Nat
        BY Bounds DEF ShapeInv, Coordinators
      <3>3. /\ group[co.job] = "empty" /\ co.stream > Streams
            /\ \A s \in 1..Streams : s < co.stream => Finished(<<co.job, s>>)
        BY <2>2, <3>1 DEF CleanInv
      <3>4. \A s \in 1..Streams : s < co.stream
        BY <3>2, <3>3
      <3> QED
        BY <2>2, <3>1, <3>3, <3>4 DEF Unfinished
    <2>4. PICK r \in {FinalVerdict, "torn"} : receipt' = [receipt EXCEPT ![co.job] = r]
      BY <2>2
    <2> QED
      BY <1>a, <2>1, <2>2, <2>3, <2>4
  <1>15. CASE Stop
    <2>1. \A j \in Job : Unfinished(j)' <=> Unfinished(j)
      BY <1>15, <1>a, <1>c, StopFacts DEF Unfinished, Finished
    <2> QED
      BY <1>15, <1>a, <1>b, <1>d, <2>1, StopFacts
  <1>16. CASE Drain
    <2>1. \A j \in Job : Unfinished(j)' <=> Unfinished(j)
      BY <1>16, <1>a, <1>c, DrainFacts DEF Unfinished, Finished
    <2> QED
      BY <1>16, <1>a, <1>b, <1>d, <2>1, DrainFacts
  <1>17. CASE DrainSettled
    <2>1. \A j \in Job : Unfinished(j)' <=> Unfinished(j)
      BY <1>17, <1>a, <1>c, DrainSettledFacts DEF Unfinished, Finished
    <2> QED
      BY <1>17, <1>a, <1>b, <1>d, <2>1, DrainSettledFacts
  <1>18. CASE Environment
    <2>1. UNCHANGED <<co, receipt>>
      BY <1>18, EnvironmentFacts
    <2>2. ASSUME NEW j \in Job
          PROVE  /\ main[j] = "ok" => main'[j] = "ok"
                 /\ group[j] = "empty" => group'[j] = "empty"
                 /\ ~Unfinished(j) => /\ ~Unfinished(j)'
                                      /\ j \in exceeded' => j \in exceeded
                                      /\ j \in readError' => j \in readError
      BY <1>18, EnvironmentFacts
    <2> QED
      BY <1>a, <2>1, <2>2
  <1>19. CASE UNCHANGED vars
    <2>1. UNCHANGED <<co, group, main, reader, exceeded, readError, receipt>>
      BY <1>19 DEF vars
    <2>2. \A j \in Job : Unfinished(j)' <=> Unfinished(j)
      BY <2>1 DEF Unfinished, Finished
    <2> QED
      BY <2>1, <2>2
  <1>20. CASE CleanupKill
    <2>1. \A j \in Job : Unfinished(j)' <=> Unfinished(j)
      BY <1>20, <1>a, <1>c, CleanupKillFacts DEF Unfinished, Finished
    <2> QED
      BY <1>20, <1>a, <1>b, <1>d, <2>1, CleanupKillFacts
  <1> QED
    BY <1>1, <1>2, <1>3, <1>4, <1>5, <1>6, <1>7, <1>8, <1>9, <1>10, <1>11, <1>12, <1>13,
       <1>14, <1>15, <1>16, <1>17, <1>18, <1>19, <1>20
       DEF Next, Coordinate, Environment

\* Each job adds to the failures at most once, when it leaves the last place.
LEMMA FailedStep ==
    ASSUME ShapeInv, PlaceInv, CleanInv, FailedInv, [Next]_vars
    PROVE  FailedInv'
  <1>a. /\ co \in Coordinators /\ co.job \in Job /\ co.at \in Labels /\ co.index # 0
        /\ Distinct(queue) /\ Distinct(active)
        /\ active \in Seq(Job) /\ queue \in Seq(Job) /\ Len(active) \in Nat /\ Len(queue) \in Nat
    BY MembersOf DEF ShapeInv, Coordinators, CleanInv, PlaceInv
  <1>b. /\ queue # <<>> => Len(Tail(queue)) = Len(queue) - 1 /\ Len(queue) # 0
        /\ active # <<>> => Len(Tail(active)) = Len(active) - 1 /\ Len(active) # 0
    BY <1>a
  <1>c. Len(Jobs) \in Nat
    BY Bounds
  <1> USE DEF FailedInv, Cleans, Held, InHand
  <1>1. CASE Loop
    BY <1>1, LoopFacts, <1>a, <1>b, <1>c
  <1>2. CASE QueueTimeout
    <2>1. /\ queue # <<>> /\ queue' = Tail(queue) /\ failed' = failed + 1 /\ UNCHANGED active
          /\ co.at = "admit" /\ co'.at \in {"admit", "stop"}
      BY <1>2, <1>a, QueueTimeoutFacts
    <2> QED
      BY <1>a, <1>b, <1>c, <2>1
  <1>3. CASE Reserve
    BY <1>3, ReserveFacts, <1>a, <1>b, <1>c
  <1>4. CASE AdmitNone
    BY <1>4, AdmitNoneFacts, <1>a, <1>b, <1>c
  <1>5. CASE Started
    <2>1. active' = Append(active, co.job) /\ co.at = "start" /\ co'.at = "admit"
          /\ UNCHANGED <<failed, queue>>
      BY <1>5, <1>a, StartedFacts
    <2>2. Len(active') = Len(active) + 1
      BY <1>a, <2>1
    <2> QED
      BY <1>a, <1>c, <2>1, <2>2
  <1>6. CASE SpawnFails
    BY <1>6, SpawnFailsFacts, <1>a, <1>b, <1>c
  <1>7. CASE SpawnUnconfirmed
    BY <1>7, SpawnUnconfirmedFacts, <1>a, <1>b, <1>c
  <1>8. ASSUME NEW n \in 0..(Streams - 1), SetupFails(n) PROVE FailedInv'
    BY <1>8, SetupFailsFacts, <1>a, <1>b, <1>c
  <1>9. CASE Scan
    <2>1. /\ co.at = "scan" /\ UNCHANGED <<failed, queue>>
          /\ \/ UNCHANGED active /\ co'.at \in {"loop", "scan"}
             \/ Len(active') = Len(active) - 1 /\ co'.at = "kill"
      BY <1>9, <1>a, ScanFacts
    <2> QED
      BY <1>a, <1>c, <2>1
  <1>10. CASE WaitFails
    <2>1. /\ co.at = "scan" /\ UNCHANGED <<failed, queue>>
          /\ \/ UNCHANGED active /\ co'.at \in {"loop", "scan"}
             \/ Len(active') = Len(active) - 1 /\ co'.at = "kill"
      BY <1>10, <1>a, WaitFailsFacts
    <2> QED
      BY <1>a, <1>c, <2>1
  <1>11. CASE GroupRetired
    BY <1>11, GroupRetiredFacts, <1>a, <1>b, <1>c
  <1>12. CASE GroupUnconfirmed
    BY <1>12, GroupUnconfirmedFacts, <1>a, <1>b, <1>c
  <1>13. CASE FinishReader
    BY <1>13, FinishReaderFacts, <1>a, <1>b, <1>c
  <1>14. CASE Settle
    <2>1. /\ co.at = "settle" /\ co'.at \in {"admit", "scan", "stop"} /\ UNCHANGED <<queue, active>>
          /\ failed' \in {failed, failed + 1}
      BY <1>14, <1>a, SettleFacts
    <2> QED
      BY <1>a, <1>c, <2>1
  <1>15. CASE Stop
    BY <1>15, StopFacts, <1>a, <1>b, <1>c
  <1>16. CASE Drain
    BY <1>16, DrainFacts, <1>a, <1>b, <1>c
  <1>17. CASE DrainSettled
    BY <1>17, DrainSettledFacts, <1>a, <1>b, <1>c
  <1>18. CASE Environment
    <2>1. UNCHANGED <<co, queue, active, failed>>
      BY <1>18, EnvironmentFacts
    <2> QED
      BY <2>1
  <1>19. CASE UNCHANGED vars
    BY <1>19 DEF vars
  <1>20. CASE CleanupKill
    BY <1>20, CleanupKillFacts, <1>a, <1>b, <1>c
  <1> QED
    BY <1>1, <1>2, <1>3, <1>4, <1>5, <1>6, <1>7, <1>8, <1>9, <1>10, <1>11, <1>12, <1>13,
       <1>14, <1>15, <1>16, <1>17, <1>18, <1>19, <1>20
       DEF Next, Coordinate, Environment

\* No job is forgotten, and a failure is not either.
LEMMA CoverStep ==
    ASSUME ShapeInv, PlaceInv, CleanInv, KillInv, TruthInv, FailedInv, CoverInv, [Next]_vars
    PROVE  CoverInv'
  <1>a. /\ co \in Coordinators /\ co.job \in Job /\ co.at \in Labels /\ co.index # 0
        /\ Distinct(queue) /\ Distinct(active)
        /\ active \in Seq(Job) /\ queue \in Seq(Job)
        /\ ToSet(active) \subseteq Job /\ ToSet(queue) \subseteq Job
        /\ receipt \in [Job -> Verdicts] /\ failed \in Nat
    BY MembersOf DEF ShapeInv, Coordinators, CleanInv, PlaceInv, FailedInv
  <1>b. queue # <<>> => /\ Head(queue) \in ToSet(queue) /\ Head(queue) \in Job
                        /\ ToSet(queue) = {Head(queue)} \cup ToSet(Tail(queue))
                        /\ receipt[Head(queue)] = "none" /\ Head(queue) \in ToSet(Jobs)
    BY <1>a, TakeHead DEF PlaceInv, Fresh
  <1>c. Held => receipt[co.job] = "none" /\ co.job \in ToSet(Jobs)
    BY DEF PlaceInv, Held, Cleans, Fresh
  <1>d. co.at # "end" => result = "running"
    BY DEF KillInv
  <1>e. ToSet(Jobs) \subseteq Job
    BY MembersOf, Bounds
  <1> USE DEF CoverInv, Pending, Cleans, Held, Ending, Draining
  <1>1. CASE Loop
    <2>1. CASE co'.at = "admit" /\ result' = result
      BY <1>1, <1>a, <1>d, <2>1, LoopFacts
    <2>2. CASE co'.at = "end"
      <3>1. /\ queue = <<>> /\ active = <<>> /\ co.at = "loop" /\ UNCHANGED receipt
            /\ result' \in {IF failed = 0 THEN "ok" ELSE "failed", "error"}
        BY <1>1, <2>2, LoopFacts
      <3>2. ToSet(queue) = {} /\ ToSet(active) = {}
        BY <1>a, <3>1, MembersOf
      <3>3. \A j \in ToSet(Jobs) : Good(receipt[j])
        BY <3>1, <3>2
      <3>4. failed = 0 <=> \A j \in ToSet(Jobs) : receipt[j] = "completed"
        BY <1>e, <3>1, <3>3 DEF Good
      <3> QED
        BY <2>2, <3>1, <3>3, <3>4
    <2> QED
      BY <1>1, <2>1, <2>2, LoopFacts
  <1>2. CASE QueueTimeout
    <2>1. /\ co.at = "admit" /\ queue # <<>> /\ queue' = Tail(queue) /\ failed' = failed + 1
          /\ UNCHANGED <<active, result>>
          /\ \/ receipt' = [receipt EXCEPT ![Head(queue)] = "queue_timeout"] /\ co'.at = "admit"
             \/ co'.at = "stop"
      BY <1>2, <1>a, QueueTimeoutFacts
    <2>2. failed' # 0
      BY <1>a, <2>1
    <2>3. CASE co'.at = "admit"
      <3>1. /\ receipt'[Head(queue)] = "queue_timeout"
            /\ \A j \in Job : j # Head(queue) => receipt'[j] = receipt[j]
        BY <1>a, <1>b, <2>1, <2>3
      <3> QED
        BY <1>a, <1>b, <1>d, <1>e, <2>1, <2>2, <2>3, <3>1 DEF Good
    <2> QED
      BY <1>d, <2>1, <2>3
  <1>3. CASE Reserve
    BY <1>3, ReserveFacts, <1>a, <1>b, <1>c, <1>d
  <1>4. CASE AdmitNone
    BY <1>4, AdmitNoneFacts, <1>a, <1>b, <1>c, <1>d
  <1>5. CASE Started
    <2>0. co.at = "start" /\ co.job \notin ToSet(active)
      BY <1>5, <1>a, StartedFacts DEF PlaceInv, Fresh
    <2>1. active' = Append(active, co.job) /\ co'.at = "admit" /\ UNCHANGED <<queue, receipt, failed, result>>
      BY <1>5, <1>a, StartedFacts
    <2>2. ToSet(active') = ToSet(active) \cup {co.job}
      BY <1>a, <2>0, <2>1, AppendOne
    <2> QED
      BY <1>d, <2>0, <2>1, <2>2
  <1>6. CASE SpawnFails
    <2>1. /\ co.at = "start" /\ failed' = failed + 1 /\ UNCHANGED <<queue, active, result>>
          /\ \/ receipt' = [receipt EXCEPT ![co.job] = "spawn_error"] /\ co'.at = "admit"
             \/ co'.at = "stop"
      BY <1>6, <1>a, SpawnFailsFacts
    <2>2. failed' # 0
      BY <1>a, <2>1
    <2>3. CASE co'.at = "admit"
      <3>1. /\ receipt'[co.job] = "spawn_error"
            /\ \A j \in Job : j # co.job => receipt'[j] = receipt[j]
        BY <1>a, <2>1, <2>3
      <3> QED
        BY <1>a, <1>c, <1>d, <1>e, <2>1, <2>2, <2>3, <3>1 DEF Good
    <2> QED
      BY <1>d, <2>1, <2>3
  <1>7. CASE SpawnUnconfirmed
    BY <1>7, SpawnUnconfirmedFacts, <1>a, <1>b, <1>c, <1>d
  <1>8. ASSUME NEW n \in 0..(Streams - 1), SetupFails(n) PROVE CoverInv'
    BY <1>8, SetupFailsFacts, <1>a, <1>b, <1>c, <1>d
  <1>9. CASE Scan
    <2>1. /\ co.at = "scan" /\ UNCHANGED <<queue, receipt, failed, result>>
          /\ \/ UNCHANGED active /\ co'.at \in {"loop", "scan"}
             \/ /\ ToSet(active') = ToSet(active) \ {co'.job}
                /\ co'.at = "kill" /\ co'.back = "scan"
      BY <1>9, <1>a, ScanFacts
    <2> QED
      BY <1>d, <2>1
  <1>10. CASE WaitFails
    <2>1. /\ co.at = "scan" /\ UNCHANGED <<queue, receipt, failed, result>>
          /\ \/ UNCHANGED active /\ co'.at \in {"loop", "scan"}
             \/ /\ ToSet(active') = ToSet(active) \ {co'.job}
                /\ co'.at = "kill" /\ co'.back = "scan"
      BY <1>10, <1>a, WaitFailsFacts
    <2> QED
      BY <1>d, <2>1
  <1>11. CASE GroupRetired
    BY <1>11, GroupRetiredFacts, <1>a, <1>b, <1>c, <1>d
  <1>12. CASE GroupUnconfirmed
    BY <1>12, GroupUnconfirmedFacts, <1>a, <1>b, <1>c, <1>d
  <1>13. CASE FinishReader
    BY <1>13, FinishReaderFacts, <1>a, <1>b, <1>c, <1>d
  <1>14. CASE Settle
    <2>1. /\ co.at = "settle" /\ co.back # "drain" /\ UNCHANGED <<queue, active, result>>
          /\ failed' = IF FinalVerdict = "completed" THEN failed ELSE failed + 1
          /\ \/ /\ receipt' = [receipt EXCEPT ![co.job] = FinalVerdict]
                /\ co'.at = co.back /\ co.clean
             \/ co'.at = "stop"
          /\ co.back \in {"admit", "scan"}
      BY <1>14, <1>a, SettleFacts
    <2>2. CASE co'.at # "stop"
      <3>1. Good(FinalVerdict)
        BY <2>1, <2>2, FinalVerdictFacts DEF TruthInv, Good
      <3>2. /\ receipt'[co.job] = FinalVerdict
            /\ \A j \in Job : j # co.job => receipt'[j] = receipt[j]
        BY <1>a, <2>1, <2>2
      <3>3. CASE FinalVerdict = "completed"
        BY <1>a, <1>c, <1>d, <1>e, <2>1, <2>2, <3>1, <3>2, <3>3
      <3>4. CASE FinalVerdict # "completed"
        <4>1. failed' # 0
          BY <1>a, <2>1, <3>4
        <4> QED
          BY <1>a, <1>c, <1>d, <1>e, <2>1, <2>2, <3>1, <3>2, <3>4, <4>1 DEF Good
      <3> QED
        BY <3>3, <3>4
    <2> QED
      BY <1>d, <2>1, <2>2
  <1>15. CASE Stop
    BY <1>15, StopFacts, <1>a, <1>b, <1>c, <1>d
  <1>16. CASE Drain
    BY <1>16, DrainFacts, <1>a, <1>b, <1>c, <1>d
  <1>17. CASE DrainSettled
    BY <1>17, DrainSettledFacts, <1>a, <1>b, <1>c, <1>d
  <1>18. CASE Environment
    <2>1. UNCHANGED <<co, queue, active, failed, receipt, result>>
      BY <1>18, EnvironmentFacts
    <2> QED
      BY <2>1
  <1>19. CASE UNCHANGED vars
    BY <1>19 DEF vars
  <1>20. CASE CleanupKill
    BY <1>20, CleanupKillFacts, <1>a, <1>b, <1>c, <1>d
  <1> QED
    BY <1>1, <1>2, <1>3, <1>4, <1>5, <1>6, <1>7, <1>8, <1>9, <1>10, <1>11, <1>12, <1>13,
       <1>14, <1>15, <1>16, <1>17, <1>18, <1>19, <1>20
       DEF Next, Coordinate, Environment

-----------------------------------------------------------------------------
(* The theorems *)

BatchInv == /\ ShapeInv /\ CleanInv /\ KillInv /\ PlaceInv /\ LedgerInv
            /\ OverInv /\ TruthInv /\ FailedInv /\ CoverInv

\* The batch starts with all jobs in the queue and nothing reserved.
LEMMA BatchInit == Init => BatchInv
  <1> SUFFICES ASSUME Init PROVE BatchInv
    OBVIOUS
  <1>1. /\ now = 0 /\ queue = Jobs /\ active = <<>> /\ killed = {} /\ missed = {}
        /\ ledger = 0 /\ slots = 0
        /\ group = [j \in Job |-> "none"] /\ main = [j \in Job |-> "none"]
        /\ wrote = [p \in Pipe |-> 0] /\ pipe = [p \in Pipe |-> 0]
        /\ reader = [p \in Pipe |-> [at |-> "none", stop |-> FALSE, retired |-> FALSE]]
        /\ kept = [j \in Job |-> 0] /\ exceeded = {} /\ readError = {}
        /\ receipt = [j \in Job |-> "none"] /\ failed = 0 /\ result = "running" /\ faults = 0
    BY DEF Init
  <1>2. Jobs \in Seq(Job) /\ Head(Jobs) \in Job /\ Len(Jobs) \in Nat
    BY Bounds
  <1>3. /\ co \in Coordinators /\ co.at = "loop" /\ co.index = 1 /\ co.stream = 1
    BY <1>2, Bounds DEF Init, Coordinators, Labels, Verdicts
  <1>4. ToSet(active) = {} /\ Len(active) = 0 /\ active \in Seq(Job) /\ ToSet(queue) \subseteq Job
    <2>1. active = <<>> /\ active \in Seq(Job) /\ queue \in Seq(Job)
      BY <1>1, <1>2
    <2> QED
      BY <2>1, MembersOf
  <1>5. \A j \in Job : Fresh(j) /\ ~Unfinished(j)
    <2>1. \A j \in Job : \A s \in 1..Streams : <<j, s>> \in Pipe
      BY DEF Pipe
    <2> QED
      BY <1>1, <2>1 DEF Fresh, Unfinished, Finished
  <1>6. ShapeInv
    <2>1. \A p \in Pipe : p[1] \in Job /\ Bytes[p[1]] \in Nat
      BY ExecutionAssumption DEF Pipe
    <2>2. \A p \in Pipe : wrote[p] \in 0..Bytes[p[1]] /\ pipe[p] \in 0..wrote[p]
      BY <1>1, <2>1
    <2>3. /\ now \in 0..MaxTime /\ faults \in 0..Faults /\ kept \in [Job -> 0..Limit]
          /\ wrote \in [Pipe -> Nat] /\ pipe \in [Pipe -> Nat]
      BY <1>1, Bounds
    <2>4. /\ reader \in [Pipe -> [at : {"none", "loop", "empty", "done"},
                                  stop : BOOLEAN, retired : BOOLEAN]]
          /\ receipt \in [Job -> Verdicts]
          /\ group \in [Job -> {"none", "live", "empty"}]
          /\ main \in [Job -> {"none", "running", "ok", "bad"}]
      BY <1>1 DEF Verdicts
    <2> QED
      BY <1>1, <1>2, <1>3, <1>4, <2>2, <2>3, <2>4 DEF ShapeInv
  <1>7. CleanInv /\ KillInv
    BY <1>1, <1>3 DEF CleanInv, KillInv, Draining, Cleans
  <1>8. PlaceInv
    BY <1>1, <1>3, <1>4, <1>5, ExecutionAssumption DEF PlaceInv, Distinct, Held, Cleans
  <1>9. LedgerInv
    <2>1. Stray = {}
      BY <1>5 DEF Stray, Loose, Fresh
    <2> QED
      BY <1>1, <1>3, <1>4, <2>1, FS_EmptySet, Bounds
      DEF LedgerInv, Held, Cleans, Ending, Draining, InHand, SlotInHand
  <1>10. OverInv /\ TruthInv /\ FailedInv
    BY <1>1, <1>2, <1>3, <1>4 DEF OverInv, TruthInv, FailedInv, Held, Cleans, InHand
  <1>11. CoverInv
    BY <1>1, <1>3 DEF CoverInv, Pending
  <1> QED
    BY <1>6, <1>7, <1>8, <1>9, <1>10, <1>11 DEF BatchInv

\* Every step keeps the types.
LEMMA ShapeStep == ShapeInv /\ PlaceInv /\ CleanInv /\ [Next]_vars => ShapeInv'
  <1> SUFFICES ASSUME ShapeInv, PlaceInv, CleanInv, [Next]_vars PROVE ShapeInv'
    OBVIOUS
  <1>1. CASE Coordinate
    BY <1>1, CoordinateShape DEF PlaceInv, CleanInv
  <1>2. CASE Environment
    BY <1>2, EnvironmentShape
  <1>3. CASE UNCHANGED vars
    BY <1>3 DEF ShapeInv, vars
  <1> QED
    BY <1>1, <1>2, <1>3 DEF Next, Environment

\* The inductive invariants hold in every reachable state.
LEMMA BatchInvariance == Spec => []BatchInv
  <1>1. BatchInv /\ [Next]_vars => BatchInv'
    BY ShapeStep, CleanStep, KillStep, PlaceStep, LedgerStep, OverStep, TruthStep, FailedStep,
       CoverStep
    DEF BatchInv
  <1> QED
    BY <1>1, BatchInit, PTL DEF Spec

\* Nothing is counted twice in the list.
LEMMA ListSize ==
    ASSUME NEW s \in Seq(Job)
    PROVE  IsFiniteSet(ToSet(s)) /\ Cardinality(ToSet(s)) <= Len(s)
  <1>1. Len(s) \in Nat /\ IsFiniteSet(1..Len(s)) /\ Cardinality(1..Len(s)) = Len(s)
    <2>1. ASSUME NEW n \in Nat PROVE IsFiniteSet(1..n) /\ Cardinality(1..n) = n
      BY FS_Interval
    <2> QED
      BY <2>1
  <1>2. s \in Surjection(1..Len(s), ToSet(s))
    <2>1. /\ s \in [1..Len(s) -> ToSet(s)]
          /\ \A j \in ToSet(s) : \E i \in 1..Len(s) : s[i] = j
      BY MembersOf
    <2> QED
      BY <2>1 DEF Surjection
  <1> QED
    BY <1>1, <1>2, FS_Surjection

\* TypeOK of ProcessExecution: no reservation and no slot is released that
\* was not taken, and no more jobs fail than were given.
THEOREM BatchTypes == Spec => []TypeOK
  <1>1. BatchInv => TypeOK
    <2> SUFFICES ASSUME BatchInv PROVE TypeOK
      OBVIOUS
    <2>1. failed \in 0..Len(Jobs)
      <3>1. /\ Len(queue) \in Nat /\ Len(active) \in Nat /\ InHand \in Nat /\ Len(Jobs) \in Nat
            /\ failed \in Nat /\ failed + Len(queue) + Len(active) + InHand <= Len(Jobs)
        BY MembersOf, Bounds DEF BatchInv, FailedInv, ShapeInv, InHand
      <3> QED
        BY <3>1
    <2> QED
      BY <2>1 DEF BatchInv, ShapeInv, LedgerInv, TypeOK
  <1> QED
    BY <1>1, BatchInvariance, PTL

\* When the batch is given up, every program left alive was sent a kill before the
\* first wait or its kill failed, and no receipt says it is over (stop_active,
\* cleanup_worker), whatever fails and in which order, kills included.
THEOREM AbortSafety == Spec => []AbortKills
  <1>1. BatchInv => AbortKills
    <2> SUFFICES ASSUME BatchInv, co.at = "drain" \/ result = "error",
                        NEW j \in Job, group[j] = "live"
                 PROVE  /\ j \in killed \cup missed
                        /\ receipt[j] \in {"none", "torn", "cleanup_unconfirmed"}
      BY DEF AbortKills
    <2>1. co.at = "drain" \/ co.at = "end"
      BY DEF BatchInv, KillInv
    <2>2. j \in killed \cup missed
      BY <2>1 DEF BatchInv, KillInv, Draining
    <2>3. ~Good(receipt[j])
      BY DEF BatchInv, OverInv
    <2> QED
      BY <2>2, <2>3 DEF Good
  <1> QED
    BY <1>1, BatchInvariance, PTL

\* Reservations cover every group that may live and every reader that may
\* run, within the budget, on every failure path (reserve_worker,
\* release_worker, cleanup_worker).
THEOREM MemorySafety == Spec => []MemoryCovered
  <1>1. BatchInv /\ TypeOK => MemoryCovered
    <2> SUFFICES ASSUME BatchInv, TypeOK PROVE MemoryCovered
      OBVIOUS
    <2> DEFINE Users == {j \in Job : group[j] = "live" \/ Unfinished(j)}
    <2>1. /\ IsFiniteSet(Stray) /\ Cardinality(Stray) \in Nat /\ Len(active) \in Nat
          /\ ledger \in Nat /\ slots \in Nat
          /\ Cardinality(Stray) + Len(active) + InHand <= ledger
          /\ ledger <= MaxRunning
          /\ slots + InHand <= ledger + SlotInHand
      BY MembersOf, FS_CardinalityType DEF BatchInv, LedgerInv, ShapeInv
    <2>2. InHand \in 0..1 /\ SlotInHand \in 0..1 /\ SlotInHand <= InHand
      BY DEF InHand, SlotInHand, Held, Cleans
    <2>3. /\ IsFiniteSet(ToSet(active)) /\ Cardinality(ToSet(active)) <= Len(active)
          /\ Cardinality(ToSet(active)) \in Nat
      BY ListSize, FS_CardinalityType DEF BatchInv, ShapeInv
    <2> DEFINE Both == Stray \cup ToSet(active)
    <2>4. /\ IsFiniteSet(Both) /\ Cardinality(Both) \in Nat
          /\ Cardinality(Both) <= Cardinality(Stray) + Cardinality(ToSet(active))
      <3>1. /\ IsFiniteSet(Both)
            /\ Cardinality(Both) = Cardinality(Stray) + Cardinality(ToSet(active))
                                     - Cardinality(Stray \cap ToSet(active))
        BY <2>1, <2>3, FS_Union
      <3>2. Cardinality(Stray \cap ToSet(active)) \in Nat
        BY <2>1, Fewer
      <3>3. Cardinality(Both) \in Nat
        BY <3>1, FS_CardinalityType
      <3> QED
        BY <2>1, <2>3, <3>1, <3>2, <3>3
    <2>5. Cardinality(Users) <= Cardinality(Both) + InHand /\ Cardinality(Users) \in Nat
      <3>1. CASE Held
        <4>1. Users \subseteq Both \cup {co.job}
          BY <3>1 DEF Stray, Loose
        <4> HIDE DEF Users, Both
        <4> QED
          BY <2>4, <3>1, <4>1, OneMore DEF InHand
      <3>2. CASE ~Held
        <4>1. Users \subseteq Both
          BY <3>2 DEF Stray, Loose
        <4> HIDE DEF Users, Both
        <4> QED
          BY <2>4, <3>2, <4>1, Fewer DEF InHand
      <3> QED
        BY <3>1, <3>2
    <2>6. Cardinality(Users) <= ledger /\ slots <= ledger
      <3> HIDE DEF Users, Both
      <3> QED
        BY <2>1, <2>2, <2>3, <2>4, <2>5
    <2> QED
      BY <2>1, <2>6 DEF MemoryCovered
  <1> QED
    BY <1>1, BatchInvariance, BatchTypes, PTL

\* A receipt that says completed is true, and a summary is only written when
\* every job has its receipt and every reservation came back; it says ok
\* only if all jobs completed (publish, the second look at the capture).
THEOREM ReceiptsSafety == Spec => []ReceiptsSound
  <1>1. BatchInv => ReceiptsSound
    BY DEF BatchInv, TruthInv, CoverInv, LedgerInv, Good, ReceiptsSound
  <1> QED
    BY <1>1, BatchInvariance, PTL

=============================================================================
