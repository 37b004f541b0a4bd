-------------------------- MODULE HttpServerProofs --------------------------
(***************************************************************************)
(* Safety of the interpreter's HTTP server for every set of connections,   *)
(* limits and scripts of the clients.  The argument says where a           *)
(* connection is (Kept, a predicate on values of net that every operation  *)
(* of the I/O thread preserves) and what the two threads still owe each    *)
(* other: a published response is observed in this round, or a wake-up is  *)
(* there or to come (ReplyInv, WakeInv, EarlyInv).                         *)
(***************************************************************************)
EXTENDS HttpServer, FiniteSetTheorems, SequenceTheorems, WellFoundedInduction, TLAPS

Distinct(q) == \A i, k \in 1..Len(q) : q[i] = q[k] => i = k

Nets == [sock : [Conn -> Sockets], slots : [Slot -> SlotStates],
         free : Seq(Slot), pending : Seq(Conn)]

\* Every connection is in the one place its socket names, and a slot is free
\* or holds one connection.
Placed(n) ==
    /\ Distinct(n.free) /\ Distinct(n.pending)
    /\ \A s \in Slot : n.slots[s].conn = NoConn <=> \E i \in 1..Len(n.free) : n.free[i] = s
    /\ \A s, t \in Slot :
         n.slots[s].conn = n.slots[t].conn /\ n.slots[s].conn # NoConn => s = t
    /\ \A s \in Slot : n.slots[s].conn # NoConn => n.sock[n.slots[s].conn].at = "slot"
    /\ \A c \in Conn : n.sock[c].at = "slot" => \E s \in Slot : n.slots[s].conn = c
    /\ \A i \in 1..Len(n.pending) : n.sock[n.pending[i]].at = "pending"
    /\ \A c \in Conn : n.sock[c].at = "pending" => \E i \in 1..Len(n.pending) : n.pending[i] = c

\* What the state of a slot says, and that a kept connection was answered.
Sound(n) ==
    /\ \A s \in Slot :
         /\ n.slots[s].conn = NoConn => n.slots[s] = EmptySlot
         /\ n.slots[s].conn # NoConn => n.slots[s].state # "none"
         /\ n.slots[s].reused => n.sock[n.slots[s].conn].served
         /\ n.slots[s].unscanned => n.slots[s].state = "header"
    /\ \A c \in Conn : n.sock[c].at = "closed" => n.sock[c].served

Kept(n) == n \in Nets /\ Placed(n) /\ Sound(n)

\* Permits of pending and active connections.
Taken(n) == Len(n.pending) + setup.active - Len(n.free)

LimitInv ==
    /\ Len(net.pending) <= setup.pending
    /\ Taken(net) + (IF rejecting.permit THEN 1 ELSE 0) <= setup.connections
    /\ rejecting.conn # NoConn => net.sock[rejecting.conn].at = "rejecting"

Waiting(s) == net.slots[s].state = "handler"

\* A response is there only for a request that waits for it, poll reports no
\* slot whose request waits, and the end of the I/O thread leaves none.
ReplyInv ==
    /\ \A r \in DOMAIN replies : \E s \in Slot : Waiting(s) /\ Current(net, s) = r
    /\ reactor.at = "events" => \A s \in Slot : Waiting(s) =>
          <<s, net.slots[s].conn, net.slots[s].job>> \notin reactor.events.conns
    /\ reactor.at = "end" => \A s \in Slot : ~Waiting(s)

Waking == {"notify", "stop", "wakeup", "join"}

\* A published response is met in this round, or a wake-up is there or to come.
WakeInv ==
    /\ handler.at \in {"wakeup", "join", "end"} => stop
    /\ handler.at = "join" => wake.byte \/ wake.shut \/ reactor.at \in {"top", "events", "end"}
    /\ \A s \in Slot : Waiting(s) /\ Current(net, s) \in DOMAIN replies =>
         \/ wake.byte \/ handler.at \in Waking
         \/ reactor.at \in {"top", "events"}
         \/ reactor.at = "observe" /\ s > reactor.slot

\* What was published before the round is observed before deadlines are.
EarlyInv ==
    /\ reactor.at \notin {"observe", "expire"} => early = {}
    /\ \A s \in Slot : Waiting(s) /\ Current(net, s) \in early =>
         reactor.at = "observe" /\ s > reactor.slot /\ Current(net, s) \in DOMAIN replies

ShapeInv == TypeOK /\ (handler.at \in {"run", "publish"} => handler.job \in Request)

HttpInv == ShapeInv /\ Kept(net) /\ LimitInv /\ ReplyInv /\ WakeInv /\ EarlyInv

-----------------------------------------------------------------------------
(* Slots *)

\* The connection of slot s stays there, and nothing else changes.
Stays(n, m, s) ==
    /\ m \in Nets /\ m.free = n.free /\ m.pending = n.pending
    /\ \A t \in Slot : t # s => m.slots[t] = n.slots[t]
    /\ \A c \in Conn : c # n.slots[s].conn => m.sock[c] = n.sock[c]
    /\ m.slots[s].conn = n.slots[s].conn
    /\ m.slots[s].state # "none"
    /\ m.slots[s].unscanned => m.slots[s].state = "header"
    /\ m.slots[s].reused => m.sock[n.slots[s].conn].served
    /\ m.sock[n.slots[s].conn].at = "slot"

\* As in any turn of the slot that is not the dispatch of its request.
Revised(n, m, s) == Stays(n, m, s) /\ m.slots[s].state # "handler"

\* The connection of slot s is closed, and nothing else changes.
Vacated(n, m, s) ==
    /\ m \in Nets /\ m.free = Append(n.free, s) /\ m.pending = n.pending
    /\ \A t \in Slot : t # s => m.slots[t] = n.slots[t]
    /\ \A c \in Conn : c # n.slots[s].conn => m.sock[c] = n.sock[c]
    /\ m.slots[s] = EmptySlot
    /\ m.sock[n.slots[s].conn].at = "closed" /\ m.sock[n.slots[s].conn].served

\* What a turn of slot s can do.
Polled(n, m, s) == m = n \/ Revised(n, m, s) \/ Vacated(n, m, s)

\* The limits are natural numbers.
LEMMA LimitFacts ==
    ASSUME setup \in Setups
    PROVE  /\ setup.active \in Nat \ {0} /\ setup.pending \in Nat \ {0}
           /\ setup.connections \in Nat \ {0}
           /\ Slot \subseteq Nat \ {0}
           /\ EmptySlot \in SlotStates /\ NoConn \notin Conn
  <1>1. setup.active \in Nat \ {0} /\ setup.pending \in Nat \ {0}
        /\ setup.connections \in Nat \ {0}
    BY HttpAssumption
  <1>2. Slot \subseteq Nat \ {0}
    BY <1>1 DEF Slot
  <1>3. EmptySlot \in SlotStates
    BY DEF EmptySlot, SlotStates, Answers
  <1>4. QED
    BY <1>1, <1>2, <1>3, HttpAssumption

\* An empty slot has no connection and no marks.
LEMMA EmptyFacts ==
    /\ EmptySlot.conn = NoConn /\ EmptySlot.state = "none" /\ EmptySlot.job = 0
    /\ EmptySlot.reused = FALSE /\ EmptySlot.unscanned = FALSE /\ EmptySlot.late = FALSE
    /\ EmptySlot.keep = FALSE /\ EmptySlot.answer = "none"
  BY DEF EmptySlot

\* The parts of a value of net.
LEMMA NetFacts ==
    ASSUME NEW n \in Nets
    PROVE  /\ n.sock \in [Conn -> Sockets] /\ n.slots \in [Slot -> SlotStates]
           /\ n.free \in Seq(Slot) /\ n.pending \in Seq(Conn)
           /\ Len(n.free) \in Nat /\ Len(n.pending) \in Nat
           /\ \A i \in 1..Len(n.free) : n.free[i] \in Slot
           /\ \A i \in 1..Len(n.pending) : n.pending[i] \in Conn
           /\ \A s \in Slot : n.slots[s] \in SlotStates
           /\ \A c \in Conn : n.sock[c] \in Sockets
  <1>1. /\ n.sock \in [Conn -> Sockets] /\ n.slots \in [Slot -> SlotStates]
        /\ n.free \in Seq(Slot) /\ n.pending \in Seq(Conn)
    BY DEF Nets
  <1>2. QED
    BY <1>1, LenProperties, ElementOfSeq

\* A connection that stays in its slot.
LEMMA StaysKept ==
    ASSUME setup \in Setups, NEW n, Kept(n), NEW s \in Slot, n.slots[s].conn # NoConn,
           NEW m, Stays(n, m, s)
    PROVE  Kept(m)
  <1>1. n.slots[s].conn \in Conn /\ n \in Nets
    BY NetFacts DEF Kept, SlotStates
  <1>2. Placed(m)
    <2>1. \A t \in Slot : m.slots[t].conn = n.slots[t].conn
      BY DEF Stays
    <2>2. \A c \in Conn : m.sock[c].at = n.sock[c].at
      BY <1>1 DEF Stays, Kept, Placed
    <2>3. m.free = n.free /\ m.pending = n.pending
      BY DEF Stays
    <2>4. \A t \in Slot : n.slots[t].conn # NoConn => n.slots[t].conn \in Conn
      BY <1>1, NetFacts DEF SlotStates
    <2>5. \A i \in 1..Len(n.pending) : n.pending[i] \in Conn
      BY <1>1, NetFacts
    <2>6. QED
      BY <2>1, <2>2, <2>3, <2>4, <2>5 DEF Kept, Placed
  <1>3. Sound(m)
    <2>1. \A t \in Slot : t # s /\ n.slots[t].conn # NoConn =>
             n.slots[t].conn # n.slots[s].conn /\ n.slots[t].conn \in Conn
      BY <1>1, NetFacts DEF Kept, Placed, SlotStates
    <2>2. ASSUME NEW t \in Slot
          PROVE  /\ m.slots[t].conn = NoConn => m.slots[t] = EmptySlot
                 /\ m.slots[t].conn # NoConn => m.slots[t].state # "none"
                 /\ m.slots[t].reused => m.sock[m.slots[t].conn].served
                 /\ m.slots[t].unscanned => m.slots[t].state = "header"
      <3>1. CASE t = s
        BY <3>1 DEF Stays
      <3>2. CASE t # s
        <4>1. m.slots[t] = n.slots[t]
          BY <3>2 DEF Stays
        <4>2. CASE n.slots[t].conn = NoConn
          <5>1. n.slots[t] = EmptySlot
            BY <4>2 DEF Kept, Sound
          <5>2. QED
            BY <4>1, <5>1, EmptyFacts
        <4>3. CASE n.slots[t].conn # NoConn
          <5>1. m.sock[n.slots[t].conn] = n.sock[n.slots[t].conn]
            BY <2>1, <3>2, <4>3 DEF Stays
          <5>2. QED
            BY <4>1, <4>3, <5>1 DEF Kept, Sound
        <4>4. QED
          BY <4>2, <4>3
      <3>3. QED
        BY <3>1, <3>2
    <2>3. \A c \in Conn : m.sock[c].at = "closed" => m.sock[c].served
      BY DEF Stays, Kept, Sound
    <2>4. QED
      BY <2>2, <2>3 DEF Sound
  <1>4. QED
    BY <1>2, <1>3 DEF Kept, Stays

LEMMA RevisedKept ==
    ASSUME setup \in Setups, NEW n, Kept(n), NEW s \in Slot, n.slots[s].conn # NoConn,
           NEW m, Revised(n, m, s)
    PROVE  Kept(m)
  BY StaysKept DEF Revised

\* Appending to a sequence.
LEMMA PushFacts ==
    ASSUME NEW S, NEW q \in Seq(S), NEW x \in S
    PROVE  /\ Append(q, x) \in Seq(S) /\ Len(Append(q, x)) = Len(q) + 1 /\ Len(q) \in Nat
           /\ Append(q, x)[Len(q) + 1] = x
           /\ \A i \in 1..Len(q) : Append(q, x)[i] = q[i]
           /\ \A y : (\E i \in 1..Len(Append(q, x)) : Append(q, x)[i] = y)
                       <=> y = x \/ \E i \in 1..Len(q) : q[i] = y
           /\ Distinct(q) /\ (\A i \in 1..Len(q) : q[i] # x) => Distinct(Append(q, x))
  <1> DEFINE p == Append(q, x)
  <1>1. /\ p \in Seq(S) /\ Len(p) = Len(q) + 1 /\ Len(q) \in Nat
        /\ p[Len(q) + 1] = x /\ \A i \in 1..Len(q) : p[i] = q[i]
    BY AppendProperties, LenProperties
  <1> HIDE DEF p
  <1>2. \A i \in 1..Len(p) : i \in 1..Len(q) \/ i = Len(q) + 1
    BY <1>1
  <1>3. \A i \in 1..Len(q) : i \in 1..Len(p)
    BY <1>1
  <1>4. Len(q) + 1 \in 1..Len(p)
    BY <1>1
  <1>5. \A y : (\E i \in 1..Len(p) : p[i] = y) <=> y = x \/ \E i \in 1..Len(q) : q[i] = y
    BY <1>1, <1>2, <1>3, <1>4
  <1>6. ASSUME Distinct(q), \A i \in 1..Len(q) : q[i] # x
        PROVE  Distinct(p)
    BY <1>1, <1>2, <1>6 DEF Distinct
  <1>7. QED
    BY <1>1, <1>5, <1>6 DEF p

\* A connection that leaves its slot.
LEMMA VacatedKept ==
    ASSUME setup \in Setups, NEW n, Kept(n), NEW s \in Slot, n.slots[s].conn # NoConn,
           NEW m, Vacated(n, m, s)
    PROVE  Kept(m) /\ Len(m.free) = Len(n.free) + 1
  <1>1. n.slots[s].conn \in Conn /\ n \in Nets
    BY NetFacts DEF Kept, SlotStates
  <1> DEFINE c == n.slots[s].conn
  <1>2. \A t \in Slot : t # s /\ n.slots[t].conn # NoConn =>
           n.slots[t].conn # n.slots[s].conn /\ n.slots[t].conn \in Conn
    BY <1>1, NetFacts DEF Kept, Placed, SlotStates
  <1>3. m.slots[s].conn = NoConn /\ \A t \in Slot : t # s => m.slots[t] = n.slots[t]
    BY DEF Vacated, EmptySlot
  <1>4. \A d \in Conn : d # c => m.sock[d] = n.sock[d]
    BY DEF Vacated
  <1>5. m.sock[c].at = "closed" /\ m.sock[c].served
    BY DEF Vacated
  <1>6. n.sock[c].at = "slot"
    BY <1>1 DEF Kept, Placed
  <1>7. /\ Distinct(m.free) /\ Len(m.free) = Len(n.free) + 1
        /\ \A t : (\E i \in 1..Len(m.free) : m.free[i] = t)
                    <=> t = s \/ \E i \in 1..Len(n.free) : n.free[i] = t
    <2>1. m.free = Append(n.free, s) /\ n.free \in Seq(Slot) /\ Distinct(n.free)
      BY <1>1, NetFacts DEF Vacated, Kept, Placed
    <2>2. \A i \in 1..Len(n.free) : n.free[i] # s
      BY DEF Kept, Placed
    <2>3. QED
      BY <2>1, <2>2, PushFacts
  <1>8. \A t \in Slot : m.slots[t].conn = NoConn <=> \E i \in 1..Len(m.free) : m.free[i] = t
    <2> SUFFICES ASSUME NEW t \in Slot
                 PROVE  m.slots[t].conn = NoConn <=> \E i \in 1..Len(m.free) : m.free[i] = t
      OBVIOUS
    <2>1. n.slots[t].conn = NoConn <=> \E i \in 1..Len(n.free) : n.free[i] = t
      BY DEF Kept, Placed
    <2>2. (\E i \in 1..Len(m.free) : m.free[i] = t)
            <=> t = s \/ \E i \in 1..Len(n.free) : n.free[i] = t
      BY <1>7
    <2>3. m.slots[t].conn = NoConn <=> t = s \/ n.slots[t].conn = NoConn
      BY <1>3
    <2>4. QED
      BY <2>1, <2>2, <2>3
  <1>9. \A t, u \in Slot :
          m.slots[t].conn = m.slots[u].conn /\ m.slots[t].conn # NoConn => t = u
    BY <1>3 DEF Kept, Placed
  <1>10. \A t \in Slot : m.slots[t].conn # NoConn => m.sock[m.slots[t].conn].at = "slot"
    BY <1>2, <1>3, <1>4 DEF Kept, Placed
  <1>11. \A d \in Conn : m.sock[d].at = "slot" => \E t \in Slot : m.slots[t].conn = d
    <2> SUFFICES ASSUME NEW d \in Conn, m.sock[d].at = "slot"
                 PROVE  \E t \in Slot : m.slots[t].conn = d
      OBVIOUS
    <2>1. d # c /\ n.sock[d].at = "slot"
      BY <1>4, <1>5
    <2>2. PICK t \in Slot : n.slots[t].conn = d
      BY <2>1 DEF Kept, Placed
    <2>3. QED
      BY <1>3, <2>1, <2>2
  <1>12. m.pending = n.pending /\ \A i \in 1..Len(n.pending) : n.pending[i] \in Conn
    BY <1>1, NetFacts DEF Vacated
  <1>13. \A i \in 1..Len(m.pending) : m.sock[m.pending[i]].at = "pending"
    BY <1>4, <1>6, <1>12 DEF Kept, Placed
  <1>14. \A d \in Conn : m.sock[d].at = "pending" =>
            \E i \in 1..Len(m.pending) : m.pending[i] = d
    BY <1>4, <1>5, <1>12 DEF Kept, Placed
  <1>15. Placed(m)
    BY <1>7, <1>8, <1>9, <1>10, <1>11, <1>12, <1>13, <1>14 DEF Placed, Kept
  <1>16. ASSUME NEW t \in Slot
         PROVE  /\ m.slots[t].conn = NoConn => m.slots[t] = EmptySlot
                /\ m.slots[t].conn # NoConn => m.slots[t].state # "none"
                /\ m.slots[t].reused => m.sock[m.slots[t].conn].served
                /\ m.slots[t].unscanned => m.slots[t].state = "header"
    <2>1. CASE t = s
      BY <2>1 DEF Vacated, EmptySlot
    <2>2. CASE t # s
      <3>1. m.slots[t] = n.slots[t]
        BY <1>3, <2>2
      <3>2. CASE n.slots[t].conn = NoConn
        <4>1. n.slots[t] = EmptySlot
          BY <3>2 DEF Kept, Sound
        <4>2. QED
          BY <3>1, <4>1, EmptyFacts
      <3>3. CASE n.slots[t].conn # NoConn
        <4>1. m.sock[n.slots[t].conn] = n.sock[n.slots[t].conn]
          BY <1>2, <1>4, <2>2, <3>3
        <4>2. QED
          BY <3>1, <3>3, <4>1 DEF Kept, Sound
      <3>4. QED
        BY <3>2, <3>3
    <2>3. QED
      BY <2>1, <2>2
  <1>17. \A d \in Conn : m.sock[d].at = "closed" => m.sock[d].served
    BY <1>4, <1>5 DEF Kept, Sound
  <1>18. QED
    BY <1>7, <1>15, <1>16, <1>17 DEF Kept, Sound, Vacated

\* What is known of a slot that holds a connection.
LEMMA HeldFacts ==
    ASSUME setup \in Setups, NEW n, Kept(n), NEW s \in Slot, n.slots[s].conn # NoConn
    PROVE  /\ n \in Nets /\ n.slots[s] \in SlotStates /\ n.slots[s].conn \in Conn
           /\ n.sock[n.slots[s].conn] \in Sockets
           /\ n.sock[n.slots[s].conn].at = "slot"
           /\ n.slots[s].reused => n.sock[n.slots[s].conn].served
           /\ n.slots[s].state # "none"
           /\ n.slots[s].unscanned => n.slots[s].state = "header"
           /\ n.sock[n.slots[s].conn].sent \in Nat /\ n.sock[n.slots[s].conn].read \in Nat
           /\ n.sock[n.slots[s].conn].done \in Nat
  <1>1. n \in Nets /\ n.slots[s] \in SlotStates /\ n.slots[s].conn \in Conn
    BY NetFacts DEF Kept, SlotStates
  <1>2. n.sock[n.slots[s].conn] \in Sockets
    BY <1>1, NetFacts
  <1>3. QED
    BY <1>1, <1>2 DEF Kept, Placed, Sound, Sockets

\* n with the connection of s and its socket replaced, and other free slots.
Edit(n, s, a, b, q) == [n EXCEPT !.sock[n.slots[s].conn] = a, !.slots[s] = b, !.free = q]

LEMMA EditFacts ==
    ASSUME NEW n \in Nets, NEW s \in Slot, n.slots[s].conn \in Conn, NEW b \in SlotStates,
           NEW a \in Sockets, NEW q \in Seq(Slot), NEW m, m = Edit(n, s, a, b, q)
    PROVE  /\ m \in Nets /\ m.free = q /\ m.pending = n.pending
           /\ m.slots[s] = b /\ \A t \in Slot : t # s => m.slots[t] = n.slots[t]
           /\ m.sock[n.slots[s].conn] = a
           /\ \A d \in Conn : d # n.slots[s].conn => m.sock[d] = n.sock[d]
  BY DEF Nets, Edit

\* Another state of the connection of s.
LEMMA EditStays ==
    ASSUME setup \in Setups, NEW n, Kept(n), NEW s \in Slot, n.slots[s].conn # NoConn,
           NEW a \in Sockets, NEW b \in SlotStates,
           a.at = "slot", b.reused => a.served, b.conn = n.slots[s].conn,
           b.state # "none", b.unscanned => b.state = "header",
           NEW m, m = Edit(n, s, a, b, n.free)
    PROVE  Stays(n, m, s) /\ m.slots[s] = b
  <1>1. n \in Nets /\ n.slots[s].conn \in Conn /\ n.free \in Seq(Slot)
    BY HeldFacts, NetFacts
  <1>2. /\ m \in Nets /\ m.free = n.free /\ m.pending = n.pending
        /\ m.slots[s] = b /\ \A t \in Slot : t # s => m.slots[t] = n.slots[t]
        /\ m.sock[n.slots[s].conn] = a
        /\ \A d \in Conn : d # n.slots[s].conn => m.sock[d] = n.sock[d]
    BY <1>1, EditFacts
  <1>3. QED
    BY <1>2 DEF Stays

LEMMA EditRevises ==
    ASSUME setup \in Setups, NEW n, Kept(n), NEW s \in Slot, n.slots[s].conn # NoConn,
           NEW a \in Sockets, NEW b \in SlotStates,
           a.at = "slot", b.reused => a.served, b.conn = n.slots[s].conn,
           b.state \notin {"none", "handler"}, b.unscanned => b.state = "header",
           NEW m, m = Edit(n, s, a, b, n.free)
    PROVE  Revised(n, m, s)
  BY EditStays DEF Revised

\* An answer is written to the connection of s.
LEMMA StartWriteRevises ==
    ASSUME setup \in Setups, NEW n, Kept(n), NEW s \in Slot, n.slots[s].conn # NoConn,
           NEW answer \in Answers, NEW keep \in BOOLEAN
    PROVE  /\ Revised(n, StartWrite(n, s, answer, keep), s)
           /\ StartWrite(n, s, answer, keep).slots[s].state = "write"
           /\ StartWrite(n, s, answer, keep).slots[s].answer = answer
  <1>1. PICK b : b = [n.slots[s] EXCEPT !.state = "write", !.answer = answer, !.keep = keep,
                                        !.late = FALSE, !.unscanned = FALSE]
    OBVIOUS
  <1>2. PICK a : a = n.sock[n.slots[s].conn]
    OBVIOUS
  <1>3. n \in Nets /\ n.slots[s] \in SlotStates /\ n.slots[s].conn \in Conn /\ a \in Sockets
    BY <1>2, HeldFacts
  <1>4. /\ b \in SlotStates /\ b.state = "write" /\ b.answer = answer
        /\ b.conn = n.slots[s].conn /\ b.unscanned = FALSE /\ b.reused = n.slots[s].reused
    BY <1>1, <1>3 DEF SlotStates, Answers
  <1>5. StartWrite(n, s, answer, keep) = Edit(n, s, a, b, n.free)
    BY <1>1, <1>2, <1>3 DEF StartWrite, Nets, Edit
  <1>6. Revised(n, StartWrite(n, s, answer, keep), s)
    BY <1>2, <1>3, <1>4, <1>5, HeldFacts, EditRevises
  <1>7. StartWrite(n, s, answer, keep).slots[s] = b
    BY <1>3, <1>4, <1>5, NetFacts, EditFacts, SMTT(30)
  <1>8. QED
    BY <1>4, <1>6, <1>7

\* The request of s is complete.
LEMMA CompleteRevises ==
    ASSUME setup \in Setups, NEW n, Kept(n), NEW s \in Slot, n.slots[s].conn # NoConn,
           NEW e \in Nat
    PROVE  Revised(n, Complete(n, s, e), s)
  <1>1. PICK b : b = [n.slots[s] EXCEPT !.state = "request", !.unscanned = FALSE,
                                        !.late = FALSE]
    OBVIOUS
  <1>2. PICK a : a = [n.sock[n.slots[s].conn] EXCEPT !.done = e]
    OBVIOUS
  <1>3. /\ n \in Nets /\ n.slots[s] \in SlotStates /\ n.slots[s].conn \in Conn
        /\ n.sock[n.slots[s].conn] \in Sockets
    BY HeldFacts
  <1>4. /\ b \in SlotStates /\ b.state = "request"
        /\ b.conn = n.slots[s].conn /\ b.unscanned = FALSE /\ b.reused = n.slots[s].reused
    BY <1>1, <1>3 DEF SlotStates
  <1>5. /\ a \in Sockets /\ a.at = n.sock[n.slots[s].conn].at
        /\ a.served = n.sock[n.slots[s].conn].served
    BY <1>2, <1>3 DEF Sockets
  <1>6. Complete(n, s, e) = Edit(n, s, a, b, n.free)
    BY <1>1, <1>2, <1>3 DEF Complete, Nets, Edit
  <1>7. QED
    BY <1>4, <1>5, <1>6, HeldFacts, EditRevises, ZenonT(30)

\* The connection of s is closed; it has been answered.
LEMMA CloseSlotVacates ==
    ASSUME setup \in Setups, NEW n, Kept(n), NEW s \in Slot, n.slots[s].conn # NoConn,
           n.sock[n.slots[s].conn].served
    PROVE  Vacated(n, CloseSlot(n, s), s)
  <1>1. PICK a : a = Over(n.sock[n.slots[s].conn], "closed")
    OBVIOUS
  <1>2. PICK q : q = Append(n.free, s)
    OBVIOUS
  <1>3. /\ n \in Nets /\ n.slots[s].conn \in Conn /\ n.sock[n.slots[s].conn] \in Sockets
        /\ EmptySlot \in SlotStates /\ n.free \in Seq(Slot)
    BY HeldFacts, LimitFacts, NetFacts
  <1>4. a \in Sockets /\ a.at = "closed" /\ a.served = n.sock[n.slots[s].conn].served
    BY <1>1, <1>3 DEF Sockets, Over, NewSocket
  <1>5. q \in Seq(Slot)
    BY <1>2, <1>3, PushFacts
  <1>6. CloseSlot(n, s) = Edit(n, s, a, EmptySlot, q)
    BY <1>1, <1>2, <1>3 DEF CloseSlot, Nets, Edit
  <1>7. PICK m : m = CloseSlot(n, s)
    OBVIOUS
  <1>8. /\ m \in Nets /\ m.free = q /\ m.pending = n.pending
        /\ m.slots[s] = EmptySlot /\ \A t \in Slot : t # s => m.slots[t] = n.slots[t]
        /\ m.sock[n.slots[s].conn] = a
        /\ \A d \in Conn : d # n.slots[s].conn => m.sock[d] = n.sock[d]
    BY <1>3, <1>4, <1>5, <1>6, <1>7, EditFacts
  <1>9. Vacated(n, m, s)
    BY <1>2, <1>4, <1>8 DEF Vacated
  <1>10. QED
    BY <1>7, <1>9

\* Two turns of the same slot are one.
LEMMA PolledAgain ==
    ASSUME NEW n, NEW k, NEW m, NEW s \in Slot,
           k = n \/ Revised(n, k, s), Polled(k, m, s)
    PROVE  Polled(n, m, s)
  <1>1. CASE k = n
    BY <1>1
  <1>2. CASE Revised(n, k, s) /\ m = k
    BY <1>2 DEF Polled
  <1>3. CASE Revised(n, k, s) /\ Revised(k, m, s)
    <2>1. Revised(n, m, s)
      BY <1>3 DEF Revised, Stays
    <2>2. QED
      BY <2>1 DEF Polled
  <1>4. CASE Revised(n, k, s) /\ Vacated(k, m, s)
    <2>1. Vacated(n, m, s)
      BY <1>4, SMTT(30) DEF Revised, Stays, Vacated
    <2>2. QED
      BY <2>1 DEF Polled
  <1>5. QED
    BY <1>1, <1>2, <1>3, <1>4 DEF Polled

\* The connection of s gets its answer, or no longer can.
LEMMA ServedRevises ==
    ASSUME setup \in Setups, NEW n, Kept(n), NEW s \in Slot, n.slots[s].conn # NoConn,
           n.slots[s].state = "write",
           NEW m, m = [n EXCEPT !.sock[n.slots[s].conn].served = TRUE]
    PROVE  /\ Revised(n, m, s) /\ Kept(m) /\ m.sock[n.slots[s].conn].served
           /\ m.slots = n.slots /\ m.free = n.free
           /\ m.sock[n.slots[s].conn].read = n.sock[n.slots[s].conn].read
           /\ m.sock[n.slots[s].conn].done = n.sock[n.slots[s].conn].done
  <1>1. PICK a : a = [n.sock[n.slots[s].conn] EXCEPT !.served = TRUE]
    OBVIOUS
  <1>2. PICK b : b = n.slots[s]
    OBVIOUS
  <1>3. /\ n \in Nets /\ n.slots[s] \in SlotStates /\ n.slots[s].conn \in Conn
        /\ n.sock[n.slots[s].conn] \in Sockets
    BY HeldFacts, SMTT(30)
  <1>4. /\ a \in Sockets /\ a.at = n.sock[n.slots[s].conn].at /\ a.served = TRUE
        /\ a.read = n.sock[n.slots[s].conn].read /\ a.done = n.sock[n.slots[s].conn].done
    BY <1>1, <1>3 DEF Sockets
  <1>5. m = Edit(n, s, a, b, n.free)
    BY <1>1, <1>2, <1>3 DEF Nets, Edit
  <1>6. Revised(n, m, s)
    BY <1>2, <1>3, <1>4, <1>5, HeldFacts, EditRevises, ZenonT(30)
  <1>7. m.sock[n.slots[s].conn] = a
    BY <1>1, <1>3 DEF Nets
  <1>8. m.slots = n.slots /\ m.free = n.free
    BY <1>3 DEF Nets
  <1>9. QED
    BY <1>4, <1>6, <1>7, <1>8, RevisedKept

\* The connection of s is closed after its answer.
LEMMA ServedCloses ==
    ASSUME setup \in Setups, NEW n, Kept(n), NEW s \in Slot, n.slots[s].conn # NoConn,
           n.slots[s].state = "write",
           NEW m, m = [n EXCEPT !.sock[n.slots[s].conn].served = TRUE]
    PROVE  Polled(n, CloseSlot(m, s), s)
  <1>1. Revised(n, m, s) /\ Kept(m) /\ m.sock[n.slots[s].conn].served /\ m.slots = n.slots
    BY ServedRevises
  <1>2. Vacated(m, CloseSlot(m, s), s)
    BY <1>1, CloseSlotVacates
  <1>3. QED
    BY <1>1, <1>2, PolledAgain DEF Polled

\* Connection::expire.
LEMMA ExpirePolled ==
    ASSUME setup \in Setups, NEW n, Kept(n), NEW s \in Slot
    PROVE  /\ n.slots[s].conn # NoConn => Polled(n, Expire(n, s), s)
           /\ n.slots[s].conn = NoConn => Expire(n, s) = n
           /\ ~Late(n, s) => Expire(n, s) = n
  <1>1. ~Late(n, s) => Expire(n, s) = n
    BY DEF Expire
  <1>2. ASSUME n.slots[s].conn = NoConn PROVE ~Late(n, s)
    <2>1. n.slots[s] = EmptySlot
      BY <1>2 DEF Kept, Sound
    <2>2. QED
      BY <2>1, EmptyFacts DEF Late
  <1>3. ASSUME n.slots[s].conn # NoConn PROVE Polled(n, Expire(n, s), s)
    <2>1. CASE ~Late(n, s)
      BY <1>1, <2>1 DEF Polled
    <2>2. CASE Late(n, s) /\ n.slots[s].state = "write"
      <3>1. Expire(n, s) = CloseSlot([n EXCEPT !.sock[n.slots[s].conn].served = TRUE], s)
        BY <2>2 DEF Expire
      <3>2. QED
        BY <1>3, <2>2, <3>1, ServedCloses
    <2>3. CASE Late(n, s) /\ n.slots[s].state # "write"
      <3>1. PICK answer \in Answers : Expire(n, s) = StartWrite(n, s, answer, FALSE)
        BY <2>3 DEF Expire, Answers
      <3>2. FALSE \in BOOLEAN
        OBVIOUS
      <3>3. Revised(n, StartWrite(n, s, answer, FALSE), s)
        BY <1>3, <3>2, StartWriteRevises
      <3>4. QED
        BY <3>1, <3>3 DEF Polled
    <2>4. QED
      BY <2>1, <2>2, <2>3
  <1>4. QED
    BY <1>1, <1>2, <1>3

\* A nonempty set of naturals has a least element.
LEMMA LeastOf ==
    ASSUME NEW S \in SUBSET Nat, S # {}
    PROVE  \E k \in S : \A j \in S : ~(j < k)
  <1>1. PICK k \in S : \A j \in S : ~(<<j, k>> \in OpToRel(<, Nat))
    BY WFMin, NatLessThanWellFounded, Zenon
  <1>2. QED
    BY <1>1 DEF OpToRel

\* More of what arrived is read.
LEMMA ReadRevises ==
    ASSUME setup \in Setups, NEW n, Kept(n), NEW s \in Slot, n.slots[s].conn # NoConn,
           n.slots[s].state \in {"header", "body"}, NEW k \in Nat,
           NEW m, m = [n EXCEPT !.sock[n.slots[s].conn].read = k]
    PROVE  Revised(n, m, s) /\ Kept(m) /\ m.slots = n.slots
  <1>1. PICK a : a = [n.sock[n.slots[s].conn] EXCEPT !.read = k]
    OBVIOUS
  <1>2. PICK b : b = n.slots[s]
    OBVIOUS
  <1>3. /\ n \in Nets /\ n.slots[s] \in SlotStates /\ n.slots[s].conn \in Conn
        /\ n.sock[n.slots[s].conn] \in Sockets
    BY HeldFacts
  <1>4. /\ a \in Sockets /\ a.at = n.sock[n.slots[s].conn].at
        /\ a.served = n.sock[n.slots[s].conn].served
    BY <1>1, <1>3 DEF Sockets
  <1>5. m = Edit(n, s, a, b, n.free)
    BY <1>1, <1>2, <1>3 DEF Nets, Edit
  <1>6. Revised(n, m, s)
    <2>1. /\ a.at = "slot" /\ (b.reused => a.served)
          /\ b.unscanned => b.state = "header"
      BY <1>2, <1>4, HeldFacts
    <2>2. b.conn = n.slots[s].conn /\ b.state \notin {"none", "handler"} /\ b \in SlotStates
      BY <1>2, <1>3
    <2>3. QED
      BY <1>4, <1>5, <2>1, <2>2, EditRevises
  <1>7. m.slots = n.slots
    BY <1>3 DEF Nets
  <1>8. QED
    BY <1>6, <1>7, RevisedKept

\* What is buffered was scanned, or its header is done and has a body.
LEMMA ScannedRevises ==
    ASSUME setup \in Setups, NEW n, Kept(n), NEW s \in Slot, n.slots[s].conn # NoConn,
           n.slots[s].state = "header", NEW e \in Nat
    PROVE  /\ Revised(n, [n EXCEPT !.slots[s].unscanned = FALSE], s)
           /\ Revised(n, [n EXCEPT !.sock[n.slots[s].conn].done = e, !.slots[s].state = "body",
                                   !.slots[s].unscanned = FALSE], s)
  <1>1. PICK a : a = [n.sock[n.slots[s].conn] EXCEPT !.done = e]
    OBVIOUS
  <1>2. PICK b : b = [n.slots[s] EXCEPT !.state = "body", !.unscanned = FALSE]
    OBVIOUS
  <1>3. PICK d : d = [n.slots[s] EXCEPT !.unscanned = FALSE]
    OBVIOUS
  <1>4. PICK f : f = n.sock[n.slots[s].conn]
    OBVIOUS
  <1>5. /\ n \in Nets /\ n.slots[s] \in SlotStates /\ n.slots[s].conn \in Conn
        /\ n.sock[n.slots[s].conn] \in Sockets
    BY HeldFacts, SMTT(30)
  <1>6. /\ a \in Sockets /\ a.at = n.sock[n.slots[s].conn].at
        /\ a.served = n.sock[n.slots[s].conn].served
    BY <1>1, <1>5 DEF Sockets
  <1>7. /\ b \in SlotStates /\ b.state = "body"
        /\ b.conn = n.slots[s].conn /\ b.unscanned = FALSE /\ b.reused = n.slots[s].reused
        /\ d \in SlotStates /\ d.state = "header"
        /\ d.conn = n.slots[s].conn /\ d.unscanned = FALSE /\ d.reused = n.slots[s].reused
    BY <1>2, <1>3, <1>5 DEF SlotStates
  <1>8. [n EXCEPT !.slots[s].unscanned = FALSE] = Edit(n, s, f, d, n.free)
    BY <1>3, <1>4, <1>5 DEF Nets, Edit
  <1>9. [n EXCEPT !.sock[n.slots[s].conn].done = e, !.slots[s].state = "body",
                  !.slots[s].unscanned = FALSE] = Edit(n, s, a, b, n.free)
    BY <1>1, <1>2, <1>5 DEF Nets, Edit
  <1>10. Revised(n, Edit(n, s, f, d, n.free), s)
    BY <1>4, <1>5, <1>7, HeldFacts, EditRevises
  <1>11. Revised(n, Edit(n, s, a, b, n.free), s)
    BY <1>5, <1>6, <1>7, HeldFacts, EditRevises
  <1>12. QED
    BY <1>8, <1>9, <1>10, <1>11

\* The scan of Header::poll.
LEMMA ScanPolled ==
    ASSUME setup \in Setups, NEW n, Kept(n), NEW s \in Slot, n.slots[s].conn # NoConn,
           n.slots[s].state = "header", NEW m \in ScanHeader(n, s)
    PROVE  Polled(n, m, s)
  <1> DEFINE c == n.slots[s].conn
             ends == {e \in n.sock[c].done + 1..n.sock[c].read :
                        setup.script[c][e] \in {"r", "h"}}
             e == CHOOSE x \in ends : \A y \in ends : x <= y
  <1>1. n.sock[c].done \in Nat /\ n.sock[c].read \in Nat
    BY HeldFacts
  <1>2. ASSUME ends # {} PROVE e \in Nat
    <2>1. ends \in SUBSET Nat
      BY <1>1
    <2>2. PICK k \in ends : \A j \in ends : ~(j < k)
      BY <1>2, <2>1, LeastOf
    <2>3. \A j \in ends : k <= j
      BY <2>1, <2>2
    <2> HIDE DEF ends
    <2>4. e \in ends
      BY <2>2, <2>3, SMTT(30)
    <2>5. QED
      BY <2>1, <2>4
  <1>3. \/ m = StartWrite(n, s, "response", FALSE)
        \/ ends = {} /\ m = [n EXCEPT !.slots[s].unscanned = FALSE]
        \/ ends # {} /\ m = Complete(n, s, e)
        \/ ends # {} /\ m = Complete(n, s, e + 1)
        \/ ends # {} /\ m = [n EXCEPT !.sock[c].done = e, !.slots[s].state = "body",
                                      !.slots[s].unscanned = FALSE]
    BY DEF ScanHeader
  <1> HIDE DEF ends, e
  <1>4. CASE m = StartWrite(n, s, "response", FALSE)
    BY <1>4, StartWriteRevises DEF Polled, Answers
  <1>5. CASE m = [n EXCEPT !.slots[s].unscanned = FALSE]
    <2>1. 0 \in Nat
      OBVIOUS
    <2>2. QED
      BY <1>5, <2>1, ScannedRevises DEF Polled
  <1>6. CASE ends # {} /\ (m = Complete(n, s, e) \/ m = Complete(n, s, e + 1))
    <2>1. e \in Nat /\ e + 1 \in Nat
      BY <1>2, <1>6
    <2>2. QED
      BY <1>6, <2>1, CompleteRevises DEF Polled
  <1>7. CASE ends # {} /\ m = [n EXCEPT !.sock[c].done = e, !.slots[s].state = "body",
                                        !.slots[s].unscanned = FALSE]
    BY <1>2, <1>7, ScannedRevises, ZenonT(30) DEF Polled
  <1>8. QED
    BY <1>3, <1>4, <1>5, <1>6, <1>7

\* Header::poll.
LEMMA HeaderPolled ==
    ASSUME setup \in Setups, NEW n, Kept(n), NEW s \in Slot, n.slots[s].conn # NoConn,
           n.slots[s].state = "header", NEW m \in PollHeader(n, s)
    PROVE  Polled(n, m, s)
  <1> DEFINE c == n.slots[s].conn
  <1>1. n.sock[c].read \in Nat /\ n.sock[c].sent \in Nat
    BY HeldFacts
  <1>2. \/ m \in ScanHeader(n, s)
        \/ \E k \in n.sock[c].read + 1..n.sock[c].sent :
             m \in ScanHeader([n EXCEPT !.sock[c].read = k], s)
        \/ m = n
        \/ n.slots[s].reused /\ m = CloseSlot(n, s)
        \/ m = StartWrite(n, s, "response", FALSE)
    BY DEF PollHeader
  <1>3. CASE m \in ScanHeader(n, s)
    BY <1>3, ScanPolled
  <1>4. ASSUME NEW k \in n.sock[c].read + 1..n.sock[c].sent,
               m \in ScanHeader([n EXCEPT !.sock[c].read = k], s)
        PROVE  Polled(n, m, s)
    <2>1. PICK j : j = [n EXCEPT !.sock[c].read = k]
      OBVIOUS
    <2>2. k \in Nat
      BY <1>1
    <2>3. Revised(n, j, s) /\ Kept(j) /\ j.slots = n.slots
      BY <2>1, <2>2, ReadRevises
    <2>4. Polled(j, m, s)
      BY <1>4, <2>1, <2>3, ScanPolled
    <2>5. QED
      BY <2>3, <2>4, PolledAgain
  <1>5. CASE m = n
    BY <1>5 DEF Polled
  <1>6. CASE n.slots[s].reused /\ m = CloseSlot(n, s)
    <2>1. n.sock[c].served
      BY <1>6, HeldFacts
    <2>2. QED
      BY <1>6, <2>1, CloseSlotVacates DEF Polled
  <1>7. CASE m = StartWrite(n, s, "response", FALSE)
    BY <1>7, StartWriteRevises DEF Polled, Answers
  <1>8. QED
    BY <1>2, <1>3, <1>4, <1>5, <1>6, <1>7

\* Body::poll.
LEMMA BodyPolled ==
    ASSUME setup \in Setups, NEW n, Kept(n), NEW s \in Slot, n.slots[s].conn # NoConn,
           n.slots[s].state = "body", NEW m \in PollBody(n, s)
    PROVE  Polled(n, m, s)
  <1> DEFINE c == n.slots[s].conn
             e == n.sock[c].read + 1
  <1>1. e \in Nat
    BY HeldFacts
  <1>2. \/ m = StartWrite(n, s, "response", FALSE)
        \/ m = Complete([n EXCEPT !.sock[c].read = e], s, e)
        \/ m = n
    BY DEF PollBody
  <1>3. CASE m = StartWrite(n, s, "response", FALSE)
    BY <1>3, StartWriteRevises DEF Polled, Answers
  <1>4. CASE m = Complete([n EXCEPT !.sock[c].read = e], s, e)
    <2>1. PICK j : j = [n EXCEPT !.sock[c].read = e]
      OBVIOUS
    <2>2. Revised(n, j, s) /\ Kept(j) /\ j.slots = n.slots
      BY <1>1, <2>1, ReadRevises, SMTT(30)
    <2>3. Revised(j, m, s)
      BY <1>1, <1>4, <2>1, <2>2, CompleteRevises
    <2>4. QED
      BY <2>2, <2>3, PolledAgain DEF Polled
  <1>5. CASE m = n
    BY <1>5 DEF Polled
  <1>6. QED
    BY <1>2, <1>3, <1>4, <1>5

\* A connection that is kept waits for its next request.
LEMMA KeepRevises ==
    ASSUME setup \in Setups, NEW n, Kept(n), NEW s \in Slot, n.slots[s].conn # NoConn,
           n.sock[n.slots[s].conn].served, NEW job \in Nat, NEW more \in BOOLEAN,
           NEW m, m = [n EXCEPT !.slots[s] = [EmptySlot EXCEPT
                          !.conn = n.slots[s].conn, !.state = "header", !.job = job,
                          !.reused = TRUE, !.unscanned = more]]
    PROVE  Revised(n, m, s)
  <1>1. PICK b : b = [EmptySlot EXCEPT !.conn = n.slots[s].conn, !.state = "header",
                          !.job = job, !.reused = TRUE, !.unscanned = more]
    OBVIOUS
  <1>2. PICK a : a = n.sock[n.slots[s].conn]
    OBVIOUS
  <1>3. /\ n \in Nets /\ n.slots[s].conn \in Conn /\ n.sock[n.slots[s].conn] \in Sockets
    BY HeldFacts
  <1>4. /\ b \in SlotStates /\ b.state = "header" /\ b.conn = n.slots[s].conn
    BY <1>1, <1>3 DEF SlotStates, EmptySlot, Answers
  <1>5. m = Edit(n, s, a, b, n.free)
    BY <1>1, <1>2, <1>3 DEF Nets, Edit
  <1>6. a \in Sockets /\ a.at = "slot" /\ a.served
    BY <1>2, HeldFacts
  <1>7. QED
    BY <1>4, <1>5, <1>6, EditRevises

\* Writing::poll.
LEMMA WritePolled ==
    ASSUME setup \in Setups, NEW n, Kept(n), NEW s \in Slot, n.slots[s].conn # NoConn,
           n.slots[s].state = "write", NEW m \in PollWrite(n, s)
    PROVE  Polled(n, m, s)
  <1> DEFINE c == n.slots[s].conn
  <1>1. PICK k : k = [n EXCEPT !.sock[c].served = TRUE]
    OBVIOUS
  <1>2. Revised(n, k, s) /\ Kept(k) /\ k.sock[c].served /\ k.slots = n.slots
    BY <1>1, ServedRevises
  <1>3. \/ m = n
        \/ m = CloseSlot(k, s)
        \/ m = [k EXCEPT !.slots[s] = [EmptySlot EXCEPT
                   !.conn = c, !.state = "header", !.job = n.slots[s].job,
                   !.reused = TRUE, !.unscanned = Buffered(n, c)]]
    BY <1>1 DEF PollWrite
  <1>4. CASE m = n
    BY <1>4 DEF Polled
  <1>5. CASE m = CloseSlot(k, s)
    BY <1>1, <1>5, ServedCloses
  <1>6. CASE m = [k EXCEPT !.slots[s] = [EmptySlot EXCEPT
                   !.conn = c, !.state = "header", !.job = n.slots[s].job,
                   !.reused = TRUE, !.unscanned = Buffered(n, c)]]
    <2>1. n.slots[s].job \in Nat /\ Buffered(n, c) \in BOOLEAN
      BY HeldFacts, SMTT(30) DEF SlotStates, Buffered
    <2>2. Revised(k, m, s)
      BY <1>2, <1>6, <2>1, KeepRevises
    <2>3. QED
      BY <1>2, <2>2, PolledAgain DEF Polled
  <1>7. QED
    BY <1>3, <1>4, <1>5, <1>6

\* Connection::poll.
LEMMA ConnectionPolled ==
    ASSUME setup \in Setups, NEW n, Kept(n), NEW s \in Slot, n.slots[s].conn # NoConn,
           NEW m \in PollConnection(n, s)
    PROVE  Polled(n, m, s)
  <1>1. PICK k : k = Expire(n, s)
    OBVIOUS
  <1>2. Polled(n, k, s)
    BY <1>1, ExpirePolled
  <1>3. \/ k.slots[s].state = "header" /\ m \in PollHeader(k, s)
        \/ k.slots[s].state = "body" /\ m \in PollBody(k, s)
        \/ k.slots[s].state = "write" /\ m \in PollWrite(k, s)
        \/ m = k
    BY <1>1 DEF PollConnection
  <1>4. CASE m = k
    BY <1>2, <1>4
  <1>5. CASE k = n \/ Revised(n, k, s)
    <2>1. Kept(k) /\ k.slots[s].conn # NoConn
      BY <1>5, RevisedKept DEF Revised, Stays
    <2>2. Polled(k, m, s)
      BY <1>3, <2>1, HeaderPolled, BodyPolled, WritePolled DEF Polled
    <2>3. QED
      BY <1>5, <2>2, PolledAgain, SMTT(30)
  <1>6. CASE Vacated(n, k, s)
    <2>1. k.slots[s].state = "none"
      BY <1>6, EmptyFacts DEF Vacated
    <2>2. QED
      BY <1>2, <1>3, <2>1
  <1>7. QED
    BY <1>2, <1>5, <1>6 DEF Polled

-----------------------------------------------------------------------------
(* Passes over the slots *)

\* m comes after n without a new connection: permits and waiting requests only
\* become fewer.
Follows(n, m) ==
    /\ Kept(m)
    /\ Len(m.pending) <= Len(n.pending) /\ Taken(m) <= Taken(n)
    /\ \A c \in Conn : n.sock[c].at = "rejecting" => m.sock[c] = n.sock[c]
    /\ \A s \in Slot : m.slots[s].state = "handler" => m.slots[s] = n.slots[s]

\* A request that waits for its handler and that the pass leaves alone.
Spared(pass, n, s) ==
    /\ n.slots[s].state = "handler"
    /\ pass = "expire" => ~Late(n, s)
    /\ pass = "events" =>
         <<s, n.slots[s].conn, n.slots[s].job>> \notin reactor.events.conns

LEMMA FollowsSelf ==
    ASSUME setup \in Setups, NEW n, Kept(n)
    PROVE  Follows(n, n)
  <1>1. Taken(n) \in Int /\ Len(n.pending) \in Int
    BY LimitFacts, NetFacts DEF Taken, Kept
  <1>2. QED
    BY <1>1 DEF Follows

LEMMA FollowsTrans ==
    ASSUME setup \in Setups, NEW n, NEW k, NEW m, Kept(n), Follows(n, k), Follows(k, m)
    PROVE  Follows(n, m)
  <1>1. /\ Taken(n) \in Int /\ Len(n.pending) \in Int
        /\ Taken(k) \in Int /\ Len(k.pending) \in Int
        /\ Taken(m) \in Int /\ Len(m.pending) \in Int
    <2>1. n \in Nets /\ k \in Nets /\ m \in Nets /\ setup.active \in Nat
      BY LimitFacts DEF Kept, Follows
    <2>2. ASSUME NEW x \in Nets
          PROVE  Taken(x) \in Int /\ Len(x.pending) \in Int
      BY <2>1, NetFacts DEF Taken
    <2>3. QED
      BY <2>1, <2>2
  <1>2. Len(m.pending) <= Len(n.pending) /\ Taken(m) <= Taken(n)
    BY <1>1 DEF Follows
  <1>3. \A c \in Conn : n.sock[c].at = "rejecting" => m.sock[c] = n.sock[c]
    BY DEF Follows
  <1>4. \A s \in Slot : m.slots[s].state = "handler" => m.slots[s] = n.slots[s]
    BY DEF Follows
  <1>5. QED
    BY <1>2, <1>3, <1>4 DEF Follows

\* A turn of one slot.
LEMMA PolledFollows ==
    ASSUME setup \in Setups, NEW n, Kept(n), NEW s \in Slot, n.slots[s].conn # NoConn,
           NEW m, Polled(n, m, s)
    PROVE  Follows(n, m) /\ \A t \in Slot : t # s => m.slots[t] = n.slots[t]
  <1>1. CASE m = n
    BY <1>1, FollowsSelf
  <1>2. /\ setup.active \in Nat /\ n \in Nets /\ Len(n.free) \in Nat /\ Len(n.pending) \in Nat
    BY LimitFacts, NetFacts DEF Kept
  <1>3. n.sock[n.slots[s].conn].at = "slot"
    BY DEF Kept, Placed
  <1>4. CASE Revised(n, m, s)
    <2>1. Kept(m)
      BY <1>4, RevisedKept
    <2>2. m.free = n.free /\ m.pending = n.pending
      BY <1>4 DEF Revised, Stays
    <2>3. Len(m.pending) <= Len(n.pending) /\ Taken(m) <= Taken(n)
      BY <1>2, <2>2 DEF Taken
    <2>4. \A c \in Conn : n.sock[c].at = "rejecting" => m.sock[c] = n.sock[c]
      BY <1>3, <1>4 DEF Revised, Stays
    <2>5. QED
      BY <1>4, <2>1, <2>3, <2>4 DEF Follows, Revised, Stays
  <1>5. CASE Vacated(n, m, s)
    <2>1. Kept(m) /\ Len(m.free) = Len(n.free) + 1
      BY <1>5, VacatedKept
    <2>2. m.pending = n.pending
      BY <1>5 DEF Vacated
    <2>3. Len(m.pending) <= Len(n.pending) /\ Taken(m) <= Taken(n)
      BY <1>2, <2>1, <2>2 DEF Taken
    <2>4. \A c \in Conn : n.sock[c].at = "rejecting" => m.sock[c] = n.sock[c]
      BY <1>3, <1>5 DEF Vacated
    <2>5. m.slots[s].state = "none" /\ \A t \in Slot : t # s => m.slots[t] = n.slots[t]
      BY <1>5, EmptyFacts DEF Vacated
    <2>6. QED
      BY <2>1, <2>3, <2>4, <2>5 DEF Follows
  <1>6. QED
    BY <1>1, <1>4, <1>5 DEF Polled

Passes == {"expire", "headers", "events"}

\* What a pass does at one slot.
LEMMA TurnFollows ==
    ASSUME setup \in Setups, reactor.events.conns \in SUBSET (Slot \X Conn \X Nat),
           NEW pass \in Passes, NEW n, Kept(n), NEW s \in Slot, NEW m \in Turn(pass, n, s)
    PROVE  /\ Follows(n, m) /\ \A t \in Slot : t # s => m.slots[t] = n.slots[t]
           /\ Spared(pass, n, s) => m.slots[s] = n.slots[s]
  <1>1. \/ m = n
        \/ pass = "expire" /\ m = Expire(n, s)
        \/ pass = "headers" /\ n.slots[s].unscanned /\ m \in PollConnection(n, s)
        \/ /\ pass = "events" /\ m \in PollConnection(n, s)
           /\ <<s, n.slots[s].conn, n.slots[s].job>> \in reactor.events.conns
    BY DEF Turn, Passes
  <1>2. CASE m = n
    BY <1>2, FollowsSelf
  <1>3. CASE pass = "expire" /\ m = Expire(n, s)
    <2>1. CASE n.slots[s].conn = NoConn
      BY <1>2, <1>3, <2>1, ExpirePolled
    <2>2. CASE n.slots[s].conn # NoConn
      <3>1. Polled(n, m, s)
        BY <1>3, <2>2, ExpirePolled
      <3>2. Spared(pass, n, s) => m = n
        BY <1>3, ExpirePolled DEF Spared
      <3>3. QED
        BY <2>2, <3>1, <3>2, PolledFollows
    <2>3. QED
      BY <2>1, <2>2
  <1>4. CASE pass = "headers" /\ n.slots[s].unscanned /\ m \in PollConnection(n, s)
    <2>1. n.slots[s].state = "header"
      BY <1>4 DEF Kept, Sound
    <2>2. n.slots[s].conn # NoConn
      BY <2>1, EmptyFacts DEF Kept, Sound
    <2>3. Polled(n, m, s)
      BY <1>4, <2>2, ConnectionPolled
    <2>4. QED
      BY <2>1, <2>2, <2>3, PolledFollows DEF Spared
  <1>5. CASE /\ pass = "events" /\ m \in PollConnection(n, s)
             /\ <<s, n.slots[s].conn, n.slots[s].job>> \in reactor.events.conns
    <2>1. n.slots[s].conn # NoConn
      BY <1>5, HttpAssumption
    <2>2. Polled(n, m, s)
      BY <1>5, <2>1, ConnectionPolled
    <2>3. QED
      BY <1>5, <2>1, <2>2, PolledFollows DEF Spared
  <1>6. QED
    BY <1>1, <1>2, <1>3, <1>4, <1>5

\* The recurrence of a pass over k slots.
Walk(pass, n, k, f) ==
    f = [j \in 0..k |-> IF j = 0 THEN {n} ELSE UNION {Turn(pass, m, j) : m \in f[j - 1]}]

\* It has a solution: a pass over k slots is one over k - 1 slots and a turn.
LEMMA WalkExists ==
    ASSUME NEW pass, NEW n, NEW N \in Nat
    PROVE  \E f : Walk(pass, n, N, f)
  <1> DEFINE Stuck == {k \in Nat : ~\E f : Walk(pass, n, k, f)}
  <1> SUFFICES ASSUME Stuck # {} PROVE FALSE
    OBVIOUS
  <1>1. PICK k \in Stuck : \A j \in Stuck : ~(j < k)
    BY LeastOf
  <1>2. k \in Nat /\ ~\E f : Walk(pass, n, k, f)
    OBVIOUS
  <1>3. k # 0
    <2> SUFFICES ASSUME k = 0 PROVE FALSE
      OBVIOUS
    <2> DEFINE g == [j \in 0..0 |-> {n}]
    <2>1. \A j \in 0..0 : j = 0
      OBVIOUS
    <2>2. Walk(pass, n, 0, g)
      BY <2>1 DEF Walk
    <2>3. QED
      BY <1>2, <2>2
  <1>4. k - 1 \in Nat /\ k - 1 < k
    BY <1>2, <1>3
  <1>5. PICK f : Walk(pass, n, k - 1, f)
    BY <1>1, <1>4
  <1> DEFINE last == UNION {Turn(pass, m, k) : m \in f[k - 1]}
             g == [j \in 0..k |-> IF j = k THEN last ELSE f[j]]
  <1>6. ASSUME NEW j \in 0..k
        PROVE  g[j] = IF j = 0 THEN {n} ELSE UNION {Turn(pass, m, j) : m \in g[j - 1]}
    <2>1. CASE j = k
      <3>1. k - 1 \in 0..k /\ k - 1 # k /\ g[k - 1] = f[k - 1] /\ g[k] = last
        BY <1>4
      <3>2. QED
        BY <1>3, <2>1, <3>1
    <2>2. CASE j = 0
      <3>1. g[0] = f[0] /\ 0 \in 0..(k - 1)
        BY <1>2, <1>3, <1>4
      <3>2. f[0] = {n}
        BY <1>5, <3>1 DEF Walk
      <3>3. QED
        BY <2>2, <3>1, <3>2
    <2>3. CASE j # 0 /\ j # k
      <3>1. j \in 0..(k - 1) /\ j - 1 \in 0..k /\ j - 1 # k /\ j # 0
        BY <1>2, <2>3
      <3>2. g[j] = f[j] /\ g[j - 1] = f[j - 1]
        BY <2>3, <3>1
      <3>3. f[j] = UNION {Turn(pass, m, j) : m \in f[j - 1]}
        BY <1>5, <3>1 DEF Walk
      <3>4. QED
        BY <3>1, <3>2, <3>3
    <2>4. QED
      BY <2>1, <2>2, <2>3
  <1>7. Walk(pass, n, k, g)
    BY <1>6 DEF Walk
  <1>8. QED
    BY <1>2, <1>7

\* A pass over all slots.
LEMMA PassFollows ==
    ASSUME setup \in Setups, reactor.events.conns \in SUBSET (Slot \X Conn \X Nat),
           NEW pass \in Passes, NEW n, Kept(n), NEW m \in Pass(pass, n)
    PROVE  Follows(n, m) /\ \A s \in Slot : Spared(pass, n, s) => m.slots[s] = n.slots[s]
  <1> DEFINE N == setup.active
             f == CHOOSE g : Walk(pass, n, N, g)
             Fine(k) == /\ Follows(n, k)
                        /\ \A s \in Slot : Spared(pass, n, s) => k.slots[s] = n.slots[s]
             Bad == {j \in 0..N : \E k \in f[j] : ~Fine(k)}
  <1>1. N \in Nat /\ N \in 0..N
    BY LimitFacts
  <1>2. Walk(pass, n, N, f)
    BY <1>1, WalkExists
  <1>3. Pass(pass, n) = f[N]
    BY DEF Pass, Walk
  <1> HIDE DEF f
  <1>4. ASSUME NEW j \in 0..N
        PROVE  f[j] = IF j = 0 THEN {n} ELSE UNION {Turn(pass, k, j) : k \in f[j - 1]}
    BY <1>2 DEF Walk
  <1>5. ASSUME Bad # {} PROVE FALSE
    <2>1. Bad \in SUBSET Nat
      BY <1>1
    <2>2. PICK j \in Bad : \A i \in Bad : ~(i < j)
      BY <1>5, <2>1, LeastOf
    <2>3. PICK k \in f[j] : ~Fine(k)
      BY <2>2
    <2>4. j # 0
      <3> SUFFICES ASSUME j = 0 PROVE FALSE
        OBVIOUS
      <3>1. k = n
        BY <1>4, <2>2, <2>3
      <3>2. QED
        BY <2>3, <3>1, FollowsSelf
    <2>5. j \in 0..N /\ j - 1 \in 0..N /\ j - 1 < j /\ j \in Slot
      BY <1>1, <2>2, <2>4 DEF Slot
    <2>6. PICK h \in f[j - 1] : k \in Turn(pass, h, j)
      <3>1. f[j] = UNION {Turn(pass, h, j) : h \in f[j - 1]}
        BY <1>4, <2>4, <2>5
      <3>2. QED
        BY <2>3, <3>1
    <2>7. Fine(h)
      BY <2>2, <2>5, <2>6
    <2>8. Kept(h)
      BY <2>7 DEF Follows
    <2>9. /\ Follows(h, k) /\ \A t \in Slot : t # j => k.slots[t] = h.slots[t]
          /\ Spared(pass, h, j) => k.slots[j] = h.slots[j]
      BY <2>5, <2>6, <2>8, TurnFollows
    <2>10. Follows(n, k)
      BY <2>7, <2>9, FollowsTrans
    <2>11. ASSUME NEW s \in Slot, Spared(pass, n, s)
           PROVE  k.slots[s] = n.slots[s]
      <3>1. h.slots[s] = n.slots[s]
        BY <2>7, <2>11
      <3>2. Spared(pass, h, s)
        BY <2>11, <3>1 DEF Spared, Late, Current
      <3>3. QED
        BY <2>9, <3>1, <3>2
    <2>12. QED
      BY <2>3, <2>10, <2>11
  <1>6. QED
    BY <1>1, <1>3, <1>5

-----------------------------------------------------------------------------
(* Pending connections *)

\* An idle connection has been answered before.
LEMMA EvictFollows ==
    ASSUME setup \in Setups, NEW n, Kept(n)
    PROVE  /\ Follows(n, Evict(n))
           /\ \A s \in Slot : n.slots[s].state = "handler" => Evict(n).slots[s] = n.slots[s]
  <1> DEFINE idle == {s \in Slot : Idle(n, s)}
             v == CHOOSE s \in idle : \A t \in idle : s <= t
  <1>1. CASE Evict(n) = n
    BY <1>1, FollowsSelf
  <1>2. CASE Evict(n) # n
    <2>1. idle # {} /\ Evict(n) = CloseSlot(n, v)
      BY <1>2 DEF Evict
    <2>2. idle \in SUBSET Nat
      BY LimitFacts
    <2>3. PICK k \in idle : \A j \in idle : ~(j < k)
      BY <2>1, <2>2, LeastOf
    <2>4. \A j \in idle : k <= j
      BY <2>2, <2>3
    <2>5. v \in idle
      <3> HIDE DEF idle
      <3>1. QED
        BY <2>3, <2>4
    <2>6. v \in Slot /\ n.slots[v].state = "header" /\ n.slots[v].reused
      BY <2>5 DEF Idle
    <2> HIDE DEF v, idle
    <2>7. n.slots[v].conn # NoConn
      BY <2>6, EmptyFacts DEF Kept, Sound
    <2>8. n.sock[n.slots[v].conn].served
      BY <2>6 DEF Kept, Sound
    <2>9. Polled(n, Evict(n), v)
      BY <2>1, <2>6, <2>7, <2>8, CloseSlotVacates DEF Polled
    <2>10. QED
      BY <2>6, <2>7, <2>9, PolledFollows
  <1>3. QED
    BY <1>1, <1>2

\* What the pending connections that find a slot leave of the queues.
LEMMA FillQueues ==
    ASSUME setup \in Setups, NEW n, Kept(n), NEW k, k = Filled(n), NEW p, p = Fill(n)
    PROVE  /\ k \in Nat /\ k <= Len(n.free) /\ k <= Len(n.pending)
           /\ Len(n.free) \in Nat /\ Len(n.pending) \in Nat
           /\ p.free \in Seq(Slot) /\ p.pending \in Seq(Conn)
           /\ Len(p.free) = Len(n.free) - k /\ Len(p.pending) = Len(n.pending) - k
           /\ \A i \in 1..(Len(n.free) - k) : p.free[i] = n.free[i]
           /\ \A i \in 1..(Len(n.pending) - k) : p.pending[i] = n.pending[k + i]
  <1>1. /\ Len(n.free) \in Nat /\ Len(n.pending) \in Nat
        /\ n.free \in Seq(Slot) /\ n.pending \in Seq(Conn)
        /\ \A i \in 1..Len(n.free) : n.free[i] \in Slot
        /\ \A i \in 1..Len(n.pending) : n.pending[i] \in Conn
    BY NetFacts DEF Kept
  <1>2. k \in Nat /\ k <= Len(n.free) /\ k <= Len(n.pending)
    BY <1>1 DEF Filled
  <1>3. /\ p.free = SubSeq(n.free, 1, Len(n.free) - k)
        /\ p.pending = SubSeq(n.pending, k + 1, Len(n.pending))
    BY DEF Fill, Filled
  <1>4. /\ p.free \in Seq(Slot) /\ Len(p.free) = Len(n.free) - k
        /\ \A i \in 1..(Len(n.free) - k) : p.free[i] = n.free[i]
    <2>1. PICK d : d = Len(n.free) - k
      OBVIOUS
    <2>2. d \in Nat /\ \A i \in 1..d : n.free[i] \in Slot
      BY <1>1, <1>2, <2>1
    <2>3. /\ SubSeq(n.free, 1, d) \in Seq(Slot)
          /\ Len(SubSeq(n.free, 1, d)) = IF 1 <= d THEN d - 1 + 1 ELSE 0
          /\ \A i \in 1..(d - 1 + 1) : SubSeq(n.free, 1, d)[i] = n.free[1 + i - 1]
      BY <2>2, SubSeqProperties
    <2>4. d - 1 + 1 = d /\ (~(1 <= d) => d = 0) /\ \A i \in 1..d : 1 + i - 1 = i
      BY <2>2
    <2>5. QED
      BY <1>3, <2>1, <2>3, <2>4
  <1>5. /\ p.pending \in Seq(Conn) /\ Len(p.pending) = Len(n.pending) - k
        /\ \A i \in 1..(Len(n.pending) - k) : p.pending[i] = n.pending[k + i]
    <2>1. PICK d : d = Len(n.pending) - k
      OBVIOUS
    <2>2. PICK l : l = Len(n.pending)
      OBVIOUS
    <2>3. d \in Nat /\ l \in Nat /\ d = l - k /\ \A i \in (k + 1)..l : n.pending[i] \in Conn
      BY <1>1, <1>2, <2>1, <2>2
    <2>4. k + 1 \in Int /\ l \in Int
      BY <1>2, <2>3
    <2>5. /\ SubSeq(n.pending, k + 1, l) \in Seq(Conn)
          /\ Len(SubSeq(n.pending, k + 1, l)) = IF k + 1 <= l THEN l - (k + 1) + 1 ELSE 0
          /\ \A i \in 1..(l - (k + 1) + 1) :
               SubSeq(n.pending, k + 1, l)[i] = n.pending[k + 1 + i - 1]
      BY <2>3, <2>4, SubSeqProperties
    <2>6. /\ l - (k + 1) + 1 = d /\ (~(k + 1 <= l) => d = 0)
          /\ \A i \in 1..d : k + 1 + i - 1 = k + i
      BY <1>2, <2>3, SMTT(30)
    <2>7. QED
      BY <1>3, <2>1, <2>2, <2>5, <2>6
  <1>6. QED
    BY <1>1, <1>2, <1>4, <1>5

\* The slot and the socket of a connection that finds a slot.
Entered(c) == [EmptySlot EXCEPT !.state = "header", !.conn = c]
Seated(a) == [a EXCEPT !.at = "slot"]

\* The slots and sockets of k connections that find a slot, and of the others.
NewSlot(n, i) == n.free[Len(n.free) + 1 - i]
Moved(n, p, k) ==
    /\ \A i \in 1..k : /\ NewSlot(n, i) \in Slot
                       /\ p.slots[NewSlot(n, i)] = Entered(n.pending[i])
    /\ \A s \in Slot : (\A i \in 1..k : NewSlot(n, i) # s) => p.slots[s] = n.slots[s]
    /\ \A i \in 1..k : /\ n.pending[i] \in Conn
                       /\ p.sock[n.pending[i]] = Seated(n.sock[n.pending[i]])
    /\ \A c \in Conn : (\A i \in 1..k : n.pending[i] # c) => p.sock[c] = n.sock[c]

LEMMA FillSlots ==
    ASSUME setup \in Setups, NEW n, Kept(n), NEW p, p = Fill(n)
    PROVE  Moved(n, p, Filled(n)) /\ p.slots = [s \in Slot |-> p.slots[s]]
  <1> DEFINE k == Filled(n)
             taken == [i \in 1..k |-> n.free[Len(n.free) + 1 - i]]
             first == {n.pending[i] : i \in 1..k}
  <1>1. /\ k \in Nat /\ k <= Len(n.free) /\ k <= Len(n.pending)
        /\ Len(n.free) \in Nat /\ Len(n.pending) \in Nat
    BY FillQueues
  <1>2. /\ \A i \in 1..Len(n.free) : n.free[i] \in Slot
        /\ \A i \in 1..Len(n.pending) : n.pending[i] \in Conn
    BY NetFacts DEF Kept
  <1>3. \A i \in 1..k : Len(n.free) + 1 - i \in 1..Len(n.free) /\ i \in 1..Len(n.pending)
    BY <1>1
  <1>4. /\ p.sock = [c \in Conn |-> IF c \in first THEN [n.sock[c] EXCEPT !.at = "slot"]
                                    ELSE n.sock[c]]
        /\ p.slots = [s \in Slot |-> IF s \in ToSet(taken)
                       THEN Entered(n.pending[CHOOSE i \in 1..k : taken[i] = s])
                       ELSE n.slots[s]]
    BY DEF Fill, Entered
  <1> HIDE DEF k
  <1>5. \A s : s \in ToSet(taken) <=> \E i \in 1..k : n.free[Len(n.free) + 1 - i] = s
    BY DEF ToSet
  <1>6. ASSUME NEW i \in 1..k
        PROVE  /\ n.free[Len(n.free) + 1 - i] \in Slot
               /\ p.slots[n.free[Len(n.free) + 1 - i]] = Entered(n.pending[i])
    <2>1. PICK s : s = n.free[Len(n.free) + 1 - i]
      OBVIOUS
    <2>2. s \in Slot /\ s \in ToSet(taken)
      BY <1>2, <1>3, <1>5, <2>1
    <2>3. ASSUME NEW j \in 1..k, taken[j] = s PROVE j = i
      <3>1. n.free[Len(n.free) + 1 - j] = n.free[Len(n.free) + 1 - i]
        BY <2>1, <2>3
      <3>2. Len(n.free) + 1 - j = Len(n.free) + 1 - i
        <4>1. PICK x, y : x = Len(n.free) + 1 - j /\ y = Len(n.free) + 1 - i
          OBVIOUS
        <4>2. x \in 1..Len(n.free) /\ y \in 1..Len(n.free) /\ n.free[x] = n.free[y]
          BY <1>3, <3>1, <4>1
        <4>3. x = y
          BY <4>2 DEF Kept, Placed, Distinct
        <4>4. QED
          BY <4>1, <4>3
      <3>3. QED
        BY <1>1, <3>2
    <2>4. taken[i] = s
      BY <2>1
    <2> HIDE DEF taken
    <2>5. (CHOOSE j \in 1..k : taken[j] = s) = i
      BY <2>3, <2>4
    <2>6. p.slots[s] = Entered(n.pending[i])
      BY <1>4, <2>2, <2>5
    <2>7. QED
      BY <2>1, <2>2, <2>6
  <1>7. ASSUME NEW s \in Slot, \A i \in 1..k : n.free[Len(n.free) + 1 - i] # s
        PROVE  p.slots[s] = n.slots[s]
    <2>1. s \notin ToSet(taken)
      BY <1>5, <1>7
    <2> HIDE DEF taken
    <2>2. QED
      BY <1>4, <2>1
  <1>8. ASSUME NEW i \in 1..k
        PROVE  /\ n.pending[i] \in Conn
               /\ p.sock[n.pending[i]] = Seated(n.sock[n.pending[i]])
    BY <1>2, <1>3, <1>4 DEF Seated
  <1>9. ASSUME NEW c \in Conn, \A i \in 1..k : n.pending[i] # c
        PROVE  p.sock[c] = n.sock[c]
    <2>1. c \notin first
      BY <1>9
    <2> HIDE DEF first
    <2>2. QED
      BY <1>4, <2>1
  <1>10. p.slots = [s \in Slot |-> p.slots[s]]
    <2> DEFINE at(s) == IF s \in ToSet(taken)
                        THEN Entered(n.pending[CHOOSE i \in 1..k : taken[i] = s])
                        ELSE n.slots[s]
    <2>1. p.slots = [s \in Slot |-> at(s)]
      BY <1>4
    <2> HIDE DEF at
    <2>2. QED
      BY <2>1
  <1>11. Moved(n, p, k)
    BY <1>6, <1>7, <1>8, <1>9 DEF Moved, NewSlot
  <1>12. QED
    BY <1>10, <1>11 DEF k

\* Filling free slots keeps every connection in one place.
LEMMA FillFollows ==
    ASSUME setup \in Setups, NEW n, Kept(n), NEW p, p = Fill(n)
    PROVE  /\ Follows(n, p)
           /\ \A s \in Slot : n.slots[s].state = "handler" => p.slots[s] = n.slots[s]
  <1>1. PICK k : k = Filled(n)
    OBVIOUS
  <1>2. PICK l : l = Len(n.free)
    OBVIOUS
  <1>3. PICK o : o = Len(n.pending)
    OBVIOUS
  <1>4. /\ k \in Nat /\ l \in Nat /\ o \in Nat /\ k <= l /\ k <= o
        /\ p.free \in Seq(Slot) /\ p.pending \in Seq(Conn)
        /\ Len(p.free) = l - k /\ Len(p.pending) = o - k
        /\ \A i \in 1..(l - k) : p.free[i] = n.free[i]
        /\ \A i \in 1..(o - k) : p.pending[i] = n.pending[k + i]
    <2>1. /\ k \in Nat /\ k <= Len(n.free) /\ k <= Len(n.pending)
          /\ Len(n.free) \in Nat /\ Len(n.pending) \in Nat
          /\ p.free \in Seq(Slot) /\ p.pending \in Seq(Conn)
          /\ Len(p.free) = Len(n.free) - k /\ Len(p.pending) = Len(n.pending) - k
          /\ \A i \in 1..(Len(n.free) - k) : p.free[i] = n.free[i]
          /\ \A i \in 1..(Len(n.pending) - k) : p.pending[i] = n.pending[k + i]
      BY <1>1, FillQueues, SMTT(30)
    <2>2. QED
      BY <1>2, <1>3, <2>1
  \* The i-th pending connection takes the slot New(i).
  <1> DEFINE New(i) == n.free[l + 1 - i]
  <1>5. /\ \A i \in 1..k : New(i) \in Slot /\ p.slots[New(i)] = Entered(n.pending[i])
        /\ \A s \in Slot : (\A i \in 1..k : New(i) # s) => p.slots[s] = n.slots[s]
        /\ \A i \in 1..k : /\ n.pending[i] \in Conn
                           /\ p.sock[n.pending[i]] = Seated(n.sock[n.pending[i]])
        /\ \A c \in Conn : (\A i \in 1..k : n.pending[i] # c) => p.sock[c] = n.sock[c]
    <2>1. Moved(n, p, k)
      BY <1>1, FillSlots
    <2>2. QED
      BY <1>2, <2>1 DEF Moved, NewSlot
  <1>6. n \in Nets /\ NoConn \notin Conn
    BY LimitFacts DEF Kept
  <1>7. ASSUME NEW c \in Conn
        PROVE  /\ Entered(c) \in SlotStates /\ Entered(c).conn = c /\ Entered(c).state = "header"
               /\ Entered(c).reused = FALSE /\ Entered(c).unscanned = FALSE
    BY DEF Entered, EmptySlot, SlotStates, Answers
  <1>8. \A i \in 1..k : i \in 1..o /\ l + 1 - i \in 1..l
    BY <1>4
  <1>9. \A i \in 1..(l - k) : i \in 1..l
    BY <1>4
  <1>10. \A i \in 1..(o - k) : k + i \in 1..o /\ k + i \notin 1..k
    BY <1>4
  <1>11. \A i \in 1..l : i \in 1..(l - k) \/ \E j \in 1..k : i = l + 1 - j
    <2> SUFFICES ASSUME NEW i \in 1..l, i \notin 1..(l - k)
                 PROVE  \E j \in 1..k : i = l + 1 - j
      OBVIOUS
    <2>1. l + 1 - i \in 1..k /\ i = l + 1 - (l + 1 - i)
      BY <1>4
    <2>2. QED
      BY <2>1
  <1>12. \A i \in 1..(l - k), j \in 1..k : i # l + 1 - j
    BY <1>4
  <1>13. \A i \in 1..o : i \in 1..k \/ \E j \in 1..(o - k) : i = k + j
    <2> SUFFICES ASSUME NEW i \in 1..o, i \notin 1..k
                 PROVE  \E j \in 1..(o - k) : i = k + j
      OBVIOUS
    <2>1. i - k \in 1..(o - k) /\ i = k + (i - k)
      BY <1>4
    <2>2. QED
      BY <2>1
  \* Facts of n in terms of its sequences.
  <1>14. /\ \A i, j \in 1..l : n.free[i] = n.free[j] => i = j
         /\ \A i, j \in 1..o : n.pending[i] = n.pending[j] => i = j
    BY <1>2, <1>3 DEF Kept, Placed, Distinct
  <1>15. \A i \in 1..k : n.slots[New(i)] = EmptySlot /\ n.slots[New(i)].conn = NoConn
    <2> SUFFICES ASSUME NEW i \in 1..k
                 PROVE  n.slots[New(i)] = EmptySlot /\ n.slots[New(i)].conn = NoConn
      OBVIOUS
    <2>1. PICK s : s = New(i)
      OBVIOUS
    <2>2. s \in Slot /\ \E j \in 1..l : n.free[j] = s
      BY <1>5, <1>8, <2>1
    <2>3. n.slots[s].conn = NoConn
      BY <1>2, <2>2 DEF Kept, Placed
    <2>4. n.slots[s] = EmptySlot
      BY <2>2, <2>3 DEF Kept, Sound
    <2>5. QED
      BY <2>1, <2>3, <2>4
  <1>16. \A i \in 1..o : n.sock[n.pending[i]].at = "pending" /\ n.pending[i] \in Conn
    BY <1>3, <1>6, NetFacts DEF Kept, Placed
  <1>17. \A i \in 1..k : /\ p.sock[n.pending[i]].at = "slot"
                         /\ p.sock[n.pending[i]].served = n.sock[n.pending[i]].served
                         /\ p.sock[n.pending[i]] \in Sockets
    <2> SUFFICES ASSUME NEW i \in 1..k
                 PROVE  /\ p.sock[n.pending[i]].at = "slot"
                        /\ p.sock[n.pending[i]].served = n.sock[n.pending[i]].served
                        /\ p.sock[n.pending[i]] \in Sockets
      OBVIOUS
    <2>1. n.sock[n.pending[i]] \in Sockets
      BY <1>5, <1>6, NetFacts
    <2>2. QED
      BY <1>5, <2>1 DEF Sockets, Seated
  <1>18. \A s \in Slot :
            \/ \E i \in 1..k : s = New(i)
            \/ (\A i \in 1..k : s # New(i)) /\ p.slots[s] = n.slots[s]
    BY <1>5
  <1>19. \A c \in Conn :
            \/ \E i \in 1..k : c = n.pending[i]
            \/ (\A i \in 1..k : c # n.pending[i]) /\ p.sock[c] = n.sock[c]
    BY <1>5
  <1>20. \A i \in 1..k : /\ p.slots[New(i)].conn = n.pending[i] /\ n.pending[i] \in Conn
                         /\ n.pending[i] # NoConn
                         /\ p.slots[New(i)].state = "header"
                         /\ p.slots[New(i)].reused = FALSE /\ p.slots[New(i)].unscanned = FALSE
                         /\ p.slots[New(i)] \in SlotStates
    <2> SUFFICES ASSUME NEW i \in 1..k
                 PROVE  /\ p.slots[New(i)].conn = n.pending[i] /\ n.pending[i] \in Conn
                        /\ n.pending[i] # NoConn
                        /\ p.slots[New(i)].state = "header"
                        /\ p.slots[New(i)].reused = FALSE
                        /\ p.slots[New(i)].unscanned = FALSE
                        /\ p.slots[New(i)] \in SlotStates
      OBVIOUS
    <2>1. PICK c : c = n.pending[i]
      OBVIOUS
    <2>2. c \in Conn /\ c # NoConn /\ p.slots[New(i)] = Entered(c)
      BY <1>5, <1>6, <2>1
    <2>3. QED
      BY <1>7, <2>1, <2>2
  <1>21. \A s \in Slot : n.slots[s].conn # NoConn =>
            n.slots[s].conn \in Conn /\ n.sock[n.slots[s].conn].at = "slot"
    BY <1>6, NetFacts DEF Kept, Placed, SlotStates
  \* A connection in a slot is none of those that move.
  <1>22. \A s \in Slot : n.slots[s].conn # NoConn =>
            p.sock[n.slots[s].conn] = n.sock[n.slots[s].conn]
    BY <1>8, <1>16, <1>19, <1>21
  <1>23. p \in Nets
    <2>1. /\ p = [sock |-> p.sock, slots |-> p.slots, free |-> p.free, pending |-> p.pending]
          /\ p.sock = [c \in Conn |-> p.sock[c]] /\ p.slots = [s \in Slot |-> p.slots[s]]
      <3>1. p.sock = [c \in Conn |-> p.sock[c]]
        BY DEF Fill
      <3>2. p.slots = [s \in Slot |-> p.slots[s]]
        BY FillSlots, SMTT(30)
      <3>3. p = [sock |-> p.sock, slots |-> p.slots, free |-> p.free, pending |-> p.pending]
        BY DEF Fill
      <3>4. QED
        BY <3>1, <3>2, <3>3
    <2>2. \A s \in Slot : p.slots[s] \in SlotStates
      BY <1>6, <1>18, <1>20, NetFacts
    <2>3. \A c \in Conn : p.sock[c] \in Sockets
      BY <1>6, <1>17, <1>19, NetFacts
    <2>4. p.slots \in [Slot -> SlotStates] /\ p.sock \in [Conn -> Sockets]
      BY <2>1, <2>2, <2>3
    <2>5. QED
      BY <1>4, <2>1, <2>4, SMTT(30) DEF Nets
  <1>24. Distinct(p.free) /\ Distinct(p.pending)
    <2>1. Distinct(p.free)
      BY <1>4, <1>9, <1>14 DEF Distinct
    <2>2. ASSUME NEW i \in 1..(o - k), NEW j \in 1..(o - k), p.pending[i] = p.pending[j]
          PROVE  i = j
      <3>1. n.pending[k + i] = n.pending[k + j]
        BY <1>4, <2>2
      <3>2. k + i = k + j
        BY <1>10, <1>14, <3>1
      <3>3. QED
        BY <1>4, <3>2
    <2>3. QED
      BY <1>4, <2>1, <2>2 DEF Distinct
  <1>25. ASSUME NEW s \in Slot
         PROVE  p.slots[s].conn = NoConn <=> \E i \in 1..Len(p.free) : p.free[i] = s
    <2>1. CASE \E i \in 1..k : s = New(i)
      <3>1. PICK i \in 1..k : s = New(i)
        BY <2>1
      <3>2. p.slots[s].conn # NoConn
        BY <1>20, <3>1
      <3>3. ASSUME NEW j \in 1..(l - k), p.free[j] = s PROVE FALSE
        BY <1>4, <1>8, <1>9, <1>12, <1>14, <3>1, <3>3
      <3>4. QED
        BY <1>4, <3>2, <3>3
    <2>2. CASE (\A i \in 1..k : s # New(i)) /\ p.slots[s] = n.slots[s]
      <3>1. n.slots[s].conn = NoConn <=> \E i \in 1..l : n.free[i] = s
        BY <1>2 DEF Kept, Placed
      <3>2. (\E i \in 1..l : n.free[i] = s) <=> \E i \in 1..(l - k) : n.free[i] = s
        BY <1>9, <1>11, <2>2
      <3>3. QED
        BY <1>4, <2>2, <3>1, <3>2
    <2>3. QED
      BY <1>18, <2>1, <2>2
  <1>26. ASSUME NEW s \in Slot, NEW t \in Slot,
                p.slots[s].conn = p.slots[t].conn, p.slots[s].conn # NoConn
         PROVE  s = t
    <2>1. CASE (\E i \in 1..k : s = New(i)) /\ (\E i \in 1..k : t = New(i))
      <3>1. PICK i \in 1..k, j \in 1..k : s = New(i) /\ t = New(j)
        BY <2>1
      <3>2. i = j
        BY <1>8, <1>14, <1>20, <1>26, <3>1
      <3>3. QED
        BY <3>1, <3>2
    <2>2. CASE p.slots[s] = n.slots[s] /\ p.slots[t] = n.slots[t]
      BY <1>26, <2>2 DEF Kept, Placed
    <2>3. ASSUME NEW u \in Slot, NEW v \in Slot, NEW i \in 1..k, u = New(i),
                 p.slots[v] = n.slots[v], p.slots[u].conn = p.slots[v].conn
          PROVE  FALSE
      <3>1. n.slots[v].conn = n.pending[i] /\ n.pending[i] # NoConn
        BY <1>20, <2>3
      <3>2. QED
        BY <1>8, <1>16, <1>21, <3>1
    <2>4. QED
      BY <1>18, <1>26, <2>1, <2>2, <2>3
  <1>27. ASSUME NEW s \in Slot, p.slots[s].conn # NoConn
         PROVE  p.sock[p.slots[s].conn].at = "slot"
    BY <1>17, <1>18, <1>20, <1>21, <1>22, <1>27
  <1>28. ASSUME NEW c \in Conn, p.sock[c].at = "slot"
         PROVE  \E s \in Slot : p.slots[s].conn = c
    <2>1. CASE \E i \in 1..k : c = n.pending[i]
      BY <1>5, <1>20, <2>1
    <2>2. CASE p.sock[c] = n.sock[c]
      <3>1. PICK s \in Slot : n.slots[s].conn = c
        BY <1>28, <2>2 DEF Kept, Placed
      <3>2. \A i \in 1..k : s # New(i)
        BY <1>6, <1>15, <3>1
      <3>3. QED
        BY <1>18, <3>1, <3>2
    <2>3. QED
      BY <1>19, <2>1, <2>2
  <1>29. ASSUME NEW i \in 1..Len(p.pending)
         PROVE  p.sock[p.pending[i]].at = "pending"
    <2>1. i \in 1..(o - k) /\ p.pending[i] = n.pending[k + i]
      BY <1>4
    <2>2. k + i \in 1..o /\ k + i \notin 1..k
      BY <1>10, <2>1
    <2>3. PICK c : c = n.pending[k + i]
      OBVIOUS
    <2>4. c \in Conn /\ n.sock[c].at = "pending"
      BY <1>16, <2>2, <2>3
    <2>5. \A j \in 1..k : n.pending[j] # c
      BY <1>8, <1>14, <2>2, <2>3
    <2>6. p.sock[c] = n.sock[c]
      BY <1>5, <2>4, <2>5
    <2>7. QED
      BY <2>1, <2>3, <2>4, <2>6
  <1>30. ASSUME NEW c \in Conn, p.sock[c].at = "pending"
         PROVE  \E i \in 1..Len(p.pending) : p.pending[i] = c
    <2>1. (\A i \in 1..k : c # n.pending[i]) /\ p.sock[c] = n.sock[c]
      BY <1>17, <1>19, <1>30
    <2>2. PICK i \in 1..o : n.pending[i] = c
      BY <1>3, <1>30, <2>1 DEF Kept, Placed
    <2>3. i \notin 1..k
      BY <2>1, <2>2
    <2>4. PICK j \in 1..(o - k) : i = k + j
      BY <1>13, <2>3
    <2>5. QED
      BY <1>4, <2>2, <2>4
  <1>31. Placed(p)
    BY <1>24, <1>25, <1>26, <1>27, <1>28, <1>29, <1>30 DEF Placed
  <1>32. ASSUME NEW s \in Slot
         PROVE  /\ p.slots[s].conn = NoConn => p.slots[s] = EmptySlot
                /\ p.slots[s].conn # NoConn => p.slots[s].state # "none"
                /\ p.slots[s].reused => p.sock[p.slots[s].conn].served
                /\ p.slots[s].unscanned => p.slots[s].state = "header"
    <2>1. CASE \E i \in 1..k : s = New(i)
      BY <1>20, <2>1
    <2>2. CASE p.slots[s] = n.slots[s]
      <3>1. CASE n.slots[s].conn = NoConn
        <4>1. n.slots[s] = EmptySlot
          BY <3>1 DEF Kept, Sound
        <4>2. QED
          BY <2>2, <4>1, EmptyFacts
      <3>2. CASE n.slots[s].conn # NoConn
        <4>1. p.sock[n.slots[s].conn] = n.sock[n.slots[s].conn]
          BY <1>22, <3>2
        <4>2. QED
          BY <2>2, <3>2, <4>1 DEF Kept, Sound
      <3>3. QED
        BY <3>1, <3>2
    <2>3. QED
      BY <1>18, <2>1, <2>2, SMTT(30)
  <1>33. \A c \in Conn : p.sock[c].at = "closed" => p.sock[c].served
    BY <1>17, <1>19 DEF Kept, Sound
  <1>34. Kept(p)
    BY <1>23, <1>31, <1>32, <1>33 DEF Kept, Sound
  <1>35. \A c \in Conn : n.sock[c].at = "rejecting" => p.sock[c] = n.sock[c]
    BY <1>8, <1>16, <1>19
  <1>36. \A s \in Slot : p.slots[s].state = "handler" => p.slots[s] = n.slots[s]
    BY <1>18, <1>20
  <1>37. \A s \in Slot : n.slots[s].state = "handler" => p.slots[s] = n.slots[s]
    BY <1>15, <1>18, EmptyFacts
  <1>38. Len(p.pending) <= Len(n.pending) /\ Taken(p) <= Taken(n)
    <2>1. setup.active \in Nat
      BY LimitFacts
    <2>2. PICK a : a = setup.active
      OBVIOUS
    <2>3. Taken(p) = (o - k) + a - (l - k) /\ Taken(n) = o + a - l
      BY <1>2, <1>3, <1>4, <2>2 DEF Taken
    <2>4. (o - k) + a - (l - k) = o + a - l /\ o - k <= o /\ o + a - l \in Int
      BY <1>4, <2>1, <2>2
    <2>5. QED
      BY <1>3, <1>4, <2>3, <2>4
  <1>39. QED
    BY <1>34, <1>35, <1>36, <1>37, <1>38 DEF Follows

\* promote_pending.
LEMMA PromoteFollows ==
    ASSUME setup \in Setups, NEW n, Kept(n)
    PROVE  /\ Follows(n, Promote(n))
           /\ \A s \in Slot : n.slots[s].state = "handler" => Promote(n).slots[s] = n.slots[s]
  <1>1. PICK m : m = Evict(n)
    OBVIOUS
  <1>2. Follows(n, m) /\ \A s \in Slot : n.slots[s].state = "handler" => m.slots[s] = n.slots[s]
    BY <1>1, EvictFollows
  <1>3. Kept(m)
    BY <1>2 DEF Follows
  <1>4. PICK p : p = Fill(m)
    OBVIOUS
  <1>5. Follows(m, p) /\ \A s \in Slot : m.slots[s].state = "handler" => p.slots[s] = m.slots[s]
    BY <1>3, <1>4, FillFollows
  <1>6. Promote(n) = p
    BY <1>1, <1>4 DEF Promote
  <1>7. Follows(n, p)
    BY <1>2, <1>5, FollowsTrans
  <1>8. QED
    BY <1>2, <1>5, <1>6, <1>7

-----------------------------------------------------------------------------
(* Permits *)

LEMMA IntervalCount ==
    ASSUME NEW k \in Nat
    PROVE  IsFiniteSet(1..k) /\ Cardinality(1..k) = k
  <1>1. 1 \in Int /\ k \in Int
    OBVIOUS
  <1>2. IsFiniteSet(1..k) /\ Cardinality(1..k) = IF 1 > k THEN 0 ELSE k - 1 + 1
    BY <1>1, FS_Interval
  <1>3. (IF 1 > k THEN 0 ELSE k - 1 + 1) = k
    OBVIOUS
  <1>4. QED
    BY <1>2, <1>3

\* Distinct elements are as many as the sequence is long.
LEMMA DistinctCount ==
    ASSUME NEW S, NEW q \in Seq(S), Distinct(q)
    PROVE  IsFiniteSet(ToSet(q)) /\ Cardinality(ToSet(q)) = Len(q)
  <1>1. PICK T : T = ToSet(q)
    OBVIOUS
  <1>2. Len(q) \in Nat /\ DOMAIN q = 1..Len(q) /\ q = [i \in 1..Len(q) |-> q[i]]
    OBVIOUS
  <1>3. \A x : x \in T <=> \E i \in 1..Len(q) : q[i] = x
    BY <1>1, <1>2 DEF ToSet
  <1>4. q \in [1..Len(q) -> T]
    BY <1>2, <1>3
  <1>5. q \in Bijection(1..Len(q), T)
    <2>1. \A i, k \in 1..Len(q) : q[i] = q[k] => i = k
      BY DEF Distinct
    <2>2. \A x \in T : \E i \in 1..Len(q) : q[i] = x
      BY <1>3
    <2>3. QED
      BY <1>2, <1>4, <2>1, <2>2 DEF Bijection, Injection, Surjection, IsInjective
  <1>6. ExistsBijection(1..Len(q), T)
    BY <1>5 DEF ExistsBijection
  <1>7. IsFiniteSet(1..Len(q)) /\ Cardinality(1..Len(q)) = Len(q)
    BY <1>2, IntervalCount
  <1>8. QED
    BY <1>1, <1>6, <1>7, FS_Bijection

\* The slots in use are those that are not free.
LEMMA SlotCount ==
    ASSUME setup \in Setups, NEW n, Kept(n)
    PROVE  /\ Cardinality({s \in Slot : n.slots[s].conn # NoConn}) = setup.active - Len(n.free)
           /\ Cardinality(ToSet(n.free)) = Len(n.free)
           /\ Len(n.free) \in Nat /\ Len(n.pending) \in Nat
  <1>1. PICK F : F = ToSet(n.free)
    OBVIOUS
  <1>2. PICK U : U = {s \in Slot : n.slots[s].conn # NoConn}
    OBVIOUS
  <1>3. n.free \in Seq(Slot) /\ Len(n.free) \in Nat /\ Len(n.pending) \in Nat
    BY NetFacts DEF Kept
  <1>4. IsFiniteSet(F) /\ Cardinality(F) = Len(n.free)
    BY <1>1, <1>3, DistinctCount DEF Kept, Placed
  <1>5. \A x : x \in F <=> \E i \in 1..Len(n.free) : n.free[i] = x
    BY <1>1, <1>3 DEF ToSet
  <1>6. F \subseteq Slot
    BY <1>3, <1>5
  <1>7. \A s \in Slot : n.slots[s].conn = NoConn <=> s \in F
    BY <1>5 DEF Kept, Placed
  <1>8. U = Slot \ F
    BY <1>2, <1>7
  <1>9. setup.active \in Nat /\ IsFiniteSet(Slot) /\ Cardinality(Slot) = setup.active
    BY LimitFacts, IntervalCount DEF Slot
  <1>10. IsFiniteSet(U) /\ Cardinality(U) \in Nat
    BY <1>8, <1>9, FS_Difference, FS_CardinalityType
  <1>11. F \cup U = Slot /\ F \cap U = {}
    BY <1>6, <1>8
  <1>12. Cardinality(F \cup U) = Cardinality(F) + Cardinality(U) - Cardinality(F \cap U)
    BY <1>4, <1>10, FS_Union
  <1>13. setup.active = Len(n.free) + Cardinality(U)
    <2>1. Cardinality(F \cap U) = 0
      BY <1>11, FS_EmptySet
    <2>2. Cardinality(Slot) = Cardinality(F) + Cardinality(U) - 0
      BY <1>11, <1>12, <2>1
    <2>3. QED
      BY <1>3, <1>4, <1>9, <1>10, <2>2
  <1>14. QED
    BY <1>1, <1>2, <1>3, <1>4, <1>9, <1>10, <1>13

\* connection_count.
LEMMA PermitCount ==
    ASSUME setup \in Setups, Kept(net)
    PROVE  /\ Permits = Taken(net) + (IF rejecting.permit THEN 1 ELSE 0)
           /\ Taken(net) \in Int /\ Len(net.pending) \in Nat
  BY SlotCount, LimitFacts, SMTT(30) DEF Permits, Taken

-----------------------------------------------------------------------------
(* Steps *)

\* The parts of the invariant.
LEMMA InvFacts ==
    ASSUME HttpInv
    PROVE  /\ setup \in Setups /\ Kept(net) /\ net \in Nets
           /\ Slot \subseteq Nat \ {0} /\ NoConn \notin Conn
           /\ ShapeInv /\ LimitInv /\ ReplyInv /\ WakeInv /\ EarlyInv
  BY LimitFacts DEF HttpInv, ShapeInv, TypeOK, Kept

\* Kept of the next value of net.
LEMMA KeptNext ==
    ASSUME setup' = setup, Kept(net')
    PROVE  Kept(net)' /\ net' \in Nets' /\ Slot' = Slot
  <1>1. Slot' = Slot
    BY DEF Slot
  <1>2. Nets' = Nets
    BY <1>1 DEF Nets
  <1>3. Placed(net)' /\ Sound(net)'
    BY <1>1 DEF Kept, Placed, Sound
  <1>4. QED
    BY <1>1, <1>2, <1>3 DEF Kept

\* The type invariant, once net has its type.
OtherTypes ==
    /\ rejecting \in [conn : Conn \cup {NoConn}, permit : BOOLEAN,
                      writing : BOOLEAN, late : BOOLEAN]
    /\ retry \in BOOLEAN /\ stop \in BOOLEAN
    /\ reactor \in [at : ReactorLabels, slot : 0..setup.active,
                   events : [wake : BOOLEAN, listener : BOOLEAN,
                             conns : SUBSET (Slot \X Conn \X Nat),
                             rejection : Conn \cup {NoConn}]]
    /\ jobs \in Seq(Request) /\ due \subseteq Request /\ early \subseteq Request
    /\ DOMAIN replies \subseteq Request
    /\ handler \in [at : HandlerLabels, job : Request \cup {NoRequest},
                   answer : {"none", "ok", "error"}]
    /\ wake \in [byte : BOOLEAN, shut : BOOLEAN]
    /\ faults \in 0..MaxFaults
    /\ handler.at \in {"run", "publish"} => handler.job \in Request

\* The invariant of the next state from its parts.
LEMMA InvNext ==
    ASSUME HttpInv, setup' = setup, Kept(net)', OtherTypes', LimitInv', ReplyInv',
           WakeInv', EarlyInv'
    PROVE  HttpInv'
  <1>1. setup' \in Setups /\ net' \in Nets'
    BY DEF HttpInv, ShapeInv, TypeOK, Kept
  <1>2. ShapeInv'
    BY <1>1 DEF ShapeInv, TypeOK, OtherTypes, Nets
  <1>3. QED
    BY <1>2 DEF HttpInv

\* A step that leaves sockets, slots and the rejected connection alone.
LEMMA NetSame ==
    ASSUME HttpInv, UNCHANGED <<setup, net, rejecting>>
    PROVE  Kept(net)' /\ LimitInv' /\ Slot' = Slot
  <1>1. Kept(net')
    BY DEF HttpInv
  <1>2. LimitInv'
    BY DEF HttpInv, LimitInv, Taken
  <1>3. QED
    BY <1>1, <1>2, KeptNext

\* A step that in addition leaves the I/O thread alone and loses no response.
LEMMA ReactorSame ==
    ASSUME HttpInv, UNCHANGED <<setup, net, rejecting, reactor, early>>,
           DOMAIN replies \subseteq DOMAIN replies'
    PROVE  /\ Kept(net)' /\ LimitInv' /\ EarlyInv'
           /\ replies' = replies => ReplyInv'
  <1>1. Kept(net)' /\ LimitInv' /\ Slot' = Slot
    BY NetSame
  <1>2. EarlyInv'
    BY <1>1 DEF HttpInv, EarlyInv, Waiting, Current
  <1>3. replies' = replies => ReplyInv'
    BY <1>1 DEF HttpInv, ReplyInv, Waiting, Current
  <1>4. QED
    BY <1>1, <1>2, <1>3

LEMMA FaultCount ==
    ASSUME OtherTypes, faults' = faults \/ Fault
    PROVE  faults' \in 0..MaxFaults
  BY HttpAssumption DEF OtherTypes, Fault

\* What is still looked after are requests.
LEMMA LiveRequests ==
    ASSUME setup \in Setups, Kept(net), OtherTypes
    PROVE  Live \subseteq Request
  <1>1. ASSUME NEW s \in Slot, net.slots[s].state = "handler"
        PROVE  Current(net, s) \in Request
    <2>1. net.slots[s].conn # NoConn
      BY <1>1, EmptyFacts DEF Kept, Sound
    <2>2. net.slots[s] \in SlotStates /\ net.slots[s].conn \in Conn
      BY <2>1, HeldFacts
    <2>3. QED
      BY <2>2 DEF Current, Request, SlotStates
  <1>2. ToSet(jobs) \subseteq Request
    BY DEF OtherTypes, ToSet
  <1>3. handler.at = "run" => handler.job \in Request
    BY DEF OtherTypes
  <1>4. QED
    BY <1>1, <1>2, <1>3 DEF Live

\* The interpreter's loop between two responses.
LEMMA LoopQuiet ==
    ASSUME HttpInv,
           UNCHANGED <<setup, net, rejecting, retry, reactor, replies, due, wake, stop, early, faults>>,
           handler.at \in {"idle", "recv", "run"},
           handler'.at \in {"idle", "recv", "run", "publish", "stop"},
           handler' \in [at : HandlerLabels, job : Request \cup {NoRequest},
                         answer : {"none", "ok", "error"}],
           handler'.at \in {"run", "publish"} => handler'.job \in Request,
           jobs' \in Seq(Request)
    PROVE  HttpInv'
  <1>1. Kept(net)' /\ LimitInv' /\ EarlyInv' /\ ReplyInv' /\ Slot' = Slot
    BY ReactorSame, NetSame
  <1>2. OtherTypes'
    BY <1>1 DEF HttpInv, ShapeInv, TypeOK, OtherTypes
  <1>3. WakeInv'
    BY <1>1 DEF HttpInv, WakeInv, Waiting, Current, Waking
  <1>4. QED
    BY <1>1, <1>2, <1>3, InvNext

\* One step of the interpreter's loop, or the end of a handler.
LEMMA LoopSafe ==
    ASSUME HttpInv, LoopStep \/ HandlerReturns \/ Terminate
    PROVE  HttpInv'
  <1>1. /\ handler \in [at : HandlerLabels, job : Request \cup {NoRequest},
                        answer : {"none", "ok", "error"}]
        /\ handler.at \in {"run", "publish"} => handler.job \in Request
        /\ jobs \in Seq(Request) /\ OtherTypes
    BY DEF HttpInv, ShapeInv, TypeOK, OtherTypes
  <1>2. CASE LoopTurn \/ Terminate
    <2>1. /\ UNCHANGED <<setup, net, rejecting, retry, reactor, jobs, replies, due, wake,
                         stop, early, faults>>
          /\ handler.at = "idle"
          /\ \/ handler' = [handler EXCEPT !.at = "recv"]
             \/ handler' = [handler EXCEPT !.at = "stop"]
      BY <1>2 DEF LoopTurn, Terminate, HandlerGoes
    <2>2. /\ handler'.at \in {"recv", "stop"}
          /\ handler' \in [at : HandlerLabels, job : Request \cup {NoRequest},
                           answer : {"none", "ok", "error"}]
      BY <1>1, <2>1 DEF HandlerLabels
    <2>3. QED
      BY <1>1, <2>1, <2>2, LoopQuiet
  <1>3. CASE NextJob
    <2>1. /\ UNCHANGED <<setup, net, rejecting, retry, reactor, replies, due, wake, stop,
                         early, faults>>
          /\ handler.at = "recv"
      BY <1>3 DEF NextJob
    <2>2. CASE /\ jobs # <<>> /\ jobs' = Tail(jobs)
               /\ handler' = IF Head(jobs) \in due
                    THEN [at |-> "publish", job |-> Head(jobs), answer |-> "error"]
                    ELSE [at |-> "run", job |-> Head(jobs), answer |-> "none"]
      <3>1. Head(jobs) \in Request /\ jobs' \in Seq(Request)
        BY <1>1, <2>2
      <3>2. /\ handler'.at \in {"run", "publish"} /\ handler'.job \in Request
            /\ handler' \in [at : HandlerLabels, job : Request \cup {NoRequest},
                             answer : {"none", "ok", "error"}]
        BY <2>2, <3>1 DEF HandlerLabels
      <3>3. QED
        BY <2>1, <3>1, <3>2, LoopQuiet
    <2>3. CASE /\ HandlerGoes("recv", IF reactor.at = "end" THEN "stop" ELSE "idle")
               /\ jobs' = jobs
      <3>1. /\ handler'.at \in {"idle", "stop"}
            /\ handler' \in [at : HandlerLabels, job : Request \cup {NoRequest},
                             answer : {"none", "ok", "error"}]
        BY <1>1, <2>3 DEF HandlerGoes, HandlerLabels
      <3>2. QED
        BY <1>1, <2>1, <2>3, <3>1, LoopQuiet
    <2>4. QED
      BY <1>3, <2>2, <2>3 DEF NextJob
  <1>4. CASE HandlerReturns
    <2>1. /\ UNCHANGED <<setup, net, rejecting, retry, reactor, jobs, replies, due, wake,
                         stop, early, faults>>
          /\ handler.at = "run"
          /\ \E answer \in {"ok", "error"} :
               handler' = [handler EXCEPT !.at = "publish",
                             !.answer = IF handler.job \in due THEN "error" ELSE answer]
      BY <1>4 DEF HandlerReturns
    <2>2. /\ handler'.at = "publish" /\ handler'.job \in Request
          /\ handler' \in [at : HandlerLabels, job : Request \cup {NoRequest},
                           answer : {"none", "ok", "error"}]
      BY <1>1, <2>1 DEF HandlerLabels
    <2>3. QED
      BY <1>1, <2>1, <2>2, LoopQuiet
  <1>5. CASE Publish
    <2>1. /\ UNCHANGED <<setup, net, rejecting, retry, reactor, jobs, due, wake, stop, early,
                         faults>>
          /\ handler.at = "publish" /\ handler.job \in Request
      BY <1>1, <1>5 DEF Publish, HandlerGoes
    <2>2. \/ /\ ReceiverOpen(handler.job) /\ DOMAIN replies' = DOMAIN replies \cup {handler.job}
             /\ handler' = [handler EXCEPT !.at = "notify"]
          \/ replies' = replies /\ handler' = [handler EXCEPT !.at = "idle"]
      BY <1>5 DEF Publish, HandlerGoes
    <2>3. /\ Kept(net)' /\ LimitInv' /\ EarlyInv' /\ Slot' = Slot
          /\ replies' = replies => ReplyInv'
      BY <2>1, <2>2, ReactorSame, NetSame
    <2>4. handler' \in [at : HandlerLabels, job : Request \cup {NoRequest},
                        answer : {"none", "ok", "error"}]
      BY <1>1, <2>2 DEF HandlerLabels
    <2>5. \/ handler'.at = "notify"
          \/ handler'.at = "idle" /\ replies' = replies
      BY <1>1, <2>2
    <2>6. OtherTypes'
      BY <1>1, <2>1, <2>2, <2>3, <2>4, <2>5 DEF OtherTypes
    <2>7. ReplyInv'
      <3>1. CASE replies' = replies
        BY <2>3, <3>1
      <3>2. CASE /\ ReceiverOpen(handler.job)
                 /\ DOMAIN replies' = DOMAIN replies \cup {handler.job}
        BY <2>1, <2>3, <3>2 DEF HttpInv, ReplyInv, ReceiverOpen, Waiting, Current
      <3>3. QED
        BY <2>2, <3>1, <3>2
    <2>8. WakeInv'
      BY <2>1, <2>3, <2>5 DEF HttpInv, WakeInv, Waiting, Current, Waking
    <2>9. QED
      BY <2>1, <2>3, <2>6, <2>7, <2>8, InvNext
  <1>6. CASE Notify
    <2>1. /\ UNCHANGED <<setup, net, rejecting, retry, reactor, jobs, replies, due, stop, early>>
          /\ handler.at = "notify"
          /\ \/ /\ handler' = [handler EXCEPT !.at = "idle"] /\ faults' = faults
                /\ wake' = [wake EXCEPT !.byte = TRUE]
             \/ handler' = [handler EXCEPT !.at = "stop"] /\ Fault /\ wake' = wake
      BY <1>6 DEF Notify, HandlerGoes
    <2>2. Kept(net)' /\ LimitInv' /\ EarlyInv' /\ Slot' = Slot /\ ReplyInv'
      BY <2>1, ReactorSame, NetSame
    <2>3. handler' \in [at : HandlerLabels, job : Request \cup {NoRequest},
                        answer : {"none", "ok", "error"}]
      BY <1>1, <2>1 DEF HandlerLabels
    <2>4. /\ wake' \in [byte : BOOLEAN, shut : BOOLEAN] /\ faults' \in 0..MaxFaults
          /\ wake.shut => wake'.shut
          /\ \/ handler'.at = "idle" /\ wake'.byte
             \/ handler'.at = "stop" /\ wake' = wake
      <3>1. faults' \in 0..MaxFaults
        BY <1>1, <2>1, FaultCount
      <3>2. wake \in [byte : BOOLEAN, shut : BOOLEAN]
        BY <1>1 DEF OtherTypes
      <3>3. CASE wake' = [wake EXCEPT !.byte = TRUE] /\ handler' = [handler EXCEPT !.at = "idle"]
        BY <1>1, <3>1, <3>2, <3>3
      <3>4. CASE wake' = wake /\ handler' = [handler EXCEPT !.at = "stop"]
        BY <1>1, <3>1, <3>2, <3>4
      <3>5. QED
        BY <2>1, <3>3, <3>4
    <2>5. OtherTypes'
      BY <1>1, <2>1, <2>2, <2>3, <2>4 DEF OtherTypes
    <2>6. WakeInv'
      BY <2>1, <2>2, <2>4 DEF HttpInv, WakeInv, Waiting, Current, Waking
    <2>7. QED
      BY <2>1, <2>2, <2>5, <2>6, InvNext
  <1>7. CASE SetStop
    <2>1. /\ UNCHANGED <<setup, net, rejecting, retry, reactor, jobs, replies, due, wake, early,
                         faults>>
          /\ handler' = [handler EXCEPT !.at = "wakeup"] /\ stop' = TRUE
      BY <1>7 DEF SetStop, HandlerGoes
    <2>2. Kept(net)' /\ LimitInv' /\ EarlyInv' /\ Slot' = Slot /\ ReplyInv'
      BY <2>1, ReactorSame, NetSame
    <2>3. handler' \in [at : HandlerLabels, job : Request \cup {NoRequest},
                        answer : {"none", "ok", "error"}] /\ handler'.at = "wakeup"
      BY <1>1, <2>1 DEF HandlerLabels
    <2>4. OtherTypes'
      BY <1>1, <2>1, <2>2, <2>3 DEF OtherTypes
    <2>5. WakeInv'
      BY <2>1, <2>2, <2>3 DEF HttpInv, WakeInv, Waiting, Current, Waking
    <2>6. QED
      BY <2>1, <2>2, <2>4, <2>5, InvNext
  <1>8. CASE WakeUp
    <2>1. /\ UNCHANGED <<setup, net, rejecting, retry, reactor, jobs, replies, due, stop, early>>
          /\ handler.at = "wakeup" /\ handler' = [handler EXCEPT !.at = "join"]
          /\ \/ wake' = [wake EXCEPT !.byte = TRUE] /\ faults' = faults
             \/ Fault /\ wake' = [wake EXCEPT !.shut = TRUE]
      BY <1>8 DEF WakeUp, HandlerGoes
    <2>2. Kept(net)' /\ LimitInv' /\ EarlyInv' /\ Slot' = Slot /\ ReplyInv'
      BY <2>1, ReactorSame, NetSame
    <2>3. handler' \in [at : HandlerLabels, job : Request \cup {NoRequest},
                        answer : {"none", "ok", "error"}] /\ handler'.at = "join"
      BY <1>1, <2>1 DEF HandlerLabels
    <2>4. /\ wake' \in [byte : BOOLEAN, shut : BOOLEAN] /\ faults' \in 0..MaxFaults
          /\ wake'.byte \/ wake'.shut
      <3>1. faults' \in 0..MaxFaults
        BY <1>1, <2>1, FaultCount
      <3>2. wake \in [byte : BOOLEAN, shut : BOOLEAN]
        BY <1>1 DEF OtherTypes
      <3>3. CASE wake' = [wake EXCEPT !.byte = TRUE]
        BY <3>1, <3>2, <3>3
      <3>4. CASE wake' = [wake EXCEPT !.shut = TRUE]
        BY <3>1, <3>2, <3>4
      <3>5. QED
        BY <2>1, <3>3, <3>4
    <2>5. OtherTypes'
      BY <1>1, <2>1, <2>2, <2>3, <2>4 DEF OtherTypes
    <2>6. WakeInv'
      BY <2>1, <2>2, <2>3, <2>4 DEF HttpInv, WakeInv, Waiting, Current, Waking
    <2>7. QED
      BY <2>1, <2>2, <2>5, <2>6, InvNext
  <1>9. CASE Join
    <2>1. /\ UNCHANGED <<setup, net, rejecting, retry, reactor, replies, due, wake, stop, early,
                         faults>>
          /\ reactor.at = "end" /\ handler.at = "join" /\ jobs' = <<>>
          /\ handler' = [at |-> "end", job |-> NoRequest, answer |-> "none"]
      BY <1>9 DEF Join
    <2>2. Kept(net)' /\ LimitInv' /\ EarlyInv' /\ Slot' = Slot /\ ReplyInv'
      BY <2>1, ReactorSame, NetSame
    <2>3. handler' \in [at : HandlerLabels, job : Request \cup {NoRequest},
                        answer : {"none", "ok", "error"}] /\ handler'.at = "end"
      BY <2>1 DEF HandlerLabels
    <2>4. OtherTypes'
      BY <1>1, <2>1, <2>2, <2>3 DEF OtherTypes
    <2>5. WakeInv'
      <3>1. \A s \in Slot : ~Waiting(s)'
        BY <2>1 DEF HttpInv, ReplyInv, Waiting
      <3>2. QED
        BY <2>1, <2>2, <2>3, <3>1 DEF HttpInv, WakeInv
    <2>6. QED
      BY <2>1, <2>2, <2>4, <2>5, InvNext
  <1>10. QED
    BY <1>2, <1>3, <1>4, <1>5, <1>6, <1>7, <1>8, <1>9 DEF LoopStep

\* A socket in no slot and not pending changes, or one that stays where it is.
WithSocket(n, c, a) == [n EXCEPT !.sock[c] = a]
SocketMay(old, new) ==
    /\ \/ new.at = old.at
       \/ new.at \notin {"slot", "pending"} /\ old.at \notin {"slot", "pending"}
    /\ old.served => new.served
    /\ new.at = "closed" => new.served

LEMMA SocketKept ==
    ASSUME setup \in Setups, NEW n, Kept(n), NEW c \in Conn, NEW a \in Sockets,
           SocketMay(n.sock[c], a), NEW m, m = WithSocket(n, c, a)
    PROVE  /\ Kept(m) /\ m.slots = n.slots /\ m.free = n.free /\ m.pending = n.pending
           /\ m.sock[c] = a /\ \A d \in Conn : d # c => m.sock[d] = n.sock[d]
  <1>1. n \in Nets
    BY DEF Kept
  <1>2. /\ m \in Nets /\ m.slots = n.slots /\ m.free = n.free /\ m.pending = n.pending
        /\ m.sock[c] = a /\ \A d \in Conn : d # c => m.sock[d] = n.sock[d]
    BY <1>1 DEF Nets, WithSocket
  <1>3. /\ \A s \in Slot : n.slots[s].conn # NoConn => n.slots[s].conn \in Conn
        /\ \A i \in 1..Len(n.pending) : n.pending[i] \in Conn
    BY <1>1, NetFacts DEF SlotStates
  <1>4. \A d \in Conn : /\ m.sock[d].at = "slot" <=> n.sock[d].at = "slot"
                        /\ m.sock[d].at = "pending" <=> n.sock[d].at = "pending"
                        /\ n.sock[d].served => m.sock[d].served
                        /\ m.sock[d].at = "closed" => m.sock[d].served
    BY <1>2 DEF Kept, Sound, SocketMay
  <1>5. Placed(m)
    BY <1>2, <1>3, <1>4 DEF Kept, Placed
  <1>6. Sound(m)
    <2>1. ASSUME NEW s \in Slot, n.slots[s].reused
          PROVE  m.sock[n.slots[s].conn].served
      <3>1. n.slots[s].conn # NoConn
        BY <2>1, EmptyFacts DEF Kept, Sound
      <3>2. n.sock[n.slots[s].conn].served
        BY <2>1 DEF Kept, Sound
      <3>3. QED
        BY <1>3, <1>4, <3>1, <3>2
    <2>2. QED
      BY <1>2, <1>4, <2>1 DEF Kept, Sound
  <1>7. QED
    BY <1>2, <1>5, <1>6 DEF Kept

\* A step that leaves the two threads and the waiting requests alone.
LEMMA ThreadsSame ==
    ASSUME HttpInv, UNCHANGED <<setup, reactor, replies, handler, wake, stop, early>>,
           Kept(net'), LimitInv', OtherTypes',
           \A s \in Slot : net.slots[s].state = "handler" \/ net'.slots[s].state = "handler"
                             => net'.slots[s] = net.slots[s]
    PROVE  HttpInv'
  <1>1. Kept(net)' /\ Slot' = Slot
    BY KeptNext
  <1>2. \A s \in Slot : Waiting(s)' <=> Waiting(s)
    BY DEF Waiting
  <1>3. \A s \in Slot : Waiting(s) => /\ Current(net, s)' = Current(net, s)
                                      /\ net'.slots[s] = net.slots[s]
    BY DEF Waiting, Current
  <1>4. ReplyInv'
    BY <1>1, <1>2, <1>3 DEF HttpInv, ReplyInv
  <1>5. WakeInv'
    BY <1>1, <1>2, <1>3 DEF HttpInv, WakeInv
  <1>6. EarlyInv'
    BY <1>1, <1>2, <1>3 DEF HttpInv, EarlyInv
  <1>7. QED
    BY <1>1, <1>4, <1>5, <1>6, InvNext

\* Clients.
LEMMA ClientSafe ==
    ASSUME HttpInv, NEW c \in Conn, Connect(c) \/ SendPiece(c) \/ Leave(c)
    PROVE  HttpInv'
  <1>1. /\ UNCHANGED <<setup, rejecting, retry, reactor, jobs, replies, handler, due, wake, stop, early>>
        /\ faults' = faults \/ Fault
    BY DEF Connect, SendPiece, Leave
  <1>2. setup \in Setups /\ Kept(net) /\ net \in Nets /\ OtherTypes
    BY DEF HttpInv, ShapeInv, TypeOK, OtherTypes, Kept
  <1>3. net.sock[c] \in Sockets
    BY <1>2, NetFacts
  <1>4. PICK a \in Sockets :
          /\ net' = [net EXCEPT !.sock[c] = a]
          /\ \/ a.at = net.sock[c].at
             \/ a.at = "backlog" /\ net.sock[c].at = "out"
          /\ a.served = net.sock[c].served
    <2>1. CASE Connect(c)
      <3>1. PICK a : a = [net.sock[c] EXCEPT !.at = "backlog"]
        OBVIOUS
      <3>2. a \in Sockets /\ a.at = "backlog" /\ a.served = net.sock[c].served
        BY <1>3, <3>1 DEF Sockets
      <3>3. net' = [net EXCEPT !.sock[c] = a] /\ net.sock[c].at = "out"
        BY <1>2, <2>1, <3>1 DEF Connect, Nets
      <3>4. QED
        BY <3>2, <3>3
    <2>2. CASE SendPiece(c)
      <3>1. PICK a : a = [net.sock[c] EXCEPT !.sent = @ + 1]
        OBVIOUS
      <3>2. a \in Sockets /\ a.at = net.sock[c].at /\ a.served = net.sock[c].served
        BY <1>3, <3>1 DEF Sockets
      <3>3. net' = [net EXCEPT !.sock[c] = a]
        BY <1>2, <2>2, <3>1 DEF SendPiece, Nets
      <3>4. QED
        BY <3>2, <3>3
    <2>3. CASE Leave(c)
      <3>1. PICK a : a = [net.sock[c] EXCEPT !.left = TRUE]
        OBVIOUS
      <3>2. a \in Sockets /\ a.at = net.sock[c].at /\ a.served = net.sock[c].served
        BY <1>3, <3>1 DEF Sockets
      <3>3. net' = [net EXCEPT !.sock[c] = a]
        BY <1>2, <2>3, <3>1 DEF Leave, Nets
      <3>4. QED
        BY <3>2, <3>3
    <2>4. QED
      BY <2>1, <2>2, <2>3
  <1>5. a.at = "closed" => a.served
    BY <1>4 DEF HttpInv, Kept, Sound
  <1>6. /\ Kept(net') /\ net'.slots = net.slots /\ net'.free = net.free
        /\ net'.pending = net.pending
        /\ net'.sock[c] = a /\ \A d \in Conn : d # c => net'.sock[d] = net.sock[d]
    <2>1. SocketMay(net.sock[c], a)
      BY <1>4, <1>5 DEF SocketMay
    <2>2. net' = WithSocket(net, c, a)
      BY <1>4 DEF WithSocket
    <2>3. QED
      BY <1>2, <2>1, <2>2, SocketKept
  <1>7. LimitInv'
    BY <1>1, <1>2, <1>4, <1>6 DEF HttpInv, LimitInv, Taken, OtherTypes
  <1>8. OtherTypes'
    BY <1>1, <1>2, <1>6, FaultCount, KeptNext DEF OtherTypes
  <1>9. QED
    BY <1>1, <1>6, <1>7, <1>8, ThreadsSame

\* Time.
LEMMA DeadlineSafe ==
    ASSUME HttpInv, Deadlines
    PROVE  HttpInv'
  <1>1. setup \in Setups /\ Kept(net) /\ net \in Nets /\ OtherTypes
    BY DEF HttpInv, ShapeInv, TypeOK, OtherTypes, Kept
  <1>2. ASSUME NEW s \in Slot, SocketDeadline(s) PROVE HttpInv'
    <2>1. /\ UNCHANGED <<setup, rejecting, retry, reactor, jobs, replies, handler, due, wake,
                         stop, early, faults>>
          /\ net' = [net EXCEPT !.slots[s].late = TRUE]
          /\ net.slots[s].state \in {"header", "body", "write"}
      BY <1>2 DEF SocketDeadline
    <2>2. net.slots[s].conn # NoConn
      BY <2>1, EmptyFacts DEF HttpInv, Kept, Sound
    <2>3. PICK b : b = [net.slots[s] EXCEPT !.late = TRUE]
      OBVIOUS
    <2>4. PICK a : a = net.sock[net.slots[s].conn]
      OBVIOUS
    <2>5. /\ net.slots[s] \in SlotStates /\ net.slots[s].conn \in Conn /\ a \in Sockets
          /\ a.at = "slot" /\ (net.slots[s].reused => a.served)
          /\ net.slots[s].unscanned => net.slots[s].state = "header"
      BY <1>1, <2>2, <2>4, HeldFacts
    <2>6. /\ b \in SlotStates /\ b.state = net.slots[s].state /\ b.conn = net.slots[s].conn
          /\ b.unscanned = net.slots[s].unscanned /\ b.reused = net.slots[s].reused
      BY <2>3, <2>5 DEF SlotStates
    <2>7. net' = Edit(net, s, a, b, net.free)
      BY <1>1, <2>1, <2>3, <2>4, <2>5 DEF Nets, Edit
    <2>8. Revised(net, net', s)
      BY <1>1, <2>1, <2>2, <2>5, <2>6, <2>7, EditRevises
    <2>9. /\ Kept(net') /\ Follows(net, net')
          /\ \A t \in Slot : t # s => net'.slots[t] = net.slots[t]
      BY <1>1, <2>2, <2>8, RevisedKept, PolledFollows DEF Polled
    <2>10. net'.slots[s].state # "handler"
      BY <2>8 DEF Revised
    <2>11. LimitInv'
      <3>1. net'.free = net.free /\ net'.pending = net.pending
        BY <2>8 DEF Revised, Stays
      <3>2. rejecting.conn # NoConn => net'.sock[rejecting.conn].at = "rejecting"
        BY <1>1, <2>9 DEF HttpInv, LimitInv, Follows, OtherTypes
      <3>3. QED
        BY <2>1, <3>1, <3>2 DEF HttpInv, LimitInv, Taken
    <2>12. OtherTypes'
      BY <1>1, <2>1, <2>9, KeptNext DEF OtherTypes
    <2>13. QED
      BY <2>1, <2>9, <2>10, <2>11, <2>12, ThreadsSame
  <1>3. ASSUME NEW r \in Live, RequestDeadline(r) PROVE HttpInv'
    <2>1. /\ UNCHANGED <<setup, net, rejecting, retry, reactor, jobs, replies, handler, wake,
                         stop, early, faults>>
          /\ due' = due \cup {r}
      BY <1>3 DEF RequestDeadline
    <2>2. r \in Request
      BY <1>1, <1>3, LiveRequests
    <2>3. Kept(net)' /\ LimitInv' /\ Slot' = Slot
      BY <2>1, NetSame
    <2>4. OtherTypes'
      BY <1>1, <2>1, <2>2, <2>3 DEF OtherTypes
    <2>5. Kept(net')
      BY <1>1, <2>1
    <2>6. QED
      BY <2>1, <2>3, <2>4, <2>5, ThreadsSame
  <1>4. CASE RejectionDeadline
    <2>1. /\ UNCHANGED <<setup, net, retry, reactor, jobs, replies, handler, due, wake, stop,
                         early, faults>>
          /\ rejecting' = [rejecting EXCEPT !.late = TRUE]
      BY <1>4 DEF RejectionDeadline
    <2>2. /\ rejecting' \in [conn : Conn \cup {NoConn}, permit : BOOLEAN,
                             writing : BOOLEAN, late : BOOLEAN]
          /\ rejecting'.conn = rejecting.conn /\ rejecting'.permit = rejecting.permit
      BY <1>1, <2>1 DEF OtherTypes
    <2>3. Kept(net') /\ Slot' = Slot
      BY <1>1, <2>1 DEF Slot
    <2>4. LimitInv'
      BY <2>1, <2>2 DEF HttpInv, LimitInv, Taken
    <2>5. OtherTypes'
      BY <1>1, <2>1, <2>2, <2>3 DEF OtherTypes
    <2>6. QED
      BY <2>1, <2>3, <2>4, <2>5, ThreadsSame
  <1>5. CASE RetryDeadline
    <2>1. /\ UNCHANGED <<setup, net, rejecting, reactor, jobs, replies, handler, due, wake, stop,
                         early, faults>>
          /\ retry' \in BOOLEAN
      BY <1>5 DEF RetryDeadline
    <2>2. Kept(net)' /\ LimitInv' /\ Slot' = Slot
      BY <2>1, NetSame
    <2>3. OtherTypes'
      BY <1>1, <2>1, <2>2 DEF OtherTypes
    <2>4. Kept(net')
      BY <1>1, <2>1
    <2>5. QED
      BY <2>1, <2>2, <2>3, <2>4, ThreadsSame
  <1>6. QED
    BY <1>2, <1>3, <1>4, <1>5 DEF Deadlines

-----------------------------------------------------------------------------
(* The end of the I/O thread *)

\* No connection in a slot and none pending.
Vacant(sock) == [sock |-> sock, slots |-> [s \in Slot |-> EmptySlot],
                 free |-> [k \in Slot |-> setup.active + 1 - k], pending |-> <<>>]

LEMMA VacantKept ==
    ASSUME setup \in Setups, NEW sock \in [Conn -> Sockets],
           \A c \in Conn : /\ sock[c].at \notin {"slot", "pending"}
                           /\ sock[c].at = "closed" => sock[c].served,
           NEW n, n = Vacant(sock)
    PROVE  /\ Kept(n) /\ Len(n.pending) = 0 /\ Taken(n) = 0
           /\ \A s \in Slot : n.slots[s].state # "handler"
  <1>1. setup.active \in Nat /\ EmptySlot \in SlotStates /\ Slot = 1..setup.active
    BY LimitFacts DEF Slot
  <1>2. PICK a : a = setup.active
    OBVIOUS
  <1>3. PICK q : q = [k \in Slot |-> a + 1 - k]
    OBVIOUS
  <1>4. /\ n.sock = sock /\ n.free = q /\ n.pending = <<>>
        /\ n.slots = [s \in Slot |-> EmptySlot]
        /\ n = [sock |-> n.sock, slots |-> n.slots, free |-> n.free, pending |-> n.pending]
    BY <1>2, <1>3 DEF Vacant
  <1>5. \A k \in 1..a : a + 1 - k \in 1..a /\ a + 1 - (a + 1 - k) = k
    BY <1>1, <1>2
  <1>6. q \in [1..a -> Slot] /\ a \in Nat /\ Slot = 1..a
    BY <1>1, <1>2, <1>3, <1>5
  <1>7. q \in Seq(Slot) /\ Len(q) = a
    BY <1>6
  <1>8. Distinct(q)
    BY <1>3, <1>6, <1>7 DEF Distinct
  <1>9. \A s \in Slot : \E i \in 1..Len(q) : q[i] = s
    <2> SUFFICES ASSUME NEW s \in Slot PROVE \E i \in 1..Len(q) : q[i] = s
      OBVIOUS
    <2>1. a + 1 - s \in 1..a /\ q[a + 1 - s] = s
      BY <1>3, <1>5, <1>6
    <2>2. QED
      BY <1>7, <2>1
  <1>10. \A s \in Slot : n.slots[s] = EmptySlot
    BY <1>4
  <1>11. n \in Nets
    <2>1. n.slots \in [Slot -> SlotStates] /\ n.pending \in Seq(Conn)
      BY <1>1, <1>4
    <2>2. QED
      BY <1>4, <1>7, <2>1 DEF Nets
  <1>12. Len(n.pending) = 0 /\ Distinct(n.pending)
    BY <1>4 DEF Distinct
  <1>13. Placed(n)
    BY <1>4, <1>8, <1>9, <1>10, <1>12, EmptyFacts DEF Placed
  <1>14. Sound(n)
    BY <1>4, <1>10, EmptyFacts DEF Sound
  <1>15. Taken(n) = 0
    BY <1>2, <1>4, <1>6, <1>7, <1>12 DEF Taken
  <1>16. QED
    BY <1>10, <1>11, <1>12, <1>13, <1>14, <1>15, EmptyFacts DEF Kept

\* Its sockets close; nobody waits for anything.
LEMMA EndsSafe ==
    ASSUME HttpInv, Ends, UNCHANGED <<setup, jobs, handler, wake, stop>>,
           due' \subseteq Request, faults' = faults \/ Fault
    PROVE  HttpInv'
  <1>1. setup \in Setups /\ Kept(net) /\ net \in Nets /\ OtherTypes /\ Slot' = Slot
    BY DEF HttpInv, ShapeInv, TypeOK, OtherTypes, Kept, Slot
  <1>2. PICK sock : sock = [c \in Conn |->
                  IF net.sock[c].at \in {"backlog", "pending", "slot", "rejecting"}
                  THEN Over(net.sock[c], "dropped") ELSE net.sock[c]]
    OBVIOUS
  <1>3. net' = Vacant(sock)
    BY <1>2 DEF Ends, Vacant
  <1>4. ASSUME NEW a \in Sockets
        PROVE  Over(a, "dropped") \in Sockets /\ Over(a, "dropped").at = "dropped"
    BY DEF Over, NewSocket, Sockets
  <1>5. ASSUME NEW c \in Conn
        PROVE  /\ sock[c] \in Sockets /\ sock[c].at \notin {"slot", "pending"}
               /\ sock[c].at = "closed" => sock[c].served
    <2>1. net.sock[c] \in Sockets
      BY <1>1, NetFacts
    <2>2. CASE net.sock[c].at \in {"backlog", "pending", "slot", "rejecting"}
      BY <1>2, <1>4, <2>1, <2>2
    <2>3. CASE net.sock[c].at \notin {"backlog", "pending", "slot", "rejecting"}
      BY <1>1, <1>2, <2>1, <2>3 DEF Kept, Sound
    <2>4. QED
      BY <2>2, <2>3
  <1>6. sock \in [Conn -> Sockets]
    <2>1. sock = [c \in Conn |-> sock[c]]
      BY <1>2
    <2>2. QED
      BY <1>5, <2>1
  <1>7. /\ Kept(net') /\ Len(net'.pending) = 0 /\ Taken(net') = 0
        /\ \A s \in Slot : net'.slots[s].state # "handler"
    BY <1>1, <1>3, <1>5, <1>6, VacantKept
  <1>8. /\ reactor' = [reactor EXCEPT !.at = "end", !.slot = 0, !.events = NoEvents]
        /\ rejecting' = NoRejection /\ retry' = FALSE /\ replies' = <<>> /\ early' = {}
    BY DEF Ends
  <1>9. /\ rejecting' \in [conn : Conn \cup {NoConn}, permit : BOOLEAN,
                           writing : BOOLEAN, late : BOOLEAN]
        /\ rejecting'.conn = NoConn /\ rejecting'.permit = FALSE
    BY <1>8 DEF NoRejection
  <1>10. /\ reactor' \in [at : ReactorLabels, slot : 0..setup.active,
                   events : [wake : BOOLEAN, listener : BOOLEAN,
                             conns : SUBSET (Slot \X Conn \X Nat),
                             rejection : Conn \cup {NoConn}]]
         /\ reactor'.at = "end"
    <2>1. 0 \in 0..setup.active
      BY <1>1, LimitFacts
    <2>2. NoEvents \in [wake : BOOLEAN, listener : BOOLEAN,
                        conns : SUBSET (Slot \X Conn \X Nat), rejection : Conn \cup {NoConn}]
      BY DEF NoEvents
    <2>3. QED
      BY <1>1, <1>8, <2>1, <2>2 DEF OtherTypes, ReactorLabels
  <1>11. DOMAIN replies' = {}
    BY <1>8
  <1>12. OtherTypes'
    BY <1>1, <1>8, <1>9, <1>10, <1>11, FaultCount DEF OtherTypes
  <1>13. LimitInv'
    <2>1. Taken(net)' = Taken(net')
      BY DEF Taken
    <2>2. 0 <= setup.pending /\ 0 + 0 <= setup.connections
      BY <1>1, LimitFacts
    <2>3. QED
      BY <1>7, <1>9, <2>1, <2>2 DEF LimitInv
  <1>14. \A s \in Slot : ~Waiting(s)'
    BY <1>7 DEF Waiting
  <1>15. ReplyInv'
    BY <1>1, <1>10, <1>11, <1>14 DEF ReplyInv
  <1>16. WakeInv'
    BY <1>1, <1>10, <1>14 DEF HttpInv, WakeInv
  <1>17. EarlyInv'
    BY <1>1, <1>8, <1>14 DEF EarlyInv
  <1>18. QED
    BY <1>7, <1>12, <1>13, <1>15, <1>16, <1>17, InvNext, KeptNext

-----------------------------------------------------------------------------
(* Rejected and accepted connections *)

Rejections == [conn : Conn \cup {NoConn}, permit : BOOLEAN, writing : BOOLEAN, late : BOOLEAN]

\* What the turn of the rejected connection can do.
Rejected(n, r, m, q) ==
    /\ Kept(m) /\ m.slots = n.slots /\ m.free = n.free /\ m.pending = n.pending
    /\ q \in Rejections /\ (q.permit => r.permit)
    /\ q.conn # NoConn => q.conn \in Conn /\ m.sock[q.conn].at = "rejecting"

LEMMA EndRejects ==
    ASSUME setup \in Setups, NEW n, Kept(n), NEW r \in Rejections, r.conn \in Conn,
           n.sock[r.conn].at = "rejecting",
           NEW x, x = EndRejection(n, r)
    PROVE  Rejected(n, r, x[1], x[2])
  <1>1. PICK c : c = r.conn
    OBVIOUS
  <1>2. n \in Nets /\ n.sock[c] \in Sockets /\ c \in Conn
    BY <1>1, NetFacts DEF Kept
  <1>3. PICK a : a = Over([n.sock[c] EXCEPT !.served = TRUE], "closed")
    OBVIOUS
  <1>4. a \in Sockets /\ a.at = "closed" /\ a.served = TRUE
    BY <1>2, <1>3 DEF Over, NewSocket, Sockets
  <1>5. x[1] = WithSocket(n, c, a) /\ x[2] = NoRejection
    BY <1>1, <1>2, <1>3 DEF EndRejection, WithSocket, Nets
  <1>6. SocketMay(n.sock[c], a)
    BY <1>1, <1>4 DEF SocketMay
  <1>7. Kept(x[1]) /\ x[1].slots = n.slots /\ x[1].free = n.free /\ x[1].pending = n.pending
    BY <1>2, <1>4, <1>5, <1>6, SocketKept
  <1>8. x[2] \in Rejections /\ x[2].conn = NoConn /\ x[2].permit = FALSE
    BY <1>5 DEF NoRejection, Rejections
  <1>9. QED
    BY <1>7, <1>8 DEF Rejected

LEMMA WriteRejects ==
    ASSUME setup \in Setups, NEW n, Kept(n), NEW r \in Rejections, r.conn \in Conn,
           n.sock[r.conn].at = "rejecting",
           NEW x \in WriteRejection(n, r)
    PROVE  Rejected(n, r, x[1], x[2])
  <1>1. CASE x = EndRejection(n, r)
    BY <1>1, EndRejects
  <1>2. CASE x = <<n, r>>
    BY <1>2 DEF Rejected
  <1>3. QED
    BY <1>1, <1>2 DEF WriteRejection

LEMMA PollRejects ==
    ASSUME setup \in Setups, NEW n, Kept(n), NEW r \in Rejections, r.conn \in Conn,
           n.sock[r.conn].at = "rejecting",
           NEW x \in PollRejection(n, r)
    PROVE  Rejected(n, r, x[1], x[2])
  <1>1. PICK c : c = r.conn
    OBVIOUS
  <1>2. PICK a : a = [n.sock[c] EXCEPT !.read = n.sock[c].sent]
    OBVIOUS
  <1>3. PICK read : read = WithSocket(n, c, a)
    OBVIOUS
  <1>4. PICK begun : begun = [r EXCEPT !.writing = TRUE, !.late = FALSE]
    OBVIOUS
  <1>5. n \in Nets /\ n.sock[c] \in Sockets /\ c \in Conn
    BY <1>1, NetFacts DEF Kept
  <1>6. /\ a \in Sockets /\ a.at = "rejecting" /\ a.served = n.sock[c].served
        /\ SocketMay(n.sock[c], a)
    <2>1. a \in Sockets /\ a.at = n.sock[c].at /\ a.served = n.sock[c].served
      BY <1>2, <1>5 DEF Sockets
    <2>2. QED
      BY <1>1, <2>1 DEF SocketMay
  <1>7. /\ Kept(read) /\ read.slots = n.slots /\ read.free = n.free
        /\ read.pending = n.pending /\ read.sock[c] = a
    BY <1>3, <1>5, <1>6, SocketKept
  <1>8. begun \in Rejections /\ begun.conn = c /\ begun.permit = r.permit
    BY <1>1, <1>4 DEF Rejections
  <1>9. \/ x = EndRejection(n, r) \/ x \in WriteRejection(n, r)
        \/ x \in WriteRejection(n, begun)
        \/ x \in WriteRejection(read, begun) \/ x = <<read, r>> \/ x = <<n, r>>
    <2>1. read = [n EXCEPT !.sock[c].read = n.sock[c].sent]
      BY <1>2, <1>3, <1>5 DEF WithSocket, Nets
    <2>2. QED
      BY <1>1, <1>4, <2>1 DEF PollRejection
  <1>10. CASE x = EndRejection(n, r) \/ x \in WriteRejection(n, r)
    BY <1>10, EndRejects, WriteRejects
  <1>11. CASE x \in WriteRejection(n, begun)
    <2>1. Rejected(n, begun, x[1], x[2])
      BY <1>1, <1>5, <1>8, <1>11, WriteRejects
    <2>2. QED
      BY <1>8, <2>1 DEF Rejected
  <1>12. CASE x \in WriteRejection(read, begun)
    <2>1. Rejected(read, begun, x[1], x[2])
      BY <1>5, <1>6, <1>7, <1>8, <1>12, WriteRejects
    <2>2. QED
      BY <1>7, <1>8, <2>1 DEF Rejected
  <1>13. CASE x = <<read, r>>
    <2>1. x[1] = read /\ x[2] = r
      BY <1>13
    <2>2. QED
      BY <1>1, <1>6, <1>7, <2>1 DEF Rejected
  <1>14. CASE x = <<n, r>>
    BY <1>14 DEF Rejected
  <1>15. QED
    BY <1>9, <1>10, <1>11, <1>12, <1>13, <1>14

\* An accepted connection joins the pending ones.
Joined(n, c) == [n EXCEPT !.sock[c].at = "pending", !.pending = Append(@, c)]

LEMMA JoinKept ==
    ASSUME setup \in Setups, NEW n, Kept(n), NEW c \in Conn, n.sock[c].at = "backlog",
           NEW m, m = Joined(n, c)
    PROVE  /\ Kept(m) /\ m.slots = n.slots
           /\ Len(m.pending) = Len(n.pending) + 1 /\ Taken(m) = Taken(n) + 1
           /\ \A d \in Conn : d # c => m.sock[d] = n.sock[d]
  <1>1. n \in Nets /\ n.sock[c] \in Sockets /\ n.pending \in Seq(Conn)
    BY NetFacts DEF Kept
  <1>2. PICK a : a = [n.sock[c] EXCEPT !.at = "pending"]
    OBVIOUS
  <1>3. PICK q : q = Append(n.pending, c)
    OBVIOUS
  <1>4. a \in Sockets /\ a.at = "pending" /\ a.served = n.sock[c].served
    BY <1>1, <1>2 DEF Sockets
  <1>5. \A i \in 1..Len(n.pending) : n.pending[i] # c /\ n.pending[i] \in Conn
    BY <1>1, NetFacts DEF Kept, Placed
  <1>6. /\ q \in Seq(Conn) /\ Len(q) = Len(n.pending) + 1 /\ Len(n.pending) \in Nat
        /\ \A d : (\E i \in 1..Len(q) : q[i] = d)
                     <=> d = c \/ \E i \in 1..Len(n.pending) : n.pending[i] = d
        /\ Distinct(q)
    BY <1>1, <1>3, <1>5, PushFacts DEF Kept, Placed
  <1>7. m = [n EXCEPT !.sock[c] = a, !.pending = q]
    BY <1>1, <1>2, <1>3 DEF Nets, Joined
  <1>8. /\ m \in Nets /\ m.slots = n.slots /\ m.free = n.free /\ m.pending = q
        /\ m.sock[c] = a /\ \A d \in Conn : d # c => m.sock[d] = n.sock[d]
    <2>1. /\ m.slots = n.slots /\ m.free = n.free /\ m.pending = q
          /\ m.sock = [n.sock EXCEPT ![c] = a]
          /\ m = [sock |-> m.sock, slots |-> m.slots, free |-> m.free, pending |-> m.pending]
      BY <1>1, <1>7 DEF Nets
    <2>2. m.sock \in [Conn -> Sockets] /\ n.sock \in [Conn -> Sockets]
      BY <1>1, <1>4, <2>1, NetFacts
    <2>3. n.slots \in [Slot -> SlotStates] /\ n.free \in Seq(Slot)
      BY <1>1, NetFacts
    <2>4. m \in Nets
      BY <1>6, <2>1, <2>2, <2>3 DEF Nets
    <2>5. QED
      BY <2>1, <2>2, <2>4
  <1>9. \A s \in Slot : n.slots[s].conn # NoConn => n.slots[s].conn \in Conn /\ n.slots[s].conn # c
    BY <1>1, NetFacts DEF SlotStates, Kept, Placed
  <1>10. Placed(m)
    <2>1. /\ Distinct(n.free) /\ Distinct(m.pending)
          /\ \A s \in Slot :
               n.slots[s].conn = NoConn <=> \E i \in 1..Len(n.free) : n.free[i] = s
          /\ \A s, t \in Slot :
               n.slots[s].conn = n.slots[t].conn /\ n.slots[s].conn # NoConn => s = t
      BY <1>6, <1>8 DEF Kept, Placed
    <2>2. \A s \in Slot : m.slots[s].conn # NoConn => m.sock[m.slots[s].conn].at = "slot"
      BY <1>8, <1>9 DEF Kept, Placed
    <2>3. \A d \in Conn : m.sock[d].at = "slot" => \E s \in Slot : m.slots[s].conn = d
      BY <1>4, <1>8 DEF Kept, Placed
    <2>4. ASSUME NEW i \in 1..Len(m.pending) PROVE m.sock[m.pending[i]].at = "pending"
      <3>1. \/ m.pending[i] = c
            \/ \E k \in 1..Len(n.pending) : n.pending[k] = m.pending[i]
        BY <1>6, <1>8
      <3>2. QED
        BY <1>4, <1>5, <1>8, <3>1 DEF Kept, Placed
    <2>5. ASSUME NEW d \in Conn, m.sock[d].at = "pending"
          PROVE  \E i \in 1..Len(m.pending) : m.pending[i] = d
      <3>1. d = c \/ \E i \in 1..Len(n.pending) : n.pending[i] = d
        BY <1>8, <2>5 DEF Kept, Placed
      <3>2. QED
        BY <1>6, <1>8, <3>1
    <2>6. QED
      BY <1>8, <2>1, <2>2, <2>3, <2>4, <2>5 DEF Placed
  <1>11. Sound(m)
    <2>1. ASSUME NEW s \in Slot, n.slots[s].reused
          PROVE  m.sock[n.slots[s].conn].served
      <3>1. n.slots[s].conn # NoConn
        BY <2>1, EmptyFacts DEF Kept, Sound
      <3>2. QED
        BY <1>8, <1>9, <2>1, <3>1 DEF Kept, Sound
    <2>2. \A d \in Conn : m.sock[d].at = "closed" => m.sock[d].served
      BY <1>4, <1>8 DEF Kept, Sound
    <2>3. QED
      BY <1>8, <2>1, <2>2 DEF Kept, Sound
  <1>12. Taken(m) = Taken(n) + 1
    <2>1. setup.active \in Nat /\ Len(n.free) \in Nat
      BY <1>1, LimitFacts, NetFacts
    <2>2. QED
      BY <1>6, <1>8, <2>1, SMTT(30) DEF Taken
  <1>13. QED
    BY <1>6, <1>8, <1>10, <1>11, <1>12 DEF Kept

-----------------------------------------------------------------------------
(* The I/O thread *)

EventSets == [wake : BOOLEAN, listener : BOOLEAN,
              conns : SUBSET (Slot \X Conn \X Nat), rejection : Conn \cup {NoConn}]

Reactors == [at : ReactorLabels, slot : 0..setup.active, events : EventSets]

\* Limits after work that makes room only.
LEMMA LimitFollows ==
    ASSUME HttpInv, setup' = setup, rejecting' = rejecting, Follows(net, net')
    PROVE  Kept(net') /\ Kept(net)' /\ Slot' = Slot /\ LimitInv'
  <1>1. /\ setup \in Setups /\ Kept(net) /\ net \in Nets /\ rejecting \in Rejections /\ LimitInv
    BY DEF HttpInv, ShapeInv, TypeOK, Kept, Rejections
  <1>2. Kept(net') /\ net' \in Nets
    BY DEF Follows, Kept
  <1>3. Kept(net)' /\ Slot' = Slot
    BY <1>2, KeptNext
  <1>4. /\ Len(net.pending) \in Nat /\ Len(net'.pending) \in Nat /\ Taken(net) \in Int
        /\ setup.active \in Nat /\ setup.pending \in Nat /\ setup.connections \in Nat
        /\ Len(net'.free) \in Nat
    <2>1. Len(net'.pending) \in Nat /\ Len(net'.free) \in Nat
      BY <1>2, NetFacts
    <2>2. QED
      BY <1>1, <2>1, PermitCount, LimitFacts
  <1>5. PICK k \in {0, 1} : k = IF rejecting.permit THEN 1 ELSE 0
    OBVIOUS
  <1>6. PICK x, y : x = Taken(net) /\ y = Taken(net')
    OBVIOUS
  <1>7. y \in Int /\ x \in Int
    BY <1>4, <1>6 DEF Taken
  <1>8. x + k <= setup.connections /\ y <= x
    BY <1>1, <1>5, <1>6 DEF LimitInv, Follows
  <1>9. y + k <= setup.connections
    BY <1>4, <1>5, <1>7, <1>8
  <1>10. Taken(net)' = y
    BY <1>6 DEF Taken
  <1>11. Len(net'.pending) <= setup.pending
    <2>1. Len(net'.pending) <= Len(net.pending) /\ Len(net.pending) <= setup.pending
      BY <1>1 DEF Follows, LimitInv
    <2>2. QED
      BY <1>4, <2>1
  <1>12. rejecting.conn # NoConn => net'.sock[rejecting.conn].at = "rejecting"
    BY <1>1 DEF Follows, LimitInv, Rejections
  <1>13. LimitInv'
    BY <1>5, <1>9, <1>10, <1>11, <1>12 DEF LimitInv
  <1>14. QED
    BY <1>2, <1>3, <1>13

\* The rejected connection has its turn after such work.
LEMMA LimitRejecting ==
    ASSUME HttpInv, setup' = setup, NEW n, Follows(net, n), PollRejecting(n)
    PROVE  /\ Kept(net') /\ Kept(net)' /\ Slot' = Slot /\ LimitInv'
           /\ rejecting' \in Rejections /\ net'.slots = n.slots
  <1>1. /\ setup \in Setups /\ Kept(net) /\ net \in Nets /\ rejecting \in Rejections /\ LimitInv
    BY DEF HttpInv, ShapeInv, TypeOK, Kept, Rejections
  <1>2. CASE rejecting.conn = NoConn
    <2>1. net' = n /\ rejecting' = rejecting
      BY <1>2 DEF PollRejecting
    <2>2. QED
      BY <1>1, <2>1, LimitFollows
  <1>3. CASE rejecting.conn # NoConn
    <2>1. PICK z \in PollRejection(n, rejecting) : net' = z[1] /\ rejecting' = z[2]
      BY <1>3 DEF PollRejecting
    <2>2. /\ rejecting.conn \in Conn /\ n.sock[rejecting.conn].at = "rejecting" /\ Kept(n)
          /\ n \in Nets
      BY <1>1, <1>3 DEF Follows, LimitInv, Rejections, Kept
    <2>3. Rejected(n, rejecting, net', rejecting')
      BY <1>1, <2>1, <2>2, PollRejects
    <2>4. Kept(net)' /\ Slot' = Slot
      BY <2>3, KeptNext DEF Rejected
    <2>5. /\ Len(net.pending) \in Nat /\ Len(n.pending) \in Nat /\ Len(n.free) \in Nat
          /\ Len(net.free) \in Nat
          /\ setup.active \in Nat /\ setup.pending \in Nat /\ setup.connections \in Nat
      <3>1. Len(n.pending) \in Nat /\ Len(n.free) \in Nat
        BY <2>2, NetFacts
      <3>2. QED
        BY <1>1, <3>1, NetFacts, LimitFacts
    <2>6. PICK j \in {0, 1}, k \in {0, 1} : /\ j = IF rejecting.permit THEN 1 ELSE 0
                                            /\ k = IF rejecting'.permit THEN 1 ELSE 0
      OBVIOUS
    <2>7. k <= j
      BY <2>3, <2>6 DEF Rejected
    <2>8. PICK x, y : x = Taken(net) /\ y = Taken(n)
      OBVIOUS
    <2>9. x \in Int /\ y \in Int
      BY <2>5, <2>8 DEF Taken
    <2>10. x + j <= setup.connections /\ y <= x
      BY <1>1, <2>6, <2>8 DEF LimitInv, Follows
    <2>11. y + k <= setup.connections
      BY <2>5, <2>6, <2>7, <2>9, <2>10
    <2>12. Taken(net)' = y
      BY <2>3, <2>8 DEF Taken, Rejected
    <2>13. Len(net'.pending) <= setup.pending
      <3>1. Len(n.pending) <= Len(net.pending) /\ Len(net.pending) <= setup.pending
        BY <1>1 DEF Follows, LimitInv
      <3>2. QED
        BY <2>3, <2>5, <3>1 DEF Rejected
    <2>14. LimitInv'
      BY <2>3, <2>6, <2>11, <2>12, <2>13 DEF LimitInv, Rejected
    <2>15. QED
      BY <2>3, <2>4, <2>14 DEF Rejected
  <1>4. QED
    BY <1>2, <1>3

\* A step to the next phase of the round.
LEMMA PhaseNext ==
    ASSUME setup \in Setups, reactor \in Reactors, NextPhase,
           reactor.at \in {"top", "observe", "expire", "dispatch"}
    PROVE  /\ reactor' \in Reactors /\ reactor'.slot = 0
           /\ reactor.at = "top" => reactor'.at = "observe"
           /\ reactor.at = "observe" => reactor'.at = "expire"
           /\ reactor.at = "expire" => reactor'.at = "dispatch"
           /\ reactor.at = "dispatch" => reactor'.at = "poll"
  <1>1. 0 \in 0..setup.active
    BY LimitFacts
  <1>2. PICK p : p = After(reactor.at)
    OBVIOUS
  <1>3. /\ reactor.at = "top" => p = "observe"
        /\ reactor.at = "observe" => p = "expire"
        /\ reactor.at = "expire" => p = "dispatch"
        /\ reactor.at = "dispatch" => p = "poll"
    BY <1>2 DEF After
  <1>4. reactor' = [reactor EXCEPT !.at = p, !.slot = 0]
    BY <1>2 DEF NextPhase
  <1>5. QED
    BY <1>1, <1>3, <1>4 DEF Reactors, ReactorLabels

\* The invariant as the I/O thread finds it.
LEMMA RoundFacts ==
    ASSUME HttpInv
    PROVE  /\ setup \in Setups /\ Kept(net) /\ net \in Nets /\ OtherTypes
           /\ reactor \in Reactors /\ rejecting \in Rejections
           /\ reactor.events.conns \in SUBSET (Slot \X Conn \X Nat)
           /\ Slot \subseteq Nat \ {0} /\ NoConn \notin Conn
  <1>1. setup \in Setups /\ Kept(net) /\ net \in Nets /\ OtherTypes
    BY DEF HttpInv, ShapeInv, TypeOK, OtherTypes, Kept
  <1>2. reactor \in Reactors /\ rejecting \in Rejections
    BY <1>1 DEF OtherTypes, Reactors, EventSets, Rejections
  <1>3. reactor.events.conns \in SUBSET (Slot \X Conn \X Nat)
    BY <1>2 DEF Reactors, EventSets
  <1>4. QED
    BY <1>1, <1>2, <1>3, LimitFacts

\* Types after a step of the I/O thread.
LEMMA RoundTypes ==
    ASSUME OtherTypes, setup' = setup, UNCHANGED <<handler, stop>>,
           rejecting' \in Rejections, retry' \in BOOLEAN, reactor' \in Reactors,
           jobs' \in Seq(Request), due' \subseteq Request, early' \subseteq Request,
           DOMAIN replies' \subseteq Request, wake' \in [byte : BOOLEAN, shut : BOOLEAN],
           faults' \in 0..MaxFaults
    PROVE  OtherTypes'
  <1>1. Slot' = Slot
    BY DEF Slot
  <1>2. QED
    BY <1>1 DEF OtherTypes, Rejections, Reactors, EventSets

\* A request waits in a slot with a connection, in no other.
LEMMA WaitingFacts ==
    ASSUME setup \in Setups, Kept(net), NEW s \in Slot, Waiting(s)
    PROVE  /\ net.slots[s].conn # NoConn /\ Current(net, s) \in Request
           /\ \A t \in Slot : net.slots[t].conn = net.slots[s].conn => t = s
           /\ \A t \in Slot : Current(net, t) = Current(net, s) => t = s
  <1>1. net.slots[s].conn # NoConn
    BY EmptyFacts DEF Kept, Sound, Waiting
  <1>2. net.slots[s] \in SlotStates /\ net.slots[s].conn \in Conn
    BY <1>1, HeldFacts
  <1>3. \A t \in Slot : net.slots[t].conn = net.slots[s].conn => t = s
    BY <1>1 DEF Kept, Placed
  <1>4. QED
    BY <1>1, <1>2, <1>3 DEF Current, Request, SlotStates

LEMMA TopSafe ==
    ASSUME HttpInv, Top
    PROVE  HttpInv'
  <1>1. /\ setup \in Setups /\ Kept(net) /\ OtherTypes /\ reactor \in Reactors
        /\ rejecting \in Rejections /\ Slot \subseteq Nat \ {0}
    BY RoundFacts
  <1>2. due' \subseteq Request
    BY <1>1 DEF Top, OtherTypes
  <1>3. CASE stop
    BY <1>2, <1>3, EndsSafe DEF Top
  <1>4. CASE ~stop
    <2>1. /\ reactor.at = "top" /\ NextPhase /\ early' = DOMAIN replies
          /\ UNCHANGED <<setup, net, rejecting, retry, replies, jobs, handler, wake, stop, faults>>
      BY <1>4 DEF Top
    <2>2. reactor' \in Reactors /\ reactor'.slot = 0 /\ reactor'.at = "observe"
      BY <1>1, <2>1, PhaseNext
    <2>3. OtherTypes'
      BY <1>1, <1>2, <2>1, <2>2, RoundTypes DEF OtherTypes
    <2>4. Kept(net)' /\ LimitInv' /\ Slot' = Slot
      BY <2>1, NetSame
    <2>5. \A s \in Slot : /\ Waiting(s)' <=> Waiting(s)
                          /\ Current(net, s)' = Current(net, s) /\ s > 0
      BY <1>1, <2>1 DEF Waiting, Current
    <2>6. ReplyInv'
      BY <2>1, <2>2, <2>4, <2>5 DEF HttpInv, ReplyInv
    <2>7. WakeInv'
      BY <1>4, <2>1, <2>2, <2>4, <2>5 DEF HttpInv, WakeInv
    <2>8. EarlyInv'
      BY <2>1, <2>2, <2>4, <2>5 DEF EarlyInv
    <2>9. QED
      BY <2>1, <2>3, <2>4, <2>6, <2>7, <2>8, InvNext
  <1>5. QED
    BY <1>3, <1>4

\* observe_completions.
LEMMA ObserveSafe ==
    ASSUME HttpInv, Observe
    PROVE  /\ HttpInv'
           /\ \A s \in Slot : Waiting(s) /\ net'.slots[s].state = "write" =>
                net'.slots[s].answer # "timeout"
  <1>1. /\ setup \in Setups /\ Kept(net) /\ OtherTypes /\ reactor \in Reactors
        /\ rejecting \in Rejections /\ Slot \subseteq Nat \ {0}
    BY RoundFacts
  <1>2. /\ UNCHANGED <<setup, rejecting, retry, jobs, handler, due, wake, stop, early, faults>>
        /\ reactor.at = "observe"
    BY DEF Observe
  <1>3. CASE /\ \A s \in Slot : s > reactor.slot => ~Waiting(s)
             /\ NextPhase /\ net' = net /\ replies' = replies
    <2>1. reactor' \in Reactors /\ reactor'.at = "expire"
      BY <1>1, <1>2, <1>3, PhaseNext
    <2>2. OtherTypes'
      BY <1>1, <1>2, <1>3, <2>1, RoundTypes DEF OtherTypes
    <2>3. Kept(net)' /\ LimitInv' /\ Slot' = Slot
      BY <1>2, <1>3, NetSame
    <2>4. \A s \in Slot : /\ Waiting(s)' <=> Waiting(s)
                          /\ Current(net, s)' = Current(net, s)
      BY <1>3 DEF Waiting, Current
    <2>5. ReplyInv'
      BY <1>3, <2>1, <2>3, <2>4 DEF HttpInv, ReplyInv
    <2>6. WakeInv'
      BY <1>2, <1>3, <2>1, <2>3, <2>4 DEF HttpInv, WakeInv
    <2>7. EarlyInv'
      BY <1>2, <1>3, <2>1, <2>3, <2>4 DEF HttpInv, EarlyInv
    <2>8. HttpInv'
      BY <1>2, <2>2, <2>3, <2>5, <2>6, <2>7, InvNext
    <2>9. QED
      BY <1>3, <2>8 DEF Waiting
  <1>4. ASSUME NEW s \in Slot, s > reactor.slot, Waiting(s),
               \A t \in Slot : t > reactor.slot /\ Waiting(t) => s <= t,
               reactor' = [reactor EXCEPT !.slot = s],
               \/ /\ Current(net, s) \in DOMAIN replies
                  /\ \E keep \in BOOLEAN : net' = StartWrite(net, s, "response", keep)
                  /\ replies' = Forget({Current(net, s)})
               \/ Current(net, s) \notin DOMAIN replies /\ net' = net /\ replies' = replies
        PROVE  /\ HttpInv'
               /\ \A t \in Slot : Waiting(t) /\ net'.slots[t].state = "write" =>
                    net'.slots[t].answer # "timeout"
    <2>1. PICK r : r = Current(net, s)
      OBVIOUS
    <2>2. /\ net.slots[s].conn # NoConn
          /\ \A t \in Slot : Current(net, t) = r => t = s
      BY <1>1, <1>4, <2>1, WaitingFacts
    <2>3. /\ Follows(net, net')
          /\ \A t \in Slot : t # s => net'.slots[t] = net.slots[t]
          /\ \/ /\ r \in DOMAIN replies /\ DOMAIN replies' = DOMAIN replies \ {r}
                /\ net'.slots[s].state = "write" /\ net'.slots[s].answer = "response"
             \/ r \notin DOMAIN replies /\ net' = net /\ replies' = replies
      <3>1. CASE r \notin DOMAIN replies /\ net' = net /\ replies' = replies
        BY <1>1, <3>1, FollowsSelf
      <3>2. ASSUME NEW keep \in BOOLEAN, net' = StartWrite(net, s, "response", keep),
                   r \in DOMAIN replies, replies' = Forget({r})
            PROVE  /\ Follows(net, net')
                   /\ \A t \in Slot : t # s => net'.slots[t] = net.slots[t]
                   /\ DOMAIN replies' = DOMAIN replies \ {r}
                   /\ net'.slots[s].state = "write" /\ net'.slots[s].answer = "response"
        <4>1. "response" \in Answers
          BY DEF Answers
        <4>2. /\ Revised(net, net', s)
              /\ net'.slots[s].state = "write" /\ net'.slots[s].answer = "response"
          BY <1>1, <2>2, <3>2, <4>1, StartWriteRevises
        <4>3. QED
          BY <1>1, <2>2, <3>2, <4>2, PolledFollows DEF Polled, Forget
      <3>3. QED
        BY <1>4, <2>1, <3>1, <3>2
    <2>4. reactor' \in Reactors /\ reactor'.at = "observe" /\ reactor'.slot = s
      <3>1. s \in 0..setup.active
        BY <1>1, LimitFacts DEF Slot
      <3>2. QED
        BY <1>1, <1>2, <1>4, <3>1 DEF Reactors
    <2>5. OtherTypes'
      <3>1. DOMAIN replies' \subseteq Request
        BY <1>1, <2>3 DEF OtherTypes
      <3>2. QED
        BY <1>1, <1>2, <2>4, <3>1, RoundTypes DEF OtherTypes
    <2>6. Kept(net)' /\ LimitInv' /\ Slot' = Slot
      BY <1>2, <2>3, LimitFollows
    \* Whose response remains, or comes later in this round.
    <2>7. ASSUME NEW t \in Slot, Waiting(t)', Current(net, t)' \in DOMAIN replies
          PROVE  Waiting(t) /\ Current(net, t)' = Current(net, t) /\ t # s
      <3>1. net'.slots[t] = net.slots[t] /\ Waiting(t)
        BY <2>3, <2>7 DEF Follows, Waiting
      <3>2. Current(net, t)' = Current(net, t)
        BY <3>1 DEF Current
      <3>3. t # s
        BY <2>1, <2>3, <2>7, <3>2 DEF Waiting
      <3>4. QED
        BY <3>1, <3>2, <3>3
    <2>8. \A t \in Slot : t > reactor.slot /\ Waiting(t) /\ t # s => t > s
      BY <1>1, <1>4
    <2>9. DOMAIN replies' \subseteq DOMAIN replies
      BY <2>3
    <2>10. ReplyInv'
      <3>1. ASSUME NEW q \in DOMAIN replies'
            PROVE  \E t \in Slot : Waiting(t)' /\ Current(net, t)' = q
        <4>1. PICK t \in Slot : Waiting(t) /\ Current(net, t) = q
          BY <2>9, <3>1 DEF HttpInv, ReplyInv
        <4>2. net'.slots[t] = net.slots[t]
          BY <2>1, <2>3, <3>1, <4>1
        <4>3. QED
          BY <4>1, <4>2 DEF Waiting, Current
      <3>2. QED
        BY <2>4, <2>6, <3>1 DEF ReplyInv
    <2>11. WakeInv'
      <3>1. ASSUME NEW t \in Slot, Waiting(t)', Current(net, t)' \in DOMAIN replies'
            PROVE  wake'.byte \/ handler'.at \in Waking \/ t > s
        <4>1. Waiting(t) /\ Current(net, t) \in DOMAIN replies /\ t # s
          BY <2>7, <2>9, <3>1
        <4>2. wake.byte \/ handler.at \in Waking \/ t > reactor.slot
          BY <1>2, <4>1 DEF HttpInv, WakeInv
        <4>3. QED
          BY <1>2, <2>8, <4>1, <4>2
      <3>2. QED
        BY <1>2, <2>4, <2>6, <3>1 DEF HttpInv, WakeInv
    <2>12. EarlyInv'
      <3>1. ASSUME NEW t \in Slot, Waiting(t)', Current(net, t)' \in early'
            PROVE  t > s /\ Current(net, t)' \in DOMAIN replies'
        <4>1. Waiting(t) /\ Current(net, t)' = Current(net, t)
          BY <2>3, <3>1 DEF Follows, Waiting, Current
        <4>2. t > reactor.slot /\ Current(net, t) \in DOMAIN replies
          BY <1>2, <3>1, <4>1 DEF HttpInv, EarlyInv
        <4>3. t # s
          BY <2>7, <3>1, <4>1, <4>2
        <4>4. Current(net, t) # r
          BY <2>2, <4>3
        <4>5. QED
          BY <2>3, <2>8, <4>1, <4>2, <4>3, <4>4
      <3>2. QED
        BY <2>4, <2>6, <3>1 DEF EarlyInv
    <2>13. HttpInv'
      BY <1>2, <2>5, <2>6, <2>10, <2>11, <2>12, InvNext
    <2>14. QED
      BY <2>3, <2>13 DEF Waiting
  <1>5. QED
    <2> DEFINE waiting == {s \in Ahead : net.slots[s].state = "handler"}
    <2>1. \A s : s \in waiting <=> s \in Slot /\ s > reactor.slot /\ Waiting(s)
      BY DEF Ahead, Waiting
    <2>2. \/ waiting = {} /\ NextPhase /\ net' = net /\ replies' = replies
          \/ \E s \in waiting :
               /\ Visit(s, waiting)
               /\ reactor' = [reactor EXCEPT !.slot = s]
               /\ LET r == Current(net, s) IN
                  IF r \in DOMAIN replies
                  THEN /\ \E answer \in {replies[r], "error"} :
                            net' = StartWrite(net, s, "response",
                                     net.slots[s].keep /\ AllowReuse(net) /\ answer = "ok")
                       /\ replies' = Forget({r})
                  ELSE net' = net /\ replies' = replies
      BY DEF Observe
    <2> HIDE DEF waiting
    <2>3. CASE waiting = {} /\ NextPhase /\ net' = net /\ replies' = replies
      BY <1>3, <2>1, <2>3
    <2>4. CASE \E s \in waiting :
               /\ Visit(s, waiting)
               /\ reactor' = [reactor EXCEPT !.slot = s]
               /\ LET r == Current(net, s) IN
                  IF r \in DOMAIN replies
                  THEN /\ \E answer \in {replies[r], "error"} :
                            net' = StartWrite(net, s, "response",
                                     net.slots[s].keep /\ AllowReuse(net) /\ answer = "ok")
                       /\ replies' = Forget({r})
                  ELSE net' = net /\ replies' = replies
      <3>1. PICK s \in waiting :
               /\ Visit(s, waiting)
               /\ reactor' = [reactor EXCEPT !.slot = s]
               /\ LET r == Current(net, s) IN
                  IF r \in DOMAIN replies
                  THEN /\ \E answer \in {replies[r], "error"} :
                            net' = StartWrite(net, s, "response",
                                     net.slots[s].keep /\ AllowReuse(net) /\ answer = "ok")
                       /\ replies' = Forget({r})
                  ELSE net' = net /\ replies' = replies
        BY <2>4
      <3>2. s \in Slot /\ s > reactor.slot /\ Waiting(s)
        BY <2>1
      <3>3. \A t \in Slot : t > reactor.slot /\ Waiting(t) => s <= t
        BY <2>1, <3>1 DEF Visit
      <3>4. \/ /\ Current(net, s) \in DOMAIN replies
               /\ \E keep \in BOOLEAN : net' = StartWrite(net, s, "response", keep)
               /\ replies' = Forget({Current(net, s)})
            \/ Current(net, s) \notin DOMAIN replies /\ net' = net /\ replies' = replies
        <4>1. CASE Current(net, s) \notin DOMAIN replies
          BY <3>1, <4>1
        <4>2. CASE Current(net, s) \in DOMAIN replies
          <5>1. PICK answer : /\ replies' = Forget({Current(net, s)})
                              /\ net' = StartWrite(net, s, "response",
                                     net.slots[s].keep /\ AllowReuse(net) /\ answer = "ok")
            BY <3>1, <4>2
          <5>2. PICK keep : keep = (net.slots[s].keep /\ AllowReuse(net) /\ answer = "ok")
            OBVIOUS
          <5>3. keep \in BOOLEAN
            BY <5>2
          <5>4. net' = StartWrite(net, s, "response", keep)
            BY <5>1, <5>2
          <5>5. QED
            BY <4>2, <5>1, <5>3, <5>4
        <4>3. QED
          BY <4>1, <4>2
      <3>5. QED
        BY <1>4, <3>1, <3>2, <3>3, <3>4
    <2>5. QED
      BY <2>2, <2>3, <2>4

\* expire_connections, promote_pending and advance_buffered_headers.
LEMMA ExpireSafe ==
    ASSUME HttpInv, ExpireConnections
    PROVE  HttpInv'
  <1>1. /\ setup \in Setups /\ Kept(net) /\ OtherTypes /\ reactor \in Reactors
        /\ rejecting \in Rejections
        /\ reactor.events.conns \in SUBSET (Slot \X Conn \X Nat)
    BY RoundFacts
  <1>2. /\ UNCHANGED <<setup, rejecting, retry, jobs, handler, due, wake, stop, faults>>
        /\ reactor.at = "expire" /\ early' = {} /\ NextPhase
    BY DEF ExpireConnections
  <1>3. PICK lost : /\ lost = {Current(net, s) : s \in {t \in Slot :
                          net.slots[t].state = "handler" /\ Late(net, t)}}
                    /\ replies' = Forget(lost)
    BY DEF ExpireConnections
  <1>4. DOMAIN replies' = DOMAIN replies \ lost
    BY <1>3 DEF Forget
  <1>5. PICK n \in Pass("expire", net) : net' \in Pass("headers", Promote(n))
    BY DEF ExpireConnections
  <1>6. "expire" \in Passes /\ "headers" \in Passes
    BY DEF Passes
  <1>7. Follows(net, n) /\ \A s \in Slot : Spared("expire", net, s) => n.slots[s] = net.slots[s]
    BY <1>1, <1>5, <1>6, PassFollows
  <1>8. PICK p : p = Promote(n)
    OBVIOUS
  <1>9. Kept(n)
    BY <1>7 DEF Follows
  <1>10. Follows(n, p) /\ \A s \in Slot : n.slots[s].state = "handler" => p.slots[s] = n.slots[s]
    BY <1>1, <1>8, <1>9, PromoteFollows
  <1>11. Kept(p) /\ net' \in Pass("headers", p)
    BY <1>5, <1>8, <1>10 DEF Follows
  <1>12. PICK m : m = net'
    OBVIOUS
  <1>13. Follows(p, m) /\ \A s \in Slot : Spared("headers", p, s) => m.slots[s] = p.slots[s]
    BY <1>1, <1>6, <1>11, <1>12, PassFollows
  <1>14. Follows(net, m)
    <2>1. Follows(net, p)
      BY <1>1, <1>7, <1>10, FollowsTrans
    <2>2. QED
      BY <1>1, <1>13, <2>1, FollowsTrans
  <1>15. Kept(net)' /\ Slot' = Slot /\ LimitInv'
    BY <1>2, <1>12, <1>14, LimitFollows
  <1>16. ASSUME NEW s \in Slot, Waiting(s), ~Late(net, s)
         PROVE  net'.slots[s] = net.slots[s]
    <2>1. Spared("expire", net, s)
      BY <1>16 DEF Spared, Waiting
    <2>2. n.slots[s] = net.slots[s] /\ n.slots[s].state = "handler"
      BY <1>7, <1>16, <2>1 DEF Waiting
    <2>3. p.slots[s] = net.slots[s] /\ p.slots[s].state = "handler"
      BY <1>10, <2>2
    <2>4. Spared("headers", p, s)
      BY <2>3 DEF Spared
    <2>5. QED
      BY <1>12, <1>13, <2>3, <2>4
  <1>17. \A s \in Slot : Waiting(s)' => Waiting(s) /\ Current(net, s)' = Current(net, s)
    BY <1>12, <1>14 DEF Follows, Waiting, Current
  <1>18. reactor' \in Reactors /\ reactor'.at = "dispatch"
    BY <1>1, <1>2, PhaseNext
  <1>19. OtherTypes'
    <2>1. DOMAIN replies' \subseteq Request /\ early' \subseteq Request
      BY <1>1, <1>2, <1>4 DEF OtherTypes
    <2>2. QED
      BY <1>1, <1>2, <1>18, <2>1, RoundTypes DEF OtherTypes
  <1>20. ReplyInv'
    <2>1. ASSUME NEW q \in DOMAIN replies'
          PROVE  \E t \in Slot : Waiting(t)' /\ Current(net, t)' = q
      <3>1. PICK t \in Slot : Waiting(t) /\ Current(net, t) = q
        BY <1>4, <2>1 DEF HttpInv, ReplyInv
      <3>2. ~Late(net, t)
        BY <1>3, <1>4, <2>1, <3>1 DEF Waiting
      <3>3. net'.slots[t] = net.slots[t]
        BY <1>16, <3>1, <3>2
      <3>4. QED
        BY <3>1, <3>3 DEF Waiting, Current
    <2>2. QED
      BY <1>15, <1>18, <2>1 DEF ReplyInv
  <1>21. WakeInv'
    BY <1>2, <1>4, <1>15, <1>17, <1>18 DEF HttpInv, WakeInv
  <1>22. EarlyInv'
    BY <1>2, <1>15 DEF EarlyInv
  <1>23. QED
    BY <1>2, <1>15, <1>19, <1>20, <1>21, <1>22, InvNext

\* A request is handed to the interpreter's loop.
Numbered(n, s, done) == [n EXCEPT !.slots[s].job = done]
Handed(n, s, keep) == [n EXCEPT !.slots[s].state = "handler", !.slots[s].keep = keep]

LEMMA HandOver ==
    ASSUME setup \in Setups, NEW n, Kept(n), NEW s \in Slot, n.slots[s].state = "request",
           NEW done \in Nat, NEW keep \in BOOLEAN, NEW k, NEW m,
           k = Numbered(n, s, done), m = Handed(k, s, keep)
    PROVE  /\ n.slots[s].conn # NoConn /\ n.slots[s].conn \in Conn
           /\ Revised(n, k, s) /\ Kept(k) /\ k.slots[s].conn = n.slots[s].conn
           /\ k.slots[s].job = done
           /\ Stays(n, m, s) /\ Kept(m) /\ m.slots[s].state = "handler"
           /\ m.slots[s].conn = n.slots[s].conn /\ m.slots[s].job = done
  <1>1. n.slots[s].conn # NoConn
    BY EmptyFacts DEF Kept, Sound
  <1>2. PICK a : a = n.sock[n.slots[s].conn]
    OBVIOUS
  <1>3. /\ n \in Nets /\ n.slots[s] \in SlotStates /\ n.slots[s].conn \in Conn /\ a \in Sockets
        /\ a.at = "slot" /\ (n.slots[s].reused => a.served)
        /\ n.slots[s].unscanned => n.slots[s].state = "header"
    BY <1>1, <1>2, HeldFacts
  <1>4. PICK b : b = [n.slots[s] EXCEPT !.job = done]
    OBVIOUS
  <1>5. /\ b \in SlotStates /\ b.state = "request" /\ b.conn = n.slots[s].conn /\ b.job = done
        /\ b.unscanned = n.slots[s].unscanned /\ b.reused = n.slots[s].reused
    BY <1>3, <1>4 DEF SlotStates
  <1>6. (b.reused => a.served) /\ (b.unscanned => b.state = "header")
    BY <1>3, <1>5
  <1>7. k = Edit(n, s, a, b, n.free)
    BY <1>2, <1>3, <1>4 DEF Nets, Edit, Numbered
  <1>8. Stays(n, k, s) /\ k.slots[s] = b
    <2>1. b.state # "none" /\ b.conn = n.slots[s].conn
      BY <1>5
    <2>2. QED
      BY <1>1, <1>3, <1>5, <1>6, <1>7, <2>1, EditStays
  <1>9. Kept(k) /\ k \in Nets
    BY <1>1, <1>8, StaysKept DEF Kept
  <1>10. PICK d : d = [b EXCEPT !.state = "handler", !.keep = keep]
    OBVIOUS
  <1>11. /\ d \in SlotStates /\ d.state = "handler" /\ d.conn = b.conn /\ d.job = done
         /\ d.unscanned = b.unscanned /\ d.reused = b.reused
    BY <1>5, <1>10 DEF SlotStates
  <1>12. PICK e : e = k.sock[k.slots[s].conn]
    OBVIOUS
  <1>13. /\ k.slots[s].conn # NoConn /\ k.slots[s].conn \in Conn /\ e \in Sockets
         /\ e.at = "slot" /\ (k.slots[s].reused => e.served)
         /\ k.slots[s].unscanned => k.slots[s].state = "header"
    <2>1. k.slots[s].conn # NoConn
      BY <1>1, <1>5, <1>8
    <2>2. QED
      BY <1>9, <1>12, <2>1, HeldFacts
  <1>14. m = Edit(k, s, e, d, k.free)
    <2>1. m = [k EXCEPT !.slots[s] = d]
      BY <1>8, <1>9, <1>10 DEF Nets, Handed
    <2>2. [k.sock EXCEPT ![k.slots[s].conn] = e] = k.sock
      BY <1>9, <1>12, <1>13, NetFacts
    <2>3. PICK f : f = [k.slots EXCEPT ![s] = d]
      OBVIOUS
    <2>4. m = [k EXCEPT !.slots = f]
      BY <2>1, <2>3
    <2>5. Edit(k, s, e, d, k.free) = [k EXCEPT !.sock = k.sock, !.slots = f, !.free = k.free]
      BY <2>2, <2>3 DEF Edit
    <2>6. k = [sock |-> k.sock, slots |-> k.slots, free |-> k.free, pending |-> k.pending]
      BY <1>9 DEF Nets
    <2>7. [k EXCEPT !.slots = f] = [k EXCEPT !.sock = k.sock, !.slots = f, !.free = k.free]
      BY <2>6
    <2>8. QED
      BY <2>4, <2>5, <2>7
  <1>15. Stays(k, m, s) /\ m.slots[s] = d
    <2>1. d.reused => e.served
      BY <1>8, <1>11, <1>13
    <2>2. d.unscanned => d.state = "header"
      BY <1>5, <1>8, <1>11, <1>13
    <2>3. d.state # "none" /\ d.conn = k.slots[s].conn
      BY <1>8, <1>11
    <2>4. QED
      BY <1>9, <1>11, <1>13, <1>14, <2>1, <2>2, <2>3, EditStays
  <1>16. Stays(n, m, s)
    BY <1>5, <1>8, <1>15 DEF Stays
  <1>17. Kept(m)
    BY <1>1, <1>16, StaysKept
  <1>18. QED
    BY <1>1, <1>3, <1>5, <1>8, <1>9, <1>11, <1>15, <1>16, <1>17 DEF Revised

\* A step of the I/O thread after expire_connections: nothing published is lost,
\* requests go on waiting, and a new one has no response yet.
GoesOn ==
    /\ UNCHANGED <<setup, handler, stop, replies, early>> /\ early = {}
    /\ \A s \in Slot : Waiting(s) => net'.slots[s] = net.slots[s]
    /\ \A s \in Slot : net'.slots[s].state = "handler" =>
         Waiting(s) \/ Current(net', s) \notin DOMAIN replies
    /\ reactor'.at \notin {"end", "observe", "expire"}
    /\ reactor'.at = "events" => \A s \in Slot : net'.slots[s].state = "handler" =>
         <<s, net'.slots[s].conn, net'.slots[s].job>> \notin reactor'.events.conns
    /\ \/ reactor'.at \in {"top", "events"}
       \/ wake' = wake /\ reactor.at \in {"dispatch", "poll"}

LEMMA RoundSafe ==
    ASSUME HttpInv, Kept(net'), LimitInv', OtherTypes', GoesOn
    PROVE  HttpInv'
  <1> USE DEF GoesOn
  <1>1. Kept(net)' /\ Slot' = Slot
    BY KeptNext
  <1>2. \A s \in Slot : /\ Waiting(s) => Waiting(s)' /\ Current(net, s)' = Current(net, s)
                        /\ Waiting(s)' <=> net'.slots[s].state = "handler"
                        /\ Current(net, s)' = Current(net', s)
    BY DEF Waiting, Current
  <1>3. ReplyInv'
    <2>1. \A r \in DOMAIN replies : \E s \in Slot : Waiting(s) /\ Current(net, s) = r
      BY DEF HttpInv, ReplyInv
    <2>2. \A r \in DOMAIN replies' : \E s \in Slot' : Waiting(s)' /\ Current(net, s)' = r
      BY <1>1, <1>2, <2>1
    <2>3. QED
      BY <1>1, <1>2, <2>2 DEF ReplyInv
  <1>4. WakeInv'
    <2>1. ASSUME NEW s \in Slot, Waiting(s)', Current(net, s)' \in DOMAIN replies'
          PROVE  Waiting(s) /\ Current(net, s) \in DOMAIN replies
      BY <1>2, <2>1
    <2>2. CASE reactor'.at \in {"top", "events"}
      BY <1>1, <2>2 DEF HttpInv, WakeInv
    <2>3. CASE wake' = wake /\ reactor.at \in {"dispatch", "poll"}
      BY <1>1, <2>1, <2>3 DEF HttpInv, WakeInv
    <2>4. QED
      BY <2>2, <2>3
  <1>5. EarlyInv'
    BY <1>1, SMTT(30) DEF EarlyInv
  <1>6. QED
    BY <1>1, <1>3, <1>4, <1>5, InvNext

\* dispatch_requests.
LEMMA DispatchSafe ==
    ASSUME HttpInv, Dispatch
    PROVE  HttpInv'
  <1>1. /\ setup \in Setups /\ Kept(net) /\ net \in Nets /\ OtherTypes /\ reactor \in Reactors
        /\ rejecting \in Rejections
    BY RoundFacts
  <1>2. UNCHANGED <<setup, handler, due, wake, stop, faults>> /\ reactor.at = "dispatch"
    BY DEF Dispatch
  <1>3. early = {}
    BY <1>2 DEF HttpInv, EarlyInv
  <1>4. CASE Ends /\ jobs' = jobs
    BY <1>1, <1>2, <1>4, EndsSafe DEF OtherTypes
  <1>5. CASE NextPhase /\ PollRejecting(net) /\ UNCHANGED <<retry, jobs, replies, early>>
    <2>1. Follows(net, net)
      BY <1>1, FollowsSelf
    <2>2. Kept(net') /\ LimitInv' /\ rejecting' \in Rejections /\ net'.slots = net.slots
      BY <1>2, <1>5, <2>1, LimitRejecting
    <2>3. reactor' \in Reactors /\ reactor'.at = "poll"
      BY <1>1, <1>2, <1>5, PhaseNext
    <2>4. OtherTypes'
      BY <1>1, <1>2, <1>5, <2>2, <2>3, RoundTypes, SMTT(30) DEF OtherTypes
    <2>5. QED
      <3>1. GoesOn
        BY <1>2, <1>3, <1>5, <2>2, <2>3 DEF GoesOn, Waiting
      <3>2. QED
        BY <2>2, <2>4, <3>1, RoundSafe
  <1>6. ASSUME NEW s \in Slot, NEW keep \in BOOLEAN, net.slots[s].state = "request",
               reactor' = [reactor EXCEPT !.slot = s], NEW n,
               n = Numbered(net, s, net.sock[net.slots[s].conn].done),
               \/ jobs' = Append(jobs, Current(n, s)) /\ net' = Handed(n, s, keep)
               \/ jobs' = jobs /\ net' = StartWrite(n, s, "response", FALSE),
               UNCHANGED <<rejecting, retry, replies, early>>
        PROVE  HttpInv'
    <2>1. PICK c : c = net.slots[s].conn
      OBVIOUS
    <2>2. PICK done : done = net.sock[c].done
      OBVIOUS
    <2>3. c # NoConn /\ c \in Conn
      <3>1. c # NoConn
        BY <1>1, <1>6, <2>1, EmptyFacts DEF Kept, Sound
      <3>2. QED
        BY <1>1, <2>1, <3>1, HeldFacts
    <2>4. done \in Nat
      BY <1>1, <2>2, <2>3, NetFacts DEF Sockets
    <2>5. PICK m : m = Handed(n, s, keep)
      OBVIOUS
    <2>6. /\ Revised(net, n, s) /\ Kept(n) /\ n.slots[s].conn = c /\ n.slots[s].job = done
          /\ Stays(net, m, s) /\ Kept(m) /\ m.slots[s].state = "handler"
          /\ m.slots[s].conn = c /\ m.slots[s].job = done
      <3>1. n = Numbered(net, s, done)
        BY <1>6, <2>1, <2>2
      <3>2. QED
        BY <1>1, <1>6, <2>1, <2>4, <2>5, <3>1, HandOver
    <2>7. Current(n, s) = <<c, done>> /\ <<c, done>> \in Request
      BY <2>3, <2>4, <2>6 DEF Current, Request
    <2>8. reactor' \in Reactors /\ reactor'.at = "dispatch"
      <3>1. s \in 0..setup.active
        BY <1>1, LimitFacts DEF Slot
      <3>2. QED
        BY <1>1, <1>2, <1>6, <3>1 DEF Reactors
    <2>9. jobs' \in Seq(Request)
      <3>1. jobs \in Seq(Request) /\ Append(jobs, <<c, done>>) \in Seq(Request)
        BY <1>1, <2>7 DEF OtherTypes
      <3>2. jobs' = jobs \/ jobs' = Append(jobs, <<c, done>>)
        BY <1>6, <2>7
      <3>3. QED
        BY <3>1, <3>2
    <2>10. OtherTypes'
      BY <1>1, <1>2, <1>6, <2>8, <2>9, RoundTypes DEF OtherTypes
    <2>11. \A t \in Slot : Waiting(t) => t # s
      BY <1>6 DEF Waiting
    <2>12. CASE net' = m
      <3>1. \A t \in Slot : t # s => net'.slots[t] = net.slots[t]
        BY <2>6, <2>12 DEF Stays
      <3>2. net'.free = net.free /\ net'.pending = net.pending
        BY <2>6, <2>12 DEF Stays
      <3>3. LimitInv'
        <4>1. rejecting.conn # NoConn => net'.sock[rejecting.conn].at = "rejecting"
          <5> SUFFICES ASSUME rejecting.conn # NoConn
                       PROVE  net'.sock[rejecting.conn].at = "rejecting"
            OBVIOUS
          <5>1. rejecting.conn \in Conn /\ net.sock[rejecting.conn].at = "rejecting"
            BY <1>1 DEF HttpInv, LimitInv, Rejections
          <5>2. net.sock[c].at = "slot"
            BY <1>1, <2>1, <2>3, HeldFacts
          <5>3. net'.sock[rejecting.conn] = net.sock[rejecting.conn]
            BY <2>1, <2>6, <2>12, <5>1, <5>2 DEF Stays
          <5>4. QED
            BY <5>1, <5>3
        <4>2. QED
          BY <1>2, <1>6, <3>2, <4>1 DEF HttpInv, LimitInv, Taken
      <3>4. Current(net', s) \notin DOMAIN replies
        <4> SUFFICES ASSUME Current(net', s) \in DOMAIN replies PROVE FALSE
          OBVIOUS
        <4>1. PICK t \in Slot : Waiting(t) /\ Current(net, t) = Current(net', s)
          BY DEF HttpInv, ReplyInv
        <4>2. net.slots[t].conn = c
          BY <2>6, <2>12, <4>1 DEF Current
        <4>3. t = s
          BY <1>1, <2>1, <4>1, <4>2, WaitingFacts
        <4>4. QED
          BY <2>11, <4>1, <4>3
      <3>5. \A t \in Slot : net'.slots[t].state = "handler" =>
               Waiting(t) \/ Current(net', t) \notin DOMAIN replies
        BY <3>1, <3>4 DEF Waiting
      <3>6. \A t \in Slot : Waiting(t) => net'.slots[t] = net.slots[t]
        BY <2>11, <3>1
      <3>7. Kept(net')
        BY <2>6, <2>12, SMTT(30)
      <3>8. GoesOn
        BY <1>2, <1>3, <1>6, <2>8, <3>5, <3>6 DEF GoesOn
      <3>9. QED
        BY <2>10, <3>3, <3>7, <3>8, RoundSafe
    <2>13. CASE net' = StartWrite(n, s, "response", FALSE)
      <3>1. "response" \in Answers /\ FALSE \in BOOLEAN
        BY DEF Answers
      <3>2. Revised(n, net', s) /\ net'.slots[s].state = "write"
        <4>1. n.slots[s].conn # NoConn
          BY <2>3, <2>6
        <4>2. Kept(n)
          BY <2>6
        <4>3. PICK no \in BOOLEAN : no = FALSE
          OBVIOUS
        <4>4. /\ Revised(n, StartWrite(n, s, "response", no), s)
              /\ StartWrite(n, s, "response", no).slots[s].state = "write"
          BY <1>1, <3>1, <4>1, <4>2, StartWriteRevises
        <4>5. QED
          BY <2>13, <4>3, <4>4
      <3>3. Revised(net, net', s)
        BY <2>1, <2>6, <3>2 DEF Revised, Stays
      <3>4. Follows(net, net') /\ \A t \in Slot : t # s => net'.slots[t] = net.slots[t]
        BY <1>1, <2>1, <2>3, <3>3, PolledFollows DEF Polled
      <3>5. Kept(net') /\ LimitInv'
        BY <1>2, <1>6, <3>4, LimitFollows
      <3>6. /\ \A t \in Slot : Waiting(t) => net'.slots[t] = net.slots[t]
            /\ \A t \in Slot : net'.slots[t].state = "handler" => Waiting(t)
        BY <2>11, <3>2, <3>4 DEF Waiting
      <3>7. GoesOn
        BY <1>2, <1>3, <1>6, <2>8, <3>6 DEF GoesOn
      <3>8. QED
        BY <2>10, <3>5, <3>7, RoundSafe
    <2>14. QED
      BY <1>6, <2>5, <2>12, <2>13
  <1>7. QED
    <2>1. \/ Ends /\ jobs' = jobs
          \/ NextPhase /\ PollRejecting(net) /\ UNCHANGED <<retry, jobs, replies, early>>
          \/ \E s \in Slot, keep \in BOOLEAN :
               /\ net.slots[s].state = "request"
               /\ reactor' = [reactor EXCEPT !.slot = s]
               /\ LET n == Numbered(net, s, net.sock[net.slots[s].conn].done) IN
                  \/ jobs' = Append(jobs, Current(n, s)) /\ net' = Handed(n, s, keep)
                  \/ jobs' = jobs /\ net' = StartWrite(n, s, "response", FALSE)
               /\ UNCHANGED <<rejecting, retry, replies, early>>
      BY ZenonT(30) DEF Dispatch, Ahead, Numbered, Handed
    <2>2. CASE \E s \in Slot, keep \in BOOLEAN :
               /\ net.slots[s].state = "request"
               /\ reactor' = [reactor EXCEPT !.slot = s]
               /\ LET n == Numbered(net, s, net.sock[net.slots[s].conn].done) IN
                  \/ jobs' = Append(jobs, Current(n, s)) /\ net' = Handed(n, s, keep)
                  \/ jobs' = jobs /\ net' = StartWrite(n, s, "response", FALSE)
               /\ UNCHANGED <<rejecting, retry, replies, early>>
      BY <1>6, <2>2
    <2>3. QED
      BY <1>4, <1>5, <2>1, <2>2

\* What poll reports: sockets of slots whose request does not wait.
ReadyEvent(writable, r) ==
    [wake |-> wake.byte \/ wake.shut,
     listener |-> rejecting.conn = NoConn /\ ~retry
                  /\ \E c \in Conn : net.sock[c].at = "backlog",
     conns |-> {<<s, net.slots[s].conn, net.slots[s].job>> : s \in writable \cup
                   {t \in Slot : net.slots[t].state \in {"header", "body"}
                                 /\ Readable(net, net.slots[t].conn)}},
     rejection |-> r]

LEMMA ReadyFacts ==
    ASSUME setup \in Setups, Kept(net), rejecting \in Rejections,
           wake \in [byte : BOOLEAN, shut : BOOLEAN], NEW events \in ReadyEvents
    PROVE  /\ events \in EventSets
           /\ \A s \in Slot : Waiting(s) =>
                <<s, net.slots[s].conn, net.slots[s].job>> \notin events.conns
  <1>1. PICK writable \in SUBSET {s \in Slot : net.slots[s].state = "write"},
             r \in {NoConn, rejecting.conn} : events = ReadyEvent(writable, r)
    <2> DEFINE ws == SUBSET {s \in Slot : net.slots[s].state = "write"}
               rs == {NoConn, rejecting.conn}
    <2>1. ReadyEvents = {ReadyEvent(w, r) : w \in ws, r \in rs}
      BY DEF ReadyEvents, ReadyEvent
    <2> HIDE DEF ws, rs
    <2>2. PICK w \in ws, r \in rs : events = ReadyEvent(w, r)
      BY <2>1
    <2>3. QED
      BY <2>2 DEF ws, rs
  <1>2. PICK seen : seen = writable \cup
                          {t \in Slot : net.slots[t].state \in {"header", "body"}
                                        /\ Readable(net, net.slots[t].conn)}
    OBVIOUS
  <1>3. \A s \in seen : s \in Slot /\ net.slots[s].state \in {"header", "body", "write"}
    BY <1>1, <1>2
  <1>4. ASSUME NEW s \in seen
        PROVE  net.slots[s].conn \in Conn /\ net.slots[s].job \in Nat
    <2>1. s \in Slot /\ net.slots[s].state \in {"header", "body", "write"}
      BY <1>3
    <2>2. net.slots[s].conn # NoConn
      BY <2>1, EmptyFacts DEF Kept, Sound
    <2>3. net.slots[s] \in SlotStates /\ net.slots[s].conn \in Conn
      BY <2>1, <2>2, HeldFacts
    <2>4. QED
      BY <2>3 DEF SlotStates
  <1>5. PICK conns : conns = {<<s, net.slots[s].conn, net.slots[s].job>> : s \in seen}
    OBVIOUS
  <1>6. conns \in SUBSET (Slot \X Conn \X Nat)
    BY <1>3, <1>4, <1>5
  <1>7. /\ events.conns = conns /\ events.rejection = r
        /\ events.wake \in BOOLEAN /\ events.listener \in BOOLEAN
        /\ events = [wake |-> events.wake, listener |-> events.listener,
                     conns |-> events.conns, rejection |-> events.rejection]
    BY <1>1, <1>2, <1>5 DEF ReadyEvent
  <1>8. events \in EventSets
    BY <1>6, <1>7 DEF EventSets, Rejections
  <1>9. ASSUME NEW s \in Slot, Waiting(s),
               <<s, net.slots[s].conn, net.slots[s].job>> \in conns
        PROVE  FALSE
    BY <1>3, <1>5, <1>9 DEF Waiting
  <1>10. QED
    BY <1>7, <1>8, <1>9

\* netpoll::wait and its failure.
LEMMA PollSafe ==
    ASSUME HttpInv, Poll \/ ReactorFails
    PROVE  HttpInv'
  <1>1. /\ setup \in Setups /\ Kept(net) /\ OtherTypes /\ reactor \in Reactors
        /\ rejecting \in Rejections /\ wake \in [byte : BOOLEAN, shut : BOOLEAN]
        /\ due \subseteq Request
    BY RoundFacts DEF OtherTypes
  <1>2. CASE ReactorFails
    BY <1>1, <1>2, EndsSafe DEF ReactorFails
  <1>3. CASE Poll /\ stop
    BY <1>1, <1>3, EndsSafe DEF Poll
  <1>4. CASE Poll /\ ~stop
    <2>1. PICK events \in ReadyEvents :
            reactor' = [at |-> "events", slot |-> 0, events |-> events]
      BY <1>4 DEF Poll
    <2>2. /\ UNCHANGED <<setup, net, rejecting, retry, replies, early, jobs, handler, due, wake,
                         stop, faults>>
          /\ reactor.at = "poll"
      BY <1>4 DEF Poll
    <2>3. early = {}
      BY <2>2 DEF HttpInv, EarlyInv
    <2>4. /\ events \in EventSets
          /\ \A s \in Slot : Waiting(s) =>
               <<s, net.slots[s].conn, net.slots[s].job>> \notin events.conns
      BY <1>1, ReadyFacts
    <2>5. reactor' \in Reactors /\ reactor'.at = "events" /\ reactor'.events = events
      <3>1. 0 \in 0..setup.active
        BY <1>1, LimitFacts
      <3>2. QED
        BY <2>1, <2>4, <3>1 DEF Reactors, ReactorLabels
    <2>6. OtherTypes'
      BY <1>1, <2>2, <2>5, RoundTypes DEF OtherTypes
    <2>7. LimitInv'
      BY <2>2, NetSame
    <2>8. Kept(net')
      BY <1>1, <2>2
    <2>9. /\ \A s \in Slot : Waiting(s) => net'.slots[s] = net.slots[s]
          /\ \A s \in Slot : net'.slots[s].state = "handler" => Waiting(s)
          /\ \A s \in Slot : net'.slots[s].state = "handler" =>
                <<s, net'.slots[s].conn, net'.slots[s].job>> \notin reactor'.events.conns
      BY <2>2, <2>4, <2>5 DEF Waiting
    <2>10. GoesOn
      BY <2>2, <2>3, <2>5, <2>9 DEF GoesOn
    <2>11. QED
      BY <2>6, <2>7, <2>8, <2>10, RoundSafe
  <1>5. QED
    BY <1>2, <1>3, <1>4

\* Work on the events leaves fewer of them.
LEMMA EventsSafe ==
    ASSUME HttpInv, reactor.at = "events", reactor' \in Reactors, reactor'.at = "events",
           reactor'.events.conns = reactor.events.conns,
           UNCHANGED <<setup, rejecting, net, replies, early, jobs, handler, due, stop>>,
           wake' \in [byte : BOOLEAN, shut : BOOLEAN], retry' \in BOOLEAN,
           faults' = faults \/ Fault
    PROVE  HttpInv'
  <1>1. Kept(net) /\ OtherTypes /\ rejecting \in Rejections
    BY RoundFacts
  <1>2. early = {}
    BY DEF HttpInv, EarlyInv
  <1>3. OtherTypes'
    <2>1. faults' \in 0..MaxFaults
      BY <1>1, FaultCount
    <2>2. QED
      BY <1>1, <2>1, RoundTypes DEF OtherTypes
  <1>4. LimitInv'
    BY NetSame
  <1>5. /\ \A s \in Slot : Waiting(s) => net'.slots[s] = net.slots[s]
        /\ \A s \in Slot : net'.slots[s].state = "handler" => Waiting(s)
        /\ \A s \in Slot : net'.slots[s].state = "handler" =>
              <<s, net'.slots[s].conn, net'.slots[s].job>> \notin reactor'.events.conns
    BY DEF HttpInv, ReplyInv, Waiting
  <1>6. Kept(net')
    BY <1>1
  <1>7. QED
    <2>1. UNCHANGED <<setup, handler, stop, replies, early>>
      OBVIOUS
    <2>2. reactor'.at \notin {"end", "observe", "expire"} /\ reactor'.at \in {"top", "events"}
      OBVIOUS
    <2>3. GoesOn
      BY <1>2, <1>5, <2>1, <2>2 DEF GoesOn
    <2>4. QED
      BY <1>3, <1>4, <1>6, <2>3, RoundSafe

LEMMA DrainSafe ==
    ASSUME HttpInv, DrainWake
    PROVE  HttpInv'
  <1>1. /\ setup \in Setups /\ OtherTypes /\ reactor \in Reactors
        /\ wake \in [byte : BOOLEAN, shut : BOOLEAN] /\ due \subseteq Request
        /\ retry \in BOOLEAN
    BY RoundFacts DEF OtherTypes
  <1>2. CASE wake.shut
    BY <1>1, <1>2, EndsSafe DEF DrainWake
  <1>3. CASE ~wake.shut
    <2>1. /\ UNCHANGED <<setup, rejecting, retry, net, replies, early, jobs, handler, due, stop,
                         faults>>
          /\ reactor.at = "events"
          /\ wake' = [wake EXCEPT !.byte = FALSE]
          /\ reactor' = [reactor EXCEPT !.events.wake = FALSE]
      BY <1>3 DEF DrainWake
    <2>2. /\ reactor' \in Reactors /\ reactor'.at = "events"
          /\ reactor'.events.conns = reactor.events.conns
      BY <1>1, <2>1 DEF Reactors, EventSets
    <2>3. wake' \in [byte : BOOLEAN, shut : BOOLEAN]
      BY <1>1, <2>1
    <2>4. QED
      BY <1>1, <2>1, <2>2, <2>3, EventsSafe
  <1>4. QED
    BY <1>2, <1>3

\* accept_connections.
LEMMA AcceptSafe ==
    ASSUME HttpInv, Accept \/ AcceptTransient
    PROVE  HttpInv'
  <1>1. /\ setup \in Setups /\ Kept(net) /\ net \in Nets /\ OtherTypes /\ reactor \in Reactors
        /\ wake \in [byte : BOOLEAN, shut : BOOLEAN]
        /\ retry \in BOOLEAN /\ rejecting \in Rejections
    BY RoundFacts, SMTT(30) DEF OtherTypes
  <1>2. /\ UNCHANGED <<setup, jobs, replies, handler, due, wake, stop, early>>
        /\ reactor.at = "events"
    BY DEF Accept, AcceptTransient
  <1>3. CASE ListenerDone /\ UNCHANGED <<net, rejecting>>
    <2>1. /\ reactor' \in Reactors /\ reactor'.at = "events"
          /\ reactor'.events.conns = reactor.events.conns
      BY <1>1, <1>2, <1>3 DEF Reactors, EventSets, ListenerDone
    <2>2. retry' \in BOOLEAN /\ (faults' = faults \/ Fault)
      BY <1>1 DEF Accept, AcceptTransient
    <2>3. QED
      BY <1>1, <1>2, <1>3, <2>1, <2>2, EventsSafe
  <1>4. PICK k \in {0, 1} : k = IF rejecting.permit THEN 1 ELSE 0
    OBVIOUS
  <1>5. PICK x, o : x = Taken(net) /\ o = Len(net.pending)
    OBVIOUS
  <1>6. /\ Permits = x + k /\ x \in Int /\ o \in Nat
        /\ setup.active \in Nat /\ setup.pending \in Nat /\ setup.connections \in Nat
        /\ x + k <= setup.connections
    <2>1. setup.active \in Nat /\ setup.pending \in Nat /\ setup.connections \in Nat
      BY <1>1, LimitFacts
    <2>2. x + k <= setup.connections
      BY <1>4, <1>5 DEF HttpInv, LimitInv
    <2>3. Permits = x + k /\ x \in Int /\ o \in Nat
      BY <1>1, <1>4, <1>5, PermitCount
    <2>4. QED
      BY <2>1, <2>2, <2>3
  <1>7. ASSUME NEW c \in Conn, net.sock[c].at = "backlog", rejecting.conn = NoConn,
               Permits < setup.connections, Len(net.pending) < setup.pending,
               net' = Promote(Joined(net, c)),
               UNCHANGED <<rejecting, reactor, retry, faults>>
        PROVE  HttpInv'
    <2>1. PICK n : n = Joined(net, c)
      OBVIOUS
    <2>2. Kept(n) /\ n.slots = net.slots /\ Len(n.pending) = o + 1 /\ Taken(n) = x + 1
      BY <1>1, <1>5, <1>7, <2>1, JoinKept
    <2>3. PICK m : m = net'
      OBVIOUS
    <2>4. m = Promote(n)
      BY <1>7, <2>1, <2>3
    <2>5. Follows(n, m) /\ \A s \in Slot : n.slots[s].state = "handler" => m.slots[s] = n.slots[s]
      BY <1>1, <2>2, <2>4, PromoteFollows
    <2>6. Kept(m) /\ m \in Nets
      BY <2>5 DEF Follows, Kept
    <2>7. PICK y, p : y = Taken(m) /\ p = Len(m.pending)
      OBVIOUS
    <2>8. y \in Int /\ p \in Nat
      BY <1>6, <2>6, <2>7, NetFacts DEF Taken
    <2>9. y <= x + 1 /\ p <= o + 1
      BY <2>2, <2>5, <2>7 DEF Follows
    <2>10. x + k < setup.connections /\ o < setup.pending
      BY <1>5, <1>6, <1>7
    <2>11. y + k <= setup.connections /\ p <= setup.pending
      BY <1>4, <1>6, <2>8, <2>9, <2>10
    <2>12. Taken(net)' = y
      BY <1>2, <2>3, <2>7 DEF Taken
    <2>13. LimitInv'
      BY <1>2, <1>4, <1>7, <2>3, <2>7, <2>11, <2>12 DEF LimitInv
    <2>14. OtherTypes'
      BY <1>1, <1>2, <1>7, RoundTypes DEF OtherTypes
    <2>15. \A s \in Slot : net.slots[s].state = "handler" \/ net'.slots[s].state = "handler"
                             => net'.slots[s] = net.slots[s]
      BY <2>2, <2>3, <2>5 DEF Follows
    <2>16. QED
      BY <1>2, <1>7, <2>3, <2>6, <2>13, <2>14, <2>15, ThreadsSame
  <1>8. ASSUME NEW c \in Conn, net.sock[c].at = "backlog",
               rejecting' = [NoRejection EXCEPT !.conn = c,
                               !.permit = Permits < setup.connections],
               net' = [net EXCEPT !.sock[c].at = "rejecting"],
               UNCHANGED <<reactor, retry, faults>>
        PROVE  HttpInv'
    <2>1. net.sock[c] \in Sockets
      BY <1>1, NetFacts
    <2>2. PICK a : a = [net.sock[c] EXCEPT !.at = "rejecting"]
      OBVIOUS
    <2>3. /\ a \in Sockets /\ a.at = "rejecting" /\ a.served = net.sock[c].served
      BY <2>1, <2>2 DEF Sockets
    <2>4. SocketMay(net.sock[c], a)
      BY <1>8, <2>3 DEF SocketMay
    <2>5. net' = WithSocket(net, c, a)
      BY <1>1, <1>8, <2>2 DEF WithSocket, Nets
    <2>6. /\ Kept(net') /\ net'.slots = net.slots /\ net'.free = net.free
          /\ net'.pending = net.pending /\ net'.sock[c] = a
      BY <1>1, <2>3, <2>4, <2>5, SocketKept
    <2>7. PICK more \in BOOLEAN : more = (Permits < setup.connections)
      <3>1. (Permits < setup.connections) \in BOOLEAN
        OBVIOUS
      <3>2. QED
        BY <3>1
    <2>8. rejecting' = [NoRejection EXCEPT !.conn = c, !.permit = more]
      BY <1>8, <2>7
    <2>9. rejecting' \in Rejections /\ rejecting'.conn = c /\ rejecting'.permit = more
      BY <2>8 DEF NoRejection, Rejections
    <2>10. Taken(net)' = x
      BY <1>2, <1>5, <2>6 DEF Taken
    <2>11. PICK j \in {0, 1} : j = IF more THEN 1 ELSE 0
      OBVIOUS
    <2>12. x + j <= setup.connections
      <3>1. more => x + k < setup.connections
        BY <1>6, <2>7
      <3>2. QED
        BY <1>4, <1>6, <2>11, <3>1
    <2>13. LimitInv'
      <3>1. Len(net'.pending) <= setup.pending
        BY <2>6 DEF HttpInv, LimitInv
      <3>2. QED
        BY <1>2, <2>3, <2>6, <2>9, <2>10, <2>11, <2>12, <3>1 DEF LimitInv
    <2>14. OtherTypes'
      BY <1>1, <1>2, <1>8, <2>9, RoundTypes DEF OtherTypes
    <2>15. QED
      BY <1>2, <1>8, <2>6, <2>13, <2>14, ThreadsSame
  <1>9. QED
    <2>1. CASE AcceptTransient
      BY <1>3, <2>1, SMTT(30) DEF AcceptTransient
    <2>2. CASE Accept
      <3>1. \/ ListenerDone /\ UNCHANGED <<net, rejecting>>
            \/ \E c \in Conn :
                 /\ net.sock[c].at = "backlog" /\ rejecting.conn = NoConn
                 /\ UNCHANGED <<reactor, retry, faults>>
                 /\ \/ /\ Permits < setup.connections /\ Len(net.pending) < setup.pending
                       /\ net' = Promote(Joined(net, c))
                       /\ UNCHANGED rejecting
                    \/ /\ rejecting' = [NoRejection EXCEPT !.conn = c,
                                          !.permit = Permits < setup.connections]
                       /\ net' = [net EXCEPT !.sock[c].at = "rejecting"]
        BY <2>2 DEF Accept, Joined
      <3>2. QED
        BY <1>3, <1>7, <1>8, <3>1, ZenonT(30)
    <2>3. QED
      BY <2>1, <2>2

\* The events of connections.
LEMMA ConnectionEventsSafe ==
    ASSUME HttpInv, ConnectionEvents
    PROVE  HttpInv'
  <1>1. /\ setup \in Setups /\ Kept(net) /\ OtherTypes /\ reactor \in Reactors
        /\ rejecting \in Rejections
        /\ reactor.events.conns \in SUBSET (Slot \X Conn \X Nat)
    BY RoundFacts
  <1>2. /\ UNCHANGED <<setup, retry, jobs, replies, handler, due, wake, stop, early, faults>>
        /\ reactor.at = "events"
        /\ reactor' = [reactor EXCEPT !.at = "top", !.events = NoEvents]
    BY DEF ConnectionEvents
  <1>3. PICK n \in Pass("events", net) :
          PollRejecting(n) \/ (net' = n /\ rejecting' = rejecting)
    BY DEF ConnectionEvents
  <1>4. "events" \in Passes
    BY DEF Passes
  <1>5. Follows(net, n) /\ \A s \in Slot : Spared("events", net, s) => n.slots[s] = net.slots[s]
    BY <1>1, <1>3, <1>4, PassFollows
  <1>6. Kept(net') /\ LimitInv' /\ rejecting' \in Rejections /\ net'.slots = n.slots
    <2>1. CASE PollRejecting(n)
      BY <1>2, <1>5, <2>1, LimitRejecting
    <2>2. CASE net' = n /\ rejecting' = rejecting
      BY <1>1, <1>2, <1>5, <2>2, LimitFollows
    <2>3. QED
      BY <1>3, <2>1, <2>2
  <1>7. early = {}
    BY <1>2 DEF HttpInv, EarlyInv
  <1>8. ASSUME NEW s \in Slot, Waiting(s)
        PROVE  net'.slots[s] = net.slots[s]
    <2>1. Spared("events", net, s)
      BY <1>2, <1>8 DEF HttpInv, ReplyInv, Spared, Waiting
    <2>2. QED
      BY <1>5, <1>6, <2>1
  <1>9. \A s \in Slot : net'.slots[s].state = "handler" => Waiting(s)
    BY <1>5, <1>6 DEF Follows, Waiting
  <1>10. reactor' \in Reactors /\ reactor'.at = "top"
    <2>1. NoEvents \in EventSets
      BY DEF NoEvents, EventSets
    <2>2. QED
      BY <1>1, <1>2, <2>1 DEF Reactors, ReactorLabels
  <1>11. OtherTypes'
    BY <1>1, <1>2, <1>6, <1>10, RoundTypes DEF OtherTypes
  <1>12. QED
    <2>1. UNCHANGED <<setup, handler, stop, replies, early>>
      BY <1>2
    <2>2. \A s \in Slot : Waiting(s) => net'.slots[s] = net.slots[s]
      BY <1>8
    <2>3. Kept(net') /\ LimitInv'
      BY <1>6
    <2>4. GoesOn
      BY <1>7, <1>9, <1>10, <2>1, <2>2 DEF GoesOn
    <2>5. QED
      BY <1>11, <2>3, <2>4, RoundSafe

-----------------------------------------------------------------------------
(* The invariant, and what it gives *)

LEMMA InitSafe == Init => HttpInv
  <1> SUFFICES ASSUME Init PROVE HttpInv
    OBVIOUS
  <1>1. setup \in Setups
    BY DEF Init
  <1>2. PICK sock : sock = [c \in Conn |-> NewSocket]
    OBVIOUS
  <1>3. NewSocket \in Sockets /\ NewSocket.at = "out"
    BY DEF NewSocket, Sockets
  <1>4. sock \in [Conn -> Sockets] /\ \A c \in Conn : sock[c].at = "out"
    BY <1>2, <1>3
  <1>5. net = Vacant(sock)
    BY <1>2 DEF Init, Vacant
  <1>6. /\ Kept(net) /\ Len(net.pending) = 0 /\ Taken(net) = 0
        /\ \A s \in Slot : net.slots[s].state # "handler"
    BY <1>1, <1>4, <1>5, VacantKept
  <1>7. /\ rejecting = NoRejection /\ retry = FALSE /\ jobs = <<>> /\ DOMAIN replies = {}
        /\ reactor = [at |-> "top", slot |-> 0, events |-> NoEvents]
        /\ handler = [at |-> "idle", job |-> NoRequest, answer |-> "none"]
        /\ due = {} /\ early = {} /\ wake = [byte |-> FALSE, shut |-> FALSE]
        /\ stop = FALSE /\ faults = 0
    BY DEF Init
  <1>8. 0 \in 0..setup.active /\ 0 \in 0..MaxFaults
    BY <1>1, LimitFacts, HttpAssumption
  <1>9. rejecting.conn = NoConn /\ rejecting.permit = FALSE
    BY <1>7 DEF NoRejection
  <1>10. net \in Nets
    BY <1>6 DEF Kept
  <1>11. ShapeInv
    <2>1. NoEvents \in [wake : BOOLEAN, listener : BOOLEAN,
                        conns : SUBSET (Slot \X Conn \X Nat), rejection : Conn \cup {NoConn}]
      BY DEF NoEvents
    <2>2. reactor \in [at : ReactorLabels, slot : 0..setup.active,
                   events : [wake : BOOLEAN, listener : BOOLEAN,
                             conns : SUBSET (Slot \X Conn \X Nat),
                             rejection : Conn \cup {NoConn}]]
      BY <1>7, <1>8, <2>1 DEF ReactorLabels
    <2>3. rejecting \in [conn : Conn \cup {NoConn}, permit : BOOLEAN,
                         writing : BOOLEAN, late : BOOLEAN]
      BY <1>7 DEF NoRejection
    <2>4. handler \in [at : HandlerLabels, job : Request \cup {NoRequest},
                       answer : {"none", "ok", "error"}] /\ handler.at = "idle"
      BY <1>7 DEF HandlerLabels
    <2>5. wake \in [byte : BOOLEAN, shut : BOOLEAN] /\ jobs \in Seq(Request)
      BY <1>7
    <2>6. QED
      BY <1>1, <1>7, <1>8, <1>10, <2>2, <2>3, <2>4, <2>5 DEF ShapeInv, TypeOK, Nets
  <1>12. LimitInv
    <2>1. 0 <= setup.pending /\ 0 + 0 <= setup.connections
      BY <1>1, LimitFacts
    <2>2. QED
      BY <1>6, <1>9, <2>1 DEF LimitInv
  <1>13. ReplyInv
    BY <1>6, <1>7 DEF ReplyInv, Waiting
  <1>14. WakeInv
    BY <1>6, <1>7 DEF WakeInv, Waiting
  <1>15. EarlyInv
    BY <1>6, <1>7 DEF EarlyInv, Waiting
  <1>16. QED
    BY <1>6, <1>11, <1>12, <1>13, <1>14, <1>15 DEF HttpInv

LEMMA NextSafe == HttpInv /\ [Next]_vars => HttpInv'
  <1> SUFFICES ASSUME HttpInv, [Next]_vars PROVE HttpInv'
    OBVIOUS
  <1>1. CASE ReactorStep
    BY <1>1, TopSafe, ObserveSafe, ExpireSafe, DispatchSafe, PollSafe, DrainSafe, AcceptSafe,
       ConnectionEventsSafe DEF ReactorStep
  <1>2. CASE LoopStep \/ HandlerReturns \/ Terminate
    BY <1>2, LoopSafe
  <1>3. CASE Deadlines
    BY <1>3, DeadlineSafe
  <1>4. CASE ReactorFails \/ AcceptTransient
    BY <1>4, PollSafe, AcceptSafe
  <1>5. CASE \E c \in Conn : Connect(c) \/ SendPiece(c) \/ Leave(c)
    BY <1>5, ClientSafe
  <1>6. CASE UNCHANGED vars
    <2>1. UNCHANGED <<setup, net, rejecting, reactor, replies, handler, wake, stop, early>>
      BY <1>6 DEF vars
    <2>2. Kept(net)' /\ LimitInv' /\ EarlyInv' /\ ReplyInv' /\ Slot' = Slot
      BY <2>1, ReactorSame, NetSame
    <2>3. OtherTypes'
      BY <1>6, <2>2, RoundFacts DEF OtherTypes, vars
    <2>4. WakeInv'
      BY <2>1, <2>2 DEF HttpInv, WakeInv, Waiting, Current
    <2>5. QED
      BY <2>1, <2>2, <2>3, <2>4, InvNext
  <1>7. QED
    BY <1>1, <1>2, <1>3, <1>4, <1>5, <1>6 DEF Next

\* HttpInv holds in every state: where each connection is and what the two
\* threads still owe each other (Reactor::run, run_http_listener).
THEOREM HttpInductive == Spec => []HttpInv
  BY InitSafe, NextSafe, PTL DEF Spec

\* Every accepted connection is in one place, the limits of active, pending and
\* counted connections are kept, and none that the running I/O thread closes goes
\* without an answer it could be given, whatever the connections, the limits and
\* what the clients send (HttpConnectionPermit, close_slot, promote_pending).
THEOREM ConnectionsSafe == Spec => []ConnectionsKept
  <1>1. HttpInv => ConnectionsKept
    <2> SUFFICES ASSUME HttpInv PROVE ConnectionsKept
      OBVIOUS
    <2>1. setup \in Setups /\ Kept(net) /\ net \in Nets /\ TypeOK
      BY DEF HttpInv, ShapeInv, TypeOK, Kept
    <2>2. /\ \A x : x \in ToSet(net.free) <=> \E i \in 1..Len(net.free) : net.free[i] = x
          /\ \A x : x \in ToSet(net.pending) <=> \E i \in 1..Len(net.pending) : net.pending[i] = x
      BY <2>1, NetFacts DEF ToSet
    <2>3. \A s \in Slot : net.slots[s].conn = NoConn <=> s \in ToSet(net.free)
      BY <2>1, <2>2 DEF Kept, Placed
    <2>4. Cardinality(ToSet(net.free)) = Len(net.free)
      BY <2>1, SlotCount
    <2>5. ASSUME NEW c \in Conn
          PROVE  /\ net.sock[c].at = "slot" <=> \E s \in Slot : net.slots[s].conn = c
                 /\ net.sock[c].at = "pending" <=> c \in ToSet(net.pending)
                 /\ net.sock[c].at = "closed" => net.sock[c].served
      <3>1. c # NoConn
        BY HttpAssumption
      <3>2. QED
        BY <2>1, <2>2, <3>1 DEF Kept, Placed, Sound
    <2>6. Len(net.pending) <= setup.pending
      BY DEF HttpInv, LimitInv
    <2>7. Permits <= setup.connections
      BY <2>1, PermitCount DEF HttpInv, LimitInv
    <2>8. QED
      BY <2>1, <2>3, <2>4, <2>5, <2>6, <2>7 DEF ConnectionsKept
  <1>2. QED
    BY <1>1, HttpInductive, PTL

\* The I/O thread never sleeps past a published response or the end of the
\* listener without a wake-up that is there or about to be sent (respond's
\* notify after try_send, Drop for HttpIo).
THEOREM WakeSafe == Spec => []NoLostWake
  <1>1. HttpInv => NoLostWake
    BY DEF HttpInv, WakeInv, NoLostWake, Waiting, Waking
  <1>2. QED
    BY <1>1, HttpInductive, PTL

\* A response published before the I/O thread's round began is not replaced by
\* the thread's own timeout (observe_completions before expire_connections).
THEOREM EarlyWins == Spec => PublishedWins
  <1> DEFINE Kind == \A s \in Slot :
               /\ net.slots[s].state = "handler" /\ net'.slots[s].state = "write"
               /\ Current(net, s) \in early
               => net'.slots[s].answer # "timeout"
  <1>1. HttpInv /\ [Next]_vars => [Kind]_vars
    <2> SUFFICES ASSUME HttpInv, Next,
                        NEW s \in Slot, net.slots[s].state = "handler",
                        net'.slots[s].state = "write", Current(net, s) \in early
                 PROVE  net'.slots[s].answer # "timeout"
      OBVIOUS
    <2>1. reactor.at = "observe"
      BY DEF HttpInv, EarlyInv, Waiting
    <2>2. CASE Observe
      BY <2>2, ObserveSafe DEF Waiting
    <2>3. CASE net'.slots = net.slots
      BY <2>3
    <2>4. net \in Nets
      BY RoundFacts
    <2>5. CASE ReactorStep \/ ReactorFails \/ AcceptTransient
      BY <2>1, <2>2, <2>5 DEF ReactorStep, Top, ExpireConnections, Dispatch, Poll, DrainWake,
         Accept, ConnectionEvents, ReactorFails, AcceptTransient
    <2>6. CASE LoopStep \/ HandlerReturns \/ Terminate
      BY <2>3, <2>6 DEF LoopStep, LoopTurn, NextJob, Publish, Notify, SetStop, WakeUp, Join,
         HandlerReturns, Terminate
    <2>7. CASE \E c \in Conn : Connect(c) \/ SendPiece(c) \/ Leave(c)
      BY <2>3, <2>4, <2>7 DEF Connect, SendPiece, Leave, Nets
    <2>8. CASE \E t \in Slot : SocketDeadline(t)
      <3>1. PICK t \in Slot : SocketDeadline(t)
        BY <2>8
      <3>2. t # s /\ net' = [net EXCEPT !.slots[t].late = TRUE]
        BY <3>1 DEF SocketDeadline
      <3>3. net'.slots[s] = net.slots[s]
        BY <2>4, <3>2 DEF Nets
      <3>4. QED
        BY <3>3
    <2>9. CASE (\E r \in Live : RequestDeadline(r)) \/ RejectionDeadline \/ RetryDeadline
      BY <2>3, <2>9 DEF RequestDeadline, RejectionDeadline, RetryDeadline
    <2>10. QED
      BY <2>5, <2>6, <2>7, <2>8, <2>9 DEF Next, Deadlines
  <1>2. QED
    BY <1>1, HttpInductive, PTL DEF Spec, PublishedWins

=============================================================================
