----------------------------- MODULE HttpServer -----------------------------
(***************************************************************************)
(* The interpreter's HTTP server: the I/O thread that owns every socket    *)
(* (src/src/runtime/interpreter/http_io.rs) and the interpreter's loop     *)
(* that runs one handler at a time (run_http_listener in interpreter.rs).  *)
(*                                                                         *)
(* They meet in a bounded channel of jobs, in a channel of capacity one    *)
(* per request for its response, in a wake socket and in the stop flag.    *)
(* A step is one access to one of these, or the I/O thread's work on one   *)
(* connection between two of them.                                         *)
(*                                                                         *)
(* The bytes of a connection are pieces: "p" a part of a header, "r" what  *)
(* completes the header of a request without a body, "h" of one with a     *)
(* body, "b" that body.  Parsing either succeeds or answers an error; that *)
(* includes what the buffer budget refuses.                                *)
(***************************************************************************)
EXTENDS Integers, Sequences, FiniteSets, SequencesExt

CONSTANTS
    Conn,           \* connections clients may open
    NoConn,
    Setups,         \* what a run may start with: the limits active, pending and
                    \* connections, and the script of pieces of every client
    MaxFaults       \* how many calls may fail and clients may leave

ASSUME HttpAssumption ==
    /\ NoConn \notin Conn
    /\ \A u \in Setups : /\ {u.active, u.pending, u.connections} \subseteq Nat \ {0}
                          /\ DOMAIN u.script \subseteq Conn
                          /\ \A c \in DOMAIN u.script : u.script[c] \in Seq({"p", "r", "h", "b"})
    /\ MaxFaults \in Nat

ReactorLabels == {"top", "observe", "expire", "dispatch", "poll", "events", "end"}

HandlerLabels == {"idle", "recv", "run", "publish", "notify", "stop", "wakeup", "join", "end"}

\* A request is named by its connection and the pieces it ends with.
Request == Conn \X Nat

\* What is written: the timeout the I/O thread itself gives a request that
\* waits for its handler, or any other response.
Answers == {"none", "response", "timeout"}

VARIABLES
    setup,
    net,        \* the sockets and what the reactor keeps of them: sock (a
                \* connection: where it is, pieces sent, read and parsed,
                \* whether its client left, and whether it was answered, or
                \* could not be because of its client),
                \* slots, the stack of free ones, and the pending queue
    rejecting,  \* Reactor::rejecting
    retry,      \* accept_retry_deadline is in the future
    reactor,    \* the I/O thread: label, last slot handled, events to handle
    jobs,       \* the channel of jobs
    replies,    \* published responses, by request
    handler,    \* the interpreter's loop
    due,        \* requests whose handler deadline has passed
    wake,       \* the wake socket: a byte is there; its sender is shut down
    stop,
    early,      \* requests answered before the I/O thread's round began
    faults

vars == <<setup, net, rejecting, retry, reactor, jobs, replies, handler, due,
          wake, stop, early, faults>>

Slot == 1..setup.active

NoRequest == <<>>
EmptySlot == [conn |-> NoConn, state |-> "none", job |-> 0, keep |-> FALSE,
              reused |-> FALSE, late |-> FALSE, unscanned |-> FALSE, answer |-> "none"]
NoRejection == [conn |-> NoConn, permit |-> FALSE, writing |-> FALSE, late |-> FALSE]
NoEvents == [wake |-> FALSE, listener |-> FALSE, conns |-> {}, rejection |-> NoConn]

SlotStates == [conn : Conn \cup {NoConn},
               state : {"none", "header", "body", "request", "handler", "write"},
               job : Nat, keep : BOOLEAN, reused : BOOLEAN, late : BOOLEAN,
               unscanned : BOOLEAN, answer : Answers]

NewSocket == [at |-> "out", sent |-> 0, read |-> 0, done |-> 0,
              left |-> FALSE, served |-> FALSE]

Sockets == [at : {"out", "backlog", "pending", "slot", "rejecting", "closed", "dropped"},
            sent : Nat, read : Nat, done : Nat,
            left : BOOLEAN, served : BOOLEAN]

TypeOK ==
    /\ setup \in Setups
    /\ net \in [sock : [Conn -> Sockets], slots : [Slot -> SlotStates],
               free : Seq(Slot), pending : Seq(Conn)]
    /\ rejecting \in [conn : Conn \cup {NoConn}, permit : BOOLEAN,
                      writing : BOOLEAN, late : BOOLEAN]
    /\ retry \in BOOLEAN /\ stop \in BOOLEAN
    /\ reactor \in [at : ReactorLabels, slot : 0..setup.active,
                   events : [wake : BOOLEAN, listener : BOOLEAN,
                             conns : SUBSET (Slot \X Conn \X Nat),
                             rejection : Conn \cup {NoConn}]]
    /\ jobs \in Seq(Request) /\ due \subseteq Request /\ early \subseteq Request
    /\ DOMAIN replies \subseteq Request
    /\ handler \in [at : HandlerLabels, job : Request \cup {NoRequest},
                   answer : {"none", "ok", "error"}]
    /\ wake \in [byte : BOOLEAN, shut : BOOLEAN]
    /\ faults \in 0..MaxFaults

Init ==
    /\ setup \in Setups
    /\ net = [sock |-> [c \in Conn |-> NewSocket],
              slots |-> [s \in Slot |-> EmptySlot],
              free |-> [k \in Slot |-> setup.active + 1 - k],
              pending |-> <<>>]
    /\ rejecting = NoRejection /\ retry = FALSE
    /\ reactor = [at |-> "top", slot |-> 0, events |-> NoEvents]
    /\ jobs = <<>> /\ replies = <<>>
    /\ handler = [at |-> "idle", job |-> NoRequest, answer |-> "none"]
    /\ due = {} /\ early = {}
    /\ wake = [byte |-> FALSE, shut |-> FALSE]
    /\ stop = FALSE /\ faults = 0

-----------------------------------------------------------------------------
(* Connections.  An operator maps a value of net to the values it can become. *)

Fault == faults < MaxFaults /\ faults' = faults + 1

\* The pieces of c that arrived and are not read yet, and those read and not
\* parsed (the header's buffer, or the carry of an earlier request).
Unread(n, c) == n.sock[c].sent - n.sock[c].read
Buffered(n, c) == n.sock[c].read > n.sock[c].done
Readable(n, c) == Unread(n, c) > 0 \/ n.sock[c].left

Current(n, s) == <<n.slots[s].conn, n.slots[s].job>>

\* All that is remembered of a connection that is over.
Over(socket, at) == [NewSocket EXCEPT !.at = at, !.served = socket.served]

CloseSlot(n, s) ==
    [n EXCEPT !.sock[n.slots[s].conn] = Over(@, "closed"),
              !.slots[s] = EmptySlot,
              !.free = Append(@, s)]

\* State::Write.
StartWrite(n, s, answer, keep) ==
    [n EXCEPT !.slots[s] = [@ EXCEPT !.state = "write", !.answer = answer,
                 !.keep = keep, !.late = FALSE, !.unscanned = FALSE]]

\* Connection::deadline has passed.
Late(n, s) == \/ n.slots[s].late
              \/ n.slots[s].state = "handler" /\ Current(n, s) \in due

\* Seeded fault: a request is left to its handler however long it takes.
ExpireNoHandler(n, s) ==
    IF ~Late(n, s) \/ n.slots[s].state = "handler" THEN n
    ELSE IF n.slots[s].state = "write"
    THEN CloseSlot([n EXCEPT !.sock[n.slots[s].conn].served = TRUE], s)
    ELSE StartWrite(n, s, "response", FALSE)

\* Connection::expire.
Expire(n, s) ==
    IF ~Late(n, s) THEN n
    ELSE CASE n.slots[s].state = "write" ->
                CloseSlot([n EXCEPT !.sock[n.slots[s].conn].served = TRUE], s)
           [] n.slots[s].state = "handler" -> StartWrite(n, s, "timeout", FALSE)
           [] OTHER -> StartWrite(n, s, "response", FALSE)

\* The request of s is complete; its last piece is e.
Complete(n, s, e) ==
    [n EXCEPT !.sock[n.slots[s].conn].done = e,
              !.slots[s] = [@ EXCEPT !.state = "request", !.unscanned = FALSE,
                                     !.late = FALSE]]

\* The scan of Header::poll over what is buffered.
ScanHeader(n, s) ==
    LET c == n.slots[s].conn
        ends == {e \in n.sock[c].done + 1..n.sock[c].read : setup.script[c][e] \in {"r", "h"}}
        e == CHOOSE x \in ends : \A y \in ends : x <= y
    IN {StartWrite(n, s, "response", FALSE),
        IF ends = {} THEN [n EXCEPT !.slots[s].unscanned = FALSE]
        ELSE IF setup.script[c][e] = "r" THEN Complete(n, s, e)
        ELSE IF e < n.sock[c].read THEN Complete(n, s, e + 1)
        ELSE [n EXCEPT !.sock[c].done = e, !.slots[s].state = "body",
                       !.slots[s].unscanned = FALSE]}

\* Header::poll reads only when everything buffered has been scanned.  The end
\* of a reused connection between two requests needs no answer.
PollHeader(n, s) ==
    LET c == n.slots[s].conn IN
    IF n.slots[s].unscanned THEN ScanHeader(n, s)
    ELSE IF Unread(n, c) > 0
         THEN UNION {ScanHeader([n EXCEPT !.sock[c].read = k], s) :
                        k \in n.sock[c].read + 1..n.sock[c].sent}
    ELSE IF ~n.sock[c].left THEN {n}
    ELSE {StartWrite(n, s, "response", FALSE)} \cup
         (IF n.slots[s].reused /\ ~Buffered(n, c) THEN {CloseSlot(n, s)} ELSE {})

\* Body::poll.
PollBody(n, s) ==
    LET c == n.slots[s].conn
        e == n.sock[c].read + 1
    IN IF Unread(n, c) > 0
       THEN {StartWrite(n, s, "response", FALSE),
             Complete([n EXCEPT !.sock[c].read = e], s, e)}
       ELSE IF n.sock[c].left THEN {StartWrite(n, s, "response", FALSE)} ELSE {n}

\* A connection is not kept while others wait for a slot.
AllowReuse(n) == n.pending = <<>>

\* Writing::poll: not everything fits, the peer is gone, or the answer is out
\* and the connection is closed or waits for the next request.
PollWrite(n, s) ==
    LET c == n.slots[s].conn
        m == [n EXCEPT !.sock[c].served = TRUE]
    IN {n} \cup (IF n.sock[c].left THEN {CloseSlot(m, s)} ELSE {})
       \cup {IF n.slots[s].keep /\ AllowReuse(n)
             THEN [m EXCEPT !.slots[s] = [EmptySlot EXCEPT
                        !.conn = c, !.state = "header", !.job = n.slots[s].job,
                        !.reused = TRUE, !.unscanned = Buffered(n, c)]]
             ELSE CloseSlot(m, s)}

\* Connection::poll.
PollConnection(n, s) ==
    LET m == Expire(n, s) IN
    CASE m.slots[s].state = "header" -> PollHeader(m, s)
      [] m.slots[s].state = "body"   -> PollBody(m, s)
      [] m.slots[s].state = "write"  -> PollWrite(m, s)
      [] OTHER -> {m}

\* Seeded fault: any connection that sent nothing yet is taken for idle.
IdleAny(n, s) ==
    LET c == n.slots[s].conn IN
    /\ n.slots[s].state = "header"
    /\ ~Buffered(n, c) /\ Unread(n, c) = 0

\* A kept connection on which nothing of the next request is to be seen.
Idle(n, s) ==
    LET c == n.slots[s].conn IN
    /\ n.slots[s].state = "header" /\ n.slots[s].reused
    /\ ~Buffered(n, c) /\ Unread(n, c) = 0

\* promote_pending: the first idle connection gives up its slot if there is no
\* other,
Evict(n) ==
    LET idle == {s \in Slot : Idle(n, s)} IN
    IF n.pending # <<>> /\ n.free = <<>> /\ idle # {}
    THEN CloseSlot(n, CHOOSE s \in idle : \A t \in idle : s <= t) ELSE n

\* and pending connections take the free slots in order.
Filled(n) == IF Len(n.pending) < Len(n.free) THEN Len(n.pending) ELSE Len(n.free)
Fill(n) ==
    LET k == Filled(n)
        taken == [i \in 1..k |-> n.free[Len(n.free) + 1 - i]]
        first == {n.pending[i] : i \in 1..k}
    IN [sock    |-> [c \in Conn |-> IF c \in first THEN [n.sock[c] EXCEPT !.at = "slot"]
                                    ELSE n.sock[c]],
        slots   |-> [s \in Slot |-> IF s \in ToSet(taken)
                       THEN [EmptySlot EXCEPT !.state = "header",
                               !.conn = n.pending[CHOOSE i \in 1..k : taken[i] = s]]
                       ELSE n.slots[s]],
        free    |-> SubSeq(n.free, 1, Len(n.free) - k),
        pending |-> SubSeq(n.pending, k + 1, Len(n.pending))]

Promote(n) == Fill(Evict(n))

\* The end of the rejected connection's stay, whether or not its 503 was written:
\* more than this is not promised to it.
EndRejection(n, r) ==
    <<[n EXCEPT !.sock[r.conn] = Over([@ EXCEPT !.served = TRUE], "closed")], NoRejection>>

WriteRejection(n, r) == {<<n, r>>, EndRejection(n, r)}

\* HttpRejection::poll: read the header for a while, then write the answer.
PollRejection(n, r) ==
    LET c == r.conn
        read == [n EXCEPT !.sock[c].read = n.sock[c].sent]
        begun == [r EXCEPT !.writing = TRUE, !.late = FALSE]
    IN CASE r.writing /\ r.late -> {EndRejection(n, r)}
         [] r.writing /\ ~r.late -> WriteRejection(n, r)
         [] ~r.writing /\ r.late -> WriteRejection(n, begun)
         [] OTHER ->
              IF Unread(n, c) > 0
              THEN WriteRejection(read, begun) \cup
                   (IF \E e \in n.sock[c].read + 1..n.sock[c].sent : setup.script[c][e] # "p"
                    THEN {} ELSE {<<read, r>>})
              ELSE IF n.sock[c].left
                   THEN WriteRejection(n, begun) \cup {EndRejection(n, r)}
              ELSE {<<n, r>>}

\* connection_count: every permit is a field of what it counts.
Permits == Len(net.pending) + Cardinality({s \in Slot : net.slots[s].conn # NoConn})
           + (IF rejecting.permit THEN 1 ELSE 0)

-----------------------------------------------------------------------------
(* Reactor::run *)

\* Seeded fault: deadlines are looked at before responses.
AfterSwapped(phase) ==
    CASE phase = "top" -> "expire"       [] phase = "expire" -> "observe"
      [] phase = "observe" -> "dispatch" [] phase = "dispatch" -> "poll"

\* The phases of a round; responses are looked at before deadlines.
After(phase) ==
    CASE phase = "top" -> "observe"      [] phase = "observe" -> "expire"
      [] phase = "expire" -> "dispatch"  [] phase = "dispatch" -> "poll"

NextPhase == reactor' = [reactor EXCEPT !.at = After(@), !.slot = 0]

\* The I/O thread returns: its sockets close, response channels disconnect.
Ends ==
    /\ reactor' = [reactor EXCEPT !.at = "end", !.slot = 0, !.events = NoEvents]
    /\ net' = [sock |-> [c \in Conn |->
                  IF net.sock[c].at \in {"backlog", "pending", "slot", "rejecting"}
                  THEN Over(net.sock[c], "dropped") ELSE net.sock[c]],
               slots |-> [s \in Slot |-> EmptySlot],
               free |-> [k \in Slot |-> setup.active + 1 - k], pending |-> <<>>]
    /\ rejecting' = NoRejection /\ retry' = FALSE
    /\ replies' = <<>> /\ early' = {}

Forget(requests) == [r \in DOMAIN replies \ requests |-> replies[r]]

\* Requests the I/O thread or the interpreter's loop still looks after.
Live == {Current(net, s) : s \in {t \in Slot : net.slots[t].state = "handler"}}
        \cup ToSet(jobs) \cup (IF handler.at = "run" THEN {handler.job} ELSE {})

Top ==
    /\ reactor.at = "top"
    /\ IF stop THEN Ends
       ELSE /\ NextPhase /\ early' = DOMAIN replies
            /\ UNCHANGED <<net, rejecting, retry, replies>>
    /\ due' = due \cap Live
    /\ UNCHANGED <<setup, jobs, handler, wake, stop, faults>>

\* The slots this phase still has to visit.
Ahead == {s \in Slot : s > reactor.slot}
Visit(s, wanted) == s \in wanted /\ \A t \in wanted : s <= t

\* One slot of observe_completions; the budget may replace the answer by an
\* error, and only a success keeps the connection.
Observe ==
    /\ reactor.at = "observe"
    /\ LET waiting == {s \in Ahead : net.slots[s].state = "handler"} IN
       \/ waiting = {} /\ NextPhase /\ UNCHANGED <<net, replies>>
       \/ \E s \in waiting :
            /\ Visit(s, waiting)
            /\ reactor' = [reactor EXCEPT !.slot = s]
            /\ LET r == Current(net, s) IN
               IF r \in DOMAIN replies
               THEN /\ \E answer \in {replies[r], "error"} :
                         net' = StartWrite(net, s, "response",
                                  net.slots[s].keep /\ AllowReuse(net) /\ answer = "ok")
                    /\ replies' = Forget({r})
               ELSE UNCHANGED <<net, replies>>
    /\ UNCHANGED <<setup, rejecting, retry, jobs, handler, due, wake, stop, early, faults>>

\* What a pass over the slots does to one of them: expire_connections,
\* advance_buffered_headers, and the events of connections unless the slot has
\* changed hands since poll.
Turn(pass, n, s) ==
    CASE pass = "expire" -> {Expire(n, s)}
      [] pass = "headers" ->
            IF n.slots[s].unscanned THEN PollConnection(n, s) ELSE {n}
      [] pass = "events" ->
            IF <<s, n.slots[s].conn, n.slots[s].job>> \in reactor.events.conns
            THEN PollConnection(n, s) ELSE {n}

\* A pass visits the slots in order.
Pass(pass, n) ==
    LET upTo[k \in 0..setup.active] ==
          IF k = 0 THEN {n} ELSE UNION {Turn(pass, m, k) : m \in upTo[k - 1]}
    IN upTo[setup.active]

\* expire_connections, promote_pending and advance_buffered_headers, which
\* share nothing with the other thread but the channels of the requests that
\* expire, and those disconnect.
ExpireConnections ==
    /\ reactor.at = "expire"
    /\ LET lost == {Current(net, s) : s \in {t \in Slot :
                      net.slots[t].state = "handler" /\ Late(net, t)}} IN
       replies' = Forget(lost)
    /\ \E n \in Pass("expire", net) : net' \in Pass("headers", Promote(n))
    /\ early' = {}
    /\ NextPhase
    /\ UNCHANGED <<setup, rejecting, retry, jobs, handler, due, wake, stop, faults>>

\* The rejected connection has its turn.
PollRejecting(n) ==
    IF rejecting.conn = NoConn THEN net' = n /\ UNCHANGED rejecting
    ELSE \E x \in PollRejection(n, rejecting) : net' = x[1] /\ rejecting' = x[2]

\* One slot of dispatch_requests; after the last the rejected connection has
\* its turn and stop is read again.
Dispatch ==
    /\ reactor.at = "dispatch"
    /\ LET wanted == {s \in Ahead : net.slots[s].state = "request"} IN
       \/ wanted = {} /\ stop /\ Ends /\ UNCHANGED jobs
       \/ wanted = {} /\ ~stop /\ NextPhase /\ PollRejecting(net)
          /\ UNCHANGED <<retry, jobs, replies, early>>
       \/ \E s \in wanted, keep \in BOOLEAN :
            /\ Visit(s, wanted)
            /\ reactor' = [reactor EXCEPT !.slot = s]
            /\ LET c == net.slots[s].conn
                   n == [net EXCEPT !.slots[s].job = net.sock[c].done]
               IN IF Len(jobs) < setup.active
                  THEN /\ jobs' = Append(jobs, Current(n, s))
                       /\ net' = [n EXCEPT !.slots[s].state = "handler",
                                           !.slots[s].keep = keep]
                  ELSE /\ net' = StartWrite(n, s, "response", FALSE)
                       /\ UNCHANGED jobs
            /\ UNCHANGED <<rejecting, retry, replies, early>>
    /\ UNCHANGED <<setup, handler, due, wake, stop, faults>>

\* What poll finds ready; sockets that are written to are ready when their
\* peer reads.
ReadyEvents ==
    {[wake |-> wake.byte \/ wake.shut,
      listener |-> rejecting.conn = NoConn /\ ~retry
                   /\ \E c \in Conn : net.sock[c].at = "backlog",
      conns |-> {<<s, net.slots[s].conn, net.slots[s].job>> : s \in writable \cup
                    {t \in Slot : net.slots[t].state \in {"header", "body"}
                                  /\ Readable(net, net.slots[t].conn)}},
      rejection |-> r] :
     writable \in SUBSET {s \in Slot : net.slots[s].state = "write"},
     r \in {NoConn, rejecting.conn}}

DeadlinePassed == (\E s \in Slot : Late(net, s)) \/ rejecting.late

\* netpoll::wait, which blocks, and the stop flag after it.
Poll ==
    /\ reactor.at = "poll"
    /\ \E events \in ReadyEvents :
         /\ DeadlinePassed \/ events # NoEvents
         /\ rejecting.conn # NoConn /\ ~rejecting.writing =>
              (events.rejection # NoConn <=> Readable(net, rejecting.conn))
         /\ IF stop THEN Ends
            ELSE /\ reactor' = [at |-> "events", slot |-> 0, events |-> events]
                 /\ UNCHANGED <<net, rejecting, retry, replies, early>>
    /\ UNCHANGED <<setup, jobs, handler, due, wake, stop, faults>>

\* netpoll::wait or accept fails for good.
ReactorFails ==
    /\ reactor.at = "poll" \/ (reactor.at = "events" /\ reactor.events.listener)
    /\ Fault /\ Ends
    /\ UNCHANGED <<setup, jobs, handler, due, wake, stop>>

\* WakePair::drain.
DrainWake ==
    /\ reactor.at = "events" /\ reactor.events.wake
    /\ IF wake.shut THEN Ends /\ UNCHANGED wake
       ELSE /\ wake' = [wake EXCEPT !.byte = FALSE]
            /\ reactor' = [reactor EXCEPT !.events.wake = FALSE]
            /\ UNCHANGED <<net, rejecting, retry, replies, early>>
    /\ UNCHANGED <<setup, jobs, handler, due, stop, faults>>

ListenerDone == reactor' = [reactor EXCEPT !.events.listener = FALSE]

\* One turn of accept_connections; HTTP_ACCEPT_BATCH is never reached.
Accept ==
    /\ reactor.at = "events" /\ ~reactor.events.wake /\ reactor.events.listener
    /\ LET waiting == {c \in Conn : net.sock[c].at = "backlog"} IN
       \/ /\ rejecting.conn # NoConn \/ stop \/ waiting = {}
          /\ ListenerDone
          /\ UNCHANGED <<net, rejecting>>
       \/ /\ rejecting.conn = NoConn /\ ~stop
          /\ \E c \in waiting :
               IF Permits < setup.connections /\ Len(net.pending) < setup.pending
               THEN /\ net' = Promote([net EXCEPT !.sock[c].at = "pending",
                                                  !.pending = Append(@, c)])
                    /\ UNCHANGED rejecting
               ELSE /\ rejecting' = [NoRejection EXCEPT !.conn = c,
                                        !.permit = Permits < setup.connections]
                    /\ net' = [net EXCEPT !.sock[c].at = "rejecting"]
          /\ UNCHANGED reactor
    /\ UNCHANGED <<setup, retry, jobs, replies, handler, due, wake, stop, early, faults>>

\* accept reports the error of a connection that is gone: the listener rests.
AcceptTransient ==
    /\ reactor.at = "events" /\ ~reactor.events.wake /\ reactor.events.listener
    /\ rejecting.conn = NoConn /\ ~stop
    /\ Fault
    /\ retry' = TRUE
    /\ ListenerDone
    /\ UNCHANGED <<setup, net, rejecting, jobs, replies, handler, due, wake, stop, early>>

\* The events of connections, and at last the rejection's.
ConnectionEvents ==
    /\ reactor.at = "events" /\ ~reactor.events.wake /\ ~reactor.events.listener
    /\ \E n \in Pass("events", net) :
         IF reactor.events.rejection = rejecting.conn THEN PollRejecting(n)
         ELSE net' = n /\ UNCHANGED rejecting
    /\ reactor' = [reactor EXCEPT !.at = "top", !.events = NoEvents]
    /\ UNCHANGED <<setup, retry, jobs, replies, handler, due, wake, stop, early, faults>>

-----------------------------------------------------------------------------
(* run_http_listener *)

HandlerGoes(from, to) == handler.at = from /\ handler' = [handler EXCEPT !.at = to]

\* The loop's turn: poll_termination, and next_job's look at the I/O thread.
LoopTurn ==
    /\ \/ reactor.at # "end" /\ HandlerGoes("idle", "recv")
       \/ reactor.at = "end" /\ HandlerGoes("idle", "stop")
    /\ UNCHANGED <<setup, net, rejecting, retry, reactor, jobs, replies, due, wake, stop, early, faults>>

\* The interpreter is told to terminate.
Terminate ==
    /\ HandlerGoes("idle", "stop")
    /\ UNCHANGED <<setup, net, rejecting, retry, reactor, jobs, replies, due, wake, stop, early, faults>>

\* recv_timeout brings a job, which is not run if its deadline passed in the
\* queue, or finds none in time, or no sender.
NextJob ==
    /\ handler.at = "recv"
    /\ \/ /\ jobs # <<>>
          /\ jobs' = Tail(jobs)
          /\ handler' = IF Head(jobs) \in due
                  THEN [at |-> "publish", job |-> Head(jobs), answer |-> "error"]
                  ELSE [at |-> "run", job |-> Head(jobs), answer |-> "none"]
       \/ /\ jobs = <<>>
          /\ HandlerGoes("recv", IF reactor.at = "end" THEN "stop" ELSE "idle")
          /\ UNCHANGED jobs
    /\ UNCHANGED <<setup, net, rejecting, retry, reactor, replies, due, wake, stop, early, faults>>

\* The handler returns; too late, its value is replaced by an error.
HandlerReturns ==
    /\ \E answer \in {"ok", "error"} :
         /\ handler.at = "run"
         /\ handler' = [handler EXCEPT !.at = "publish",
                          !.answer = IF handler.job \in due THEN "error" ELSE answer]
    /\ UNCHANGED <<setup, net, rejecting, retry, reactor, jobs, replies, due, wake, stop, early, faults>>

\* The I/O thread still waits for this request.
ReceiverOpen(r) == \E s \in Slot : net.slots[s].state = "handler" /\ Current(net, s) = r

\* Seeded fault: an I/O thread that is busy needs no wake-up.
PublishQuietly ==
    /\ HandlerGoes("publish", IF ReceiverOpen(handler.job) /\ reactor.at = "poll"
                              THEN "notify" ELSE "idle")
    /\ replies' = IF ReceiverOpen(handler.job)
                  THEN [r \in DOMAIN replies \cup {handler.job} |->
                          IF r = handler.job THEN handler.answer ELSE replies[r]]
                  ELSE replies
    /\ UNCHANGED <<setup, net, rejecting, retry, reactor, jobs, due, wake, stop, early, faults>>

\* HttpIoReply::respond: the response, if its channel is still there.
Publish ==
    /\ HandlerGoes("publish", IF ReceiverOpen(handler.job) THEN "notify" ELSE "idle")
    /\ replies' = IF ReceiverOpen(handler.job)
                  THEN [r \in DOMAIN replies \cup {handler.job} |->
                          IF r = handler.job THEN handler.answer ELSE replies[r]]
                  ELSE replies
    /\ UNCHANGED <<setup, net, rejecting, retry, reactor, jobs, due, wake, stop, early, faults>>

\* WakeSender::notify; its failure ends the listener.
Notify ==
    /\ \/ /\ HandlerGoes("notify", "idle")
          /\ wake' = [wake EXCEPT !.byte = TRUE]
          /\ UNCHANGED faults
       \/ /\ HandlerGoes("notify", "stop")
          /\ Fault
          /\ UNCHANGED wake
    /\ UNCHANGED <<setup, net, rejecting, retry, reactor, jobs, replies, due, stop, early>>

\* Drop for HttpIo: the flag, then the wake-up, then the join.
SetStop ==
    /\ HandlerGoes("stop", "wakeup")
    /\ stop' = TRUE
    /\ UNCHANGED <<setup, net, rejecting, retry, reactor, jobs, replies, due, wake, early, faults>>

WakeUp ==
    /\ HandlerGoes("wakeup", "join")
    /\ \/ wake' = [wake EXCEPT !.byte = TRUE] /\ UNCHANGED faults
       \/ Fault /\ wake' = [wake EXCEPT !.shut = TRUE]
    /\ UNCHANGED <<setup, net, rejecting, retry, reactor, jobs, replies, due, stop, early>>

Join ==
    /\ reactor.at = "end"
    /\ handler.at = "join"
    /\ handler' = [at |-> "end", job |-> NoRequest, answer |-> "none"]
    /\ jobs' = <<>>
    /\ UNCHANGED <<setup, net, rejecting, retry, reactor, replies, due, wake, stop, early, faults>>

-----------------------------------------------------------------------------
(* Clients and time *)

\* The I/O thread looks at sockets in poll, in the round of events after it and
\* before it dispatches.  What a client does at another point of the round has
\* the effect of doing it just before one of these.
Seen == reactor.at \in {"expire", "poll"}

Open(c) == Seen /\ net.sock[c].at \in {"backlog", "pending", "slot", "rejecting"}

Connect(c) ==
    /\ c \in DOMAIN setup.script /\ net.sock[c].at = "out" /\ Seen
    /\ net' = [net EXCEPT !.sock[c].at = "backlog"]
    /\ UNCHANGED <<setup, rejecting, retry, reactor, jobs, replies, handler, due, wake, stop, early, faults>>

SendPiece(c) ==
    /\ Open(c) /\ ~net.sock[c].left /\ net.sock[c].sent < Len(setup.script[c])
    /\ net' = [net EXCEPT !.sock[c].sent = @ + 1]
    /\ UNCHANGED <<setup, rejecting, retry, reactor, jobs, replies, handler, due, wake, stop, early, faults>>

Leave(c) ==
    /\ Open(c) /\ ~net.sock[c].left
    /\ Fault
    /\ net' = [net EXCEPT !.sock[c].left = TRUE]
    /\ UNCHANGED <<setup, rejecting, retry, reactor, jobs, replies, handler, due, wake, stop, early>>

\* The deadline of a header, a body or a write passes.
SocketDeadline(s) ==
    /\ net.slots[s].state \in {"header", "body", "write"} /\ ~net.slots[s].late
    /\ net' = [net EXCEPT !.slots[s].late = TRUE]
    /\ UNCHANGED <<setup, rejecting, retry, reactor, jobs, replies, handler, due, wake, stop, early, faults>>

\* The handler deadline of a request passes.
RequestDeadline(r) ==
    /\ r \in Live \ due
    /\ due' = due \cup {r}
    /\ UNCHANGED <<setup, net, rejecting, retry, reactor, jobs, replies, handler, wake, stop, early, faults>>

\* drain_deadline or write_deadline of the rejected connection.
RejectionDeadline ==
    /\ rejecting.conn # NoConn /\ ~rejecting.late
    /\ rejecting' = [rejecting EXCEPT !.late = TRUE]
    /\ UNCHANGED <<setup, net, retry, reactor, jobs, replies, handler, due, wake, stop, early, faults>>

RetryDeadline ==
    /\ retry /\ retry' = FALSE
    /\ UNCHANGED <<setup, net, rejecting, reactor, jobs, replies, handler, due, wake, stop, early, faults>>

-----------------------------------------------------------------------------
ReactorStep ==
    \/ Top \/ Observe \/ ExpireConnections \/ Dispatch
    \/ Poll \/ DrainWake \/ Accept \/ ConnectionEvents

LoopStep ==
    LoopTurn \/ NextJob \/ Publish \/ Notify \/ SetStop \/ WakeUp \/ Join

Deadlines ==
    \/ \E s \in Slot : SocketDeadline(s)
    \/ \E r \in Live : RequestDeadline(r)
    \/ RejectionDeadline
    \/ RetryDeadline

Next ==
    \/ ReactorStep \/ LoopStep \/ Deadlines
    \/ HandlerReturns \/ Terminate
    \/ ReactorFails \/ AcceptTransient
    \/ \E c \in Conn : Connect(c) \/ SendPiece(c) \/ Leave(c)

\* Both threads run and time passes; a handler need not return, and clients
\* need not send or read.
Spec ==
    /\ Init /\ [][Next]_vars
    /\ WF_vars(ReactorStep) /\ WF_vars(LoopStep) /\ WF_vars(Deadlines)

-----------------------------------------------------------------------------
(* Properties *)

\* Every accepted connection is in one place, a slot is free or holds one
\* connection, the limits of connections and of the pending queue are kept, and
\* no connection that the running I/O thread closes goes without an answer,
\* unless its client was gone or too slow to take one, or had been answered
\* before; a rejected one may miss its 503 (HttpConnectionPermit, close_slot,
\* promote_pending's eviction).
ConnectionsKept ==
    /\ TypeOK
    /\ \A s \in Slot : net.slots[s].conn = NoConn <=> s \in ToSet(net.free)
    /\ Cardinality(ToSet(net.free)) = Len(net.free)
    /\ \A c \in Conn :
          /\ net.sock[c].at = "slot" <=> \E s \in Slot : net.slots[s].conn = c
          /\ net.sock[c].at = "pending" <=> c \in ToSet(net.pending)
          /\ net.sock[c].at = "closed" => net.sock[c].served
    /\ Len(net.pending) <= setup.pending
    /\ Permits <= setup.connections

\* The I/O thread never sleeps past a response that was published for a waiting
\* request, nor past the end of the listener: whoever published or stopped left
\* a wake-up or is about to (WakeSender::notify after try_send in respond, and
\* after the stop flag in Drop for HttpIo, with the half-close as a fallback).
NoLostWake ==
    reactor.at = "poll" =>
      /\ (\E s \in Slot : net.slots[s].state = "handler" /\ Current(net, s) \in DOMAIN replies)
         => wake.byte \/ handler.at \in {"notify", "stop", "wakeup", "join"}
      /\ handler.at = "join" => wake.byte \/ wake.shut

\* A response that was published before the I/O thread began its round is what
\* the client gets (or the error of a spent budget), even if the request's
\* deadline has passed since: the thread's own timeout does not replace it
\* (the order of observe_completions and expire_connections in Reactor::run).
PublishedWins ==
    [][\A s \in Slot :
         /\ net.slots[s].state = "handler" /\ net'.slots[s].state = "write"
         /\ Current(net, s) \in early
         => net'.slots[s].answer # "timeout"]_vars

\* Every connection that reaches the server is let go, though clients stall and
\* a handler may never return; and a listener that stops ends, its I/O thread
\* joined.  There are finitely many connections, so it is enough that the server
\* is at rest again and again (Connection::expire, expire_connections, Drop for
\* HttpIo).
ConnectionsEnd ==
    []<>(/\ \A c \in Conn : net.sock[c].at \in {"out", "closed", "dropped"}
         /\ handler.at \notin {"stop", "wakeup", "join"})

=============================================================================
