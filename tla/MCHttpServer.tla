---------------------------- MODULE MCHttpServer ----------------------------
(* Three situations: a connection waits for the slot of another, a request  *)
(* with a body has another one behind it, a connection gets no permit.      *)
EXTENDS HttpServer, TLC

CONSTANTS c1, c2

\* A kept connection and one that waits for its slot.
Kept == [active |-> 1, pending |-> 1, connections |-> 2,
         script |-> (c1 :> <<"r">>) @@ (c2 :> <<"r">>)]

\* A request with a body, pipelined with the next one.
Body == [active |-> 1, pending |-> 1, connections |-> 1,
         script |-> (c1 :> <<"h", "b", "r">>)]

\* No permit for the second connection.
Full == [active |-> 1, pending |-> 1, connections |-> 1,
         script |-> (c1 :> <<>>) @@ (c2 :> <<"r">>)]

Situations == {Kept, Body, Full}
=============================================================================
