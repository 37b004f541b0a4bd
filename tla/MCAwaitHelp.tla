---------------------------- MODULE MCAwaitHelp ----------------------------
(* Instances of AwaitHelp for TLC: who starts and who may await which task. *)
EXTENDS AwaitHelp, TLC

CONSTANTS a, b, c

\* Root starts a and b, a starts c: a forest two levels deep.
ForestCreator == (a :> Root) @@ (b :> Root) @@ (c :> a)

\* Everybody may await what it started.  Besides, handles travel: Root hands a
\* to b and b to a and, through it, to c, so that waits can close a cycle.
TravellingAwait ==
    (Root :> {a, b}) @@ (a :> {b, c}) @@ (b :> {a}) @@ (c :> {b})

=============================================================================
