---------------------------- MODULE MCScopeExit ----------------------------
(* Instances of ScopeExit for TLC. *)
EXTENDS ScopeExit

\* The usual frame, and one whose inner scope and returned value hide their
\* tasks and that keeps no witnesses.
PlainAndOpaque == {[opaque |-> {}, witnessed |-> TRUE],
                   [opaque |-> {0, 1}, witnessed |-> FALSE]}

=============================================================================
