--------------------------- MODULE MCRegistryStore ---------------------------
(* Instances of RegistryStore for TLC. *)
EXTENDS RegistryStore

None == [requests |-> 3, faults |-> 0, syncs |-> 0, kills |-> 0, losses |-> 0,
         damages |-> 0, capacity |-> 2, fits |-> SUBSET Version, unsynced |-> FALSE]

\* A power loss with a failing operation; a process death with a failing
\* operation and a failing sync; a damaged index, with a process death and a
\* failing operation, or in a full package; a process death with two failing
\* operations, or where the items of two versions are over the limit.
OneDisaster ==
    {[None EXCEPT !.faults = 1, !.losses = 1],
     [None EXCEPT !.faults = 1, !.syncs = 1, !.kills = 1],
     [None EXCEPT !.faults = 1, !.kills = 1, !.damages = 1],
     [None EXCEPT !.requests = 2, !.faults = 2, !.kills = 1],
     [None EXCEPT !.requests = 4, !.damages = 1, !.capacity = 1],
     [None EXCEPT !.faults = 1, !.kills = 1, !.fits = SUBSET Version \ {Version}]}

\* A process death and later a power loss.
TwoDisasters == {[None EXCEPT !.kills = 1, !.losses = 1]}

=============================================================================
