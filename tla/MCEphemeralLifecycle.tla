------------------------ MODULE MCEphemeralLifecycle ------------------------
(* Small instances of EphemeralLifecycle: one process, which may be killed and *)
(* started again, its threads, handlers and collector runs.                   *)
EXTENDS EphemeralLifecycle, TLC

CONSTANT p1

MCProcOf == [a \in Activity |-> p1]

DirSymmetry == Permutations(Dir)

=============================================================================
