-------------------------- MODULE MCDebugSessions --------------------------
(* A small instance of DebugSessions: the sessions that a process of the agent  *)
(* leaves behind when it ends play the part of another agent's.                 *)
EXTENDS DebugSessions

CONSTANTS a1, s1, s2

\* The other calls change no set of sessions.
MCAsks == [a \in Agent |-> {"spawn", "kill", "triage", "bypass", "dump"}]

\* One branch that the zero flag decides, one that it decides in part, and one
\* outside the table of inversions.
SomeBranches == {"je", "jg", "other"}
=============================================================================
