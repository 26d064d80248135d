------------------------------ MODULE MCFileLock ------------------------------
(* Instances of FileLock for TLC. *)
EXTENDS FileLock, TLC

CONSTANTS c1, c2, c3, c4, p1, p2

MCCalls == {c1, c2, c3, c4}
\* Two calls in each of two processes.
MCProcOf == (c1 :> p1) @@ (c2 :> p1) @@ (c3 :> p2) @@ (c4 :> p2)
=============================================================================
