--------------------------- MODULE MCCoordinator ---------------------------
(* Instances of Coordinator for TLC. *)
EXTENDS Coordinator, TLC

CONSTANTS c1, c2, c3, p1, p2, t1, t2

MCCallers == {c1, c2, c3}

\* c3, in the process of c2, competes with c1 and c2 for the slot.
TwoProcesses == (c1 :> p1) @@ (c2 :> p2) @@ (c3 :> p2)
OneProcess == [c \in MCCallers |-> p1]
\* c1 and c2 ask for the same task, or each for its own.
OneTask == [c \in {c1, c2} |-> t1]
OneEach == (c1 :> t1) @@ (c2 :> t2)
NoTasks == [c \in {} |-> t1]
=============================================================================
