---------------------------- MODULE MCProjectStore ----------------------------
(* Instances of ProjectStore for TLC. *)
EXTENDS ProjectStore, TLC

CONSTANTS c1, c2

MCClient == {c1, c2}
Browsers == Permutations(Client)
=============================================================================
