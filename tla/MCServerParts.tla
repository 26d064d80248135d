----------------------------- MODULE MCServerParts -----------------------------
(* Instances of ServerParts for TLC. *)
EXTENDS ServerParts, MCCoordinator

\* Renders are alike, and so are montages.
Alike == Permutations(Render) \cup Permutations(Montage)
=============================================================================
