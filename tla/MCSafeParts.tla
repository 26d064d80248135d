------------------------------ MODULE MCSafeParts ------------------------------
(***************************************************************************)
(* The parts that keep files consistent, on a small instance: a file of    *)
(* project "p", which project "q" may use too, and one of "q" of its own,  *)
(* so that both may be cleaned at a time; two uploads of the same bytes in *)
(* two pieces, two runtimes of one server, and a disk with room for the    *)
(* partials and copies of one and a half of them.                          *)
(***************************************************************************)
EXTENDS SafeParts, TLC

MCHomeOf == [f \in Files |-> IF f = "f" THEN "p" ELSE "q"]
MCWanted == [p \in Projects |-> IF p = "p" THEN {} ELSE {{"g"}, {"f", "g"}}]
MCOrder == <<"u", "v">>

\* The requests of a cut are alike.
Alike == Permutations(Requests)
=============================================================================
