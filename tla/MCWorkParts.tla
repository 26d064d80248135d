----------------------------- MODULE MCWorkParts -----------------------------
(* An instance of WorkParts for TLC. *)
EXTENDS WorkParts, TLC

\* A take "A(B) . . C . D": the second word is said while the first goes on, and its
\* end comes before that of the first.  The third may be a filler, or it and the fourth.
MCWordCells == <<1 .. 3, {2}, {6}, {8}>>
MCCutCells == <<1 .. 3, {2}, {6, 7}, {8}>>
MCFillers == {{3}, {3, 4}}
MCFillerRanges == ({3} :> {{6}, {5, 6}, {6, 7}}) @@ ({3, 4} :> {6 .. 8, 5 .. 8})
MCRhythmCells == [natural |-> {4}, direto |-> 3 .. 5]

\* Requests are alike, and so are sources.
Alike == Permutations(Call) \cup Permutations(Source) \cup Permutations(Deliveries)
=============================================================================
