----------------------------- MODULE MCLiveParts -----------------------------
(* Instances of LiveParts for TLC. *)
EXTENDS LiveParts, MCFileLock

CONSTANTS t1, a, b, d

\* A call of run and a call of withSlot in two processes, for one slot.
MCCallerProc == (c1 :> p1) @@ (c2 :> p2)
MCTaskOf == c1 :> t1

\* Two calls with one key and a call without, for one place.
MCKeyOf == (a :> "k") @@ (b :> "k") @@ (d :> NoKey)
=============================================================================
