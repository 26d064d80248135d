----------------------------- MODULE EditingParts -----------------------------
(***************************************************************************)
(* The two parts of the program where several pages edit one project: the  *)
(* corrections of its text (whose definitions are this module's own), and  *)
(* who holds the reservation. They share no state; one of them runs in     *)
(* each behaviour.                                                         *)
(***************************************************************************)
EXTENDS Corrections

CONSTANTS Page, First, Nobody, TTL, MaxIds, MaxEvents

VARIABLES part, file, life, tab, told, changing, again, sent, hail, events

E == INSTANCE EditReservation WITH id <- tab, req <- sent

eVars == <<file, life, tab, told, changing, again, sent, hail, events>>

EditingInit == Init /\ E!Init /\ part \in {"text", "reservation"}
EditingNext ==
  \/ part = "text" /\ Next /\ UNCHANGED <<part, eVars>>
  \/ part = "reservation" /\ E!Next /\ UNCHANGED <<part, vars>>

\* What is fair differs between the two: each liveness property says it.
EditingSpec == EditingInit /\ [][EditingNext]_<<part, vars, eVars>>

\* A correction does not stay pending for ever, whatever is interrupted.
CorrectionsSettle == Fairness => PendingSettles

\* A fresh reservation changes hands by Assumir Edição only, whatever is late.
LeaseHolds == E!LeaseHolds

\* Two pages that both believe they may edit do not go on believing it.
TwoEditorsEnd == E!Fairness => E!TwoEditorsEnd
=============================================================================
