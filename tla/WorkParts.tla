------------------------------- MODULE WorkParts -------------------------------
(***************************************************************************)
(* The work on an assembly project by people and models: the requests on   *)
(* the project (whose definitions are this module's own), the cuts of one  *)
(* take, and the delivery of what was approved.  They share no state; one  *)
(* of them runs in each behaviour.                                         *)
(***************************************************************************)
EXTENDS AssemblyWork

CONSTANTS
  Length, Words, WordCells, CutCells, Fillers, FillerRanges, RhythmCells, MaxGap, MaxChanges,  \* of the take
  Deliveries, First, Second, MaxFaults   \* of the delivery: its requests and the videos

VARIABLES
  part,   \* which one runs
  removed, protected, fillers, rhythm, exceptions, named, restored, changes,
  approved, reference, recorded, dest, lock, record, pid, port, request, bridge, faults

tVars == <<removed, protected, fillers, rhythm, exceptions, named, restored, changes>>

T == INSTANCE Takes

\* Requests of any kind.
D == INSTANCE Delivery WITH
  Call <- Deliveries, Kinds <- [Deliveries -> {"export", "confirm", "open", "copy", "drp"}],
  project <- approved, call <- request

ASSUME WorkPartsAssumption == T!TakesAssumption /\ D!DeliveryAssumption

dVars == <<approved, reference, recorded, dest, lock, record, pid, port, request, bridge, faults>>

\* A part that does not run stands still in one state.
NoWork ==
  /\ project = [rev |-> 1, sources |-> {}, analysed |-> {}, uses |-> {}, proposal |-> None, head |-> 1, steps |-> <<>>]
  /\ photos = [r \in {0} |-> {}] /\ file = [k \in FileKinds |-> None]
  /\ operation = "idle" /\ gen = 0 /\ controller = 0 /\ previews = {}
  /\ cancelled = FALSE /\ inFlight = FALSE /\ call = [c \in Call |-> Quiet]
NoDelivery == dest = D!Nowhere /\ \A r \in DOMAIN request : request[r].kind = "export"

WorkInit ==
  /\ T!Init /\ D!Init
  /\ \/ part = "assembly" /\ Init /\ NoDelivery
     \/ part = "take" /\ NoWork /\ NoDelivery
     \/ part = "delivery" /\ NoWork
WorkNext ==
  \/ part = "assembly" /\ Next /\ UNCHANGED <<part, tVars, dVars>>
  \/ part = "take" /\ T!Next /\ UNCHANGED <<part, vars, dVars>>
  \/ part = "delivery" /\ D!Next /\ UNCHANGED <<part, vars, tVars>>
WorkSpec == WorkInit /\ [][WorkNext]_<<part, vars, tVars, dVars>>

-----------------------------------------------------------------------------
(* Properties                                                              *)

\* No request takes a word that it does not name and that overlaps no other, other
\* speech than it asks for, or what is protected.
OnlyTheNamedGoes == T!OnlyTheNamedGoes

\* Words that are restored are heard, whichever layer or hand had removed them,
\* unless they overlap others.
RestoredIsHeard == T!RestoredIsHeard

\* What stands in exports/ is whole and of a video the project has recorded.
DeliveredWasRecorded == D!DeliveredWasRecorded

\* A delivery that was interrupted never passes for one under way.
OpensAgain == D!OpensAgain

\* The copy in Resolve stays the one that is opened until another is asked for.
KeepsTheCopy == D!KeepsTheCopy
=============================================================================
