------------------------------ MODULE ServerParts ------------------------------
(***************************************************************************)
(* Parts of the server that share no state, one of which runs in each      *)
(* behaviour: the coordinator's queue with its priorities in one process   *)
(* (whose definitions are this module's own), and the videos that renders  *)
(* leave on disk.                                                          *)
(***************************************************************************)
EXTENDS Coordinator, Sequences

CONSTANTS Render, Montage, MaxRevision, Kept, Failures   \* of the videos

VARIABLES
  part,   \* which one runs
  project, photo, exported, exporting, dir, cache, turns, render, failures

vVars == <<project, photo, exported, exporting, dir, cache, turns, render, failures>>

V == INSTANCE Previews WITH MaxFaults <- Failures, faults <- failures

ASSUME ServerPartsAssumption == V!PreviewsAssumption

ServerInit ==
  /\ Init /\ V!Init /\ part \in {"queue", "previews"}
ServerNext ==
  \/ part = "queue" /\ Next /\ UNCHANGED <<part, vVars>>
  \/ part = "previews" /\ V!Next /\ UNCHANGED <<part, vars>>
ServerSpec == ServerInit /\ [][ServerNext]_<<part, vars, vVars>>

\* A cached video is one of the montage and the encoder that its key names.
CacheIsWhatItsKeySays == V!CacheIsWhatItsKeySays

\* Pruning takes a preview or a photo that the project refers to only when the project was
\* changed more than Kept times meanwhile.
TakesOnlyOvertaken == V!TakesOnlyOvertaken
=============================================================================
