------------------------------- MODULE SafeParts -------------------------------
(***************************************************************************)
(* The parts of the server that keep files consistent across failures: the *)
(* cut of a cleanup project (whose definitions are this module's own), the *)
(* cleanup of delivered projects and the uploads of media.  They share no  *)
(* state; one of them runs in each behaviour.                              *)
(***************************************************************************)
EXTENDS Cleanup

CONSTANTS
  Projects, Files, HomeOf, Wanted, Works, RegisterMayFail, CleanupFaults, \* ProjectCleanup's
  Order, Contents, Wrong, Runtimes, Pieces, Capacity, MediaFaults,        \* MediaUploads'
  Nobody

VARIABLES
  part,
  sources, where, tx, ledger, released, dirty, works, holder, pub, cleaning, scan, booting, pfaults,
  kind, content, upload, data, hash, object, receipt, files, metas, worker, places, patch, deleting,
  made, acked, canceled, dropped, mfaults

pVars == <<sources, where, tx, ledger, released, dirty, works, holder, pub, cleaning, scan, booting, pfaults>>
mVars == <<kind, content, upload, data, hash, object, receipt, files, metas, worker, places, patch,
           deleting, made, acked, canceled, dropped, mfaults>>

P == INSTANCE ProjectCleanup WITH
  MaxFaults <- CleanupFaults,
  disk <- where, index <- ledger, job <- cleaning, read <- scan, boot <- booting, faults <- pfaults

M == INSTANCE MediaUploads WITH
  None <- Nobody, MaxFaults <- MediaFaults,
  state <- upload, job <- worker, line <- places, faults <- mfaults

ASSUME SafePartsAssumption == P!ProjectCleanupAssumption /\ M!MediaUploadsAssumption

SafeInit ==
  /\ Init /\ P!Init /\ M!Init /\ part \in {"cut", "project", "media"}
  /\ part # "media" => \A u \in DOMAIN kind : kind[u] = "local"
SafeNext ==
  \/ part = "cut" /\ Next /\ UNCHANGED <<part, pVars, mVars>>
  \/ part = "project" /\ P!Next /\ UNCHANGED <<part, vars, mVars>>
  \/ part = "media" /\ M!Next /\ UNCHANGED <<part, vars, pVars>>
SafeSpec == SafeInit /\ [][SafeNext]_<<part, vars, pVars, mVars>>

\* No file that a project uses and did not give up leaves its place.
OthersKeepTheirFiles == part = "project" => P!OthersKeepTheirFiles

\* A file is deleted only after its project gave it up in the ledger.
DeletedIsGivenUp == part = "project" => P!DeletedIsGivenUp

\* Every file of the pool is under the hash of its own bytes, with its metadata.
MediaIsWhole == part = "media" => M!MediaIsWhole

\* What was promised to the uploads fits on the disk together.
PromisesFit == part = "media" => M!PromisesFit

\* What the server has accepted is somewhere: in the partial, the pool or the bucket.
NothingIsLost == part = "media" => M!NothingIsLost

\* After a DELETE took effect the upload is not published.
CanceledStaysOut == M!CanceledStaysOut
=============================================================================
