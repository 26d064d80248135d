-------------------------------- MODULE Delivery --------------------------------
(***************************************************************************)
(* What leaves a project: apps/cli/src/app/assembly/export.ts copies the   *)
(* approved video and its timeline to exports/<revision>, where a person   *)
(* confirms the import by hand, and delivery.ts has DaVinci Resolve make   *)
(* or open a project of it.                                                *)
(*                                                                         *)
(* One approved revision.  Its video may be rendered again, with other     *)
(* bytes, while it is delivered, and the project may be edited, which ends *)
(* what concerns the revision.  Of a delivery on disk there are the video, *)
(* the manifest that names it, the confirmation and the portable package.  *)
(* The server may die in any step and start again.                         *)
(***************************************************************************)
EXTENDS Naturals, Sequences

CONSTANTS
  Call,            \* requests
  Kinds,           \* what each of them may ask for: functions from Call to the kinds of New
  First, Second,   \* the videos that renders of the revision give
  None,
  MaxFaults        \* bound on writes that fail and bridges that hang

\* resolve-delivery.json: what an operation does or did, and the copy that was ready before.
RecordsWith(status, ready) ==
  [op : Call \cup {None}, name : Call \cup {"earlier"}, status : status, created : BOOLEAN, pid : Nat, ready : ready]
Ready == RecordsWith({"ready"}, {None})
Busy == RecordsWith({"running", "error"}, Ready \cup {None})

DeliveryAssumption ==
  /\ None \notin Call \cup {First, Second, "pending"} \cup Ready \cup Busy
  /\ First # Second /\ MaxFaults \in Nat

VARIABLES
  project,     \* the video it records, and whether the revision is over
  reference,   \* rev-<revision>/reference.mp4
  recorded,    \* the videos that the approved project has recorded
  dest,        \* exports/<revision>
  lock,        \* .rev-<revision>.lock: the pid in it, Blank, or None
  record,      \* resolve-delivery.json
  pid,         \* the server's process
  port,        \* who holds port 47789
  call,        \* a request
  bridge,      \* its Python process: what it has done, and whether anybody waits for it
  faults

vars == <<project, reference, recorded, dest, lock, record, pid, port, call, bridge, faults>>
files == <<project, reference, recorded, dest, lock, record>>

Blank == 0
Nowhere == [reference |-> None, manifest |-> None, confirmed |-> None, package |-> FALSE]

\* "kind": export, confirm, or a delivery: open (what there is, or a first one), copy,
\* drp (the file of what there is).
New(kind) ==
  [kind |-> kind, at |-> "loads", artifact |-> None, sha |-> None, tmp |-> None, failed |-> FALSE,
   previous |-> None, record |-> None, saves |-> <<>>, closed |-> FALSE]
Delivers(r) == call[r].kind \in {"open", "copy", "drp"}

\* A copy that was delivered before, by no request of these, or was about to be.
Earlier == [op |-> None, name |-> "earlier", status |-> "ready", created |-> TRUE, pid |-> 1, ready |-> None]

Init ==
  /\ project = [artifact |-> First, over |-> FALSE]
  /\ reference = First /\ recorded = {First}
  /\ dest \in {Nowhere, [Nowhere EXCEPT !.reference = First, !.manifest = First, !.confirmed = "pending"]}
  /\ record \in {None} \cup (IF dest = Nowhere THEN {} ELSE {Earlier, [Earlier EXCEPT !.status = "running"]})
  /\ lock = None /\ pid = 1 /\ port = None /\ faults = 0
  /\ \E kind \in Kinds : call = [r \in Call |-> New(kind[r])]
  /\ bridge = [r \in Call |-> "none"]

-----------------------------------------------------------------------------
(* The project                                                             *)

\* A render that began in this revision publishes its video, and then records it.
Render ==
  /\ reference = First /\ reference' = Second
  /\ UNCHANGED <<project, recorded, dest, lock, record, pid, port, call, bridge, faults>>
RecordPreview ==
  /\ reference # project.artifact /\ ~project.over
  /\ project' = [project EXCEPT !.artifact = reference] /\ recorded' = recorded \cup {reference}
  /\ UNCHANGED <<reference, dest, lock, record, pid, port, call, bridge, faults>>
Edit ==
  /\ ~project.over /\ project' = [project EXCEPT !.over = TRUE]
  /\ UNCHANGED <<reference, recorded, dest, lock, record, pid, port, call, bridge, faults>>

-----------------------------------------------------------------------------
(* Export                                                                  *)

Whole(d) == d.reference # None /\ d.reference = d.manifest /\ d.confirmed # None

\* Where a request goes on; an export that fails ends its request, or its delivery.
Is(r, new) == call' = [call EXCEPT ![r] = new]
Goes(r, at) == Is(r, [call[r] EXCEPT !.at = at])
After(r) == IF Delivers(r) THEN "records" ELSE "done"
Fails(r) == IF Delivers(r) THEN "catches" ELSE "done"

Loads(r) ==
  /\ call[r].at = "loads" /\ ~project.over
  /\ Is(r, [call[r] EXCEPT !.artifact = project.artifact,
                       !.at = CASE Delivers(r) -> "listens" [] call[r].kind = "confirm" -> "confirms" [] OTHER -> "checks"])
  /\ UNCHANGED <<files, pid, port, bridge, faults>>

\* What is exported is the video the project recorded, as it is on disk.
ExportableUnread(r) == ~project.over
Exportable(r) == ~project.over /\ reference = call[r].artifact
Checks(r) ==
  /\ call[r].at = "checks"
  /\ Is(r, [call[r] EXCEPT !.at = IF Exportable(r) THEN "locks" ELSE Fails(r), !.sha = reference])
  /\ UNCHANGED <<files, pid, port, bridge, faults>>

\* acquireExportLock: the file is made before the pid is in it.
Locks(r) ==
  /\ call[r].at \in {"locks", "locks again"}
  /\ IF lock = None THEN lock' = Blank /\ Goes(r, "signs")
     ELSE UNCHANGED lock /\ Goes(r, IF call[r].at = "locks" THEN "looks" ELSE Fails(r))
  /\ UNCHANGED <<project, reference, recorded, dest, record, pid, port, bridge, faults>>
Signs(r) ==
  /\ call[r].at = "signs" /\ Goes(r, "compares")
  /\ lock' = IF lock = None THEN None ELSE pid
  /\ UNCHANGED <<project, reference, recorded, dest, record, pid, port, bridge, faults>>
\* Only one process of the server lives.
Alive(p) == p = pid
Looks(r) ==
  /\ call[r].at = "looks" /\ Goes(r, IF Alive(lock) THEN Fails(r) ELSE "clears")
  /\ UNCHANGED <<files, pid, port, bridge, faults>>
Clears(r) ==
  /\ call[r].at = "clears" /\ Goes(r, "locks again") /\ lock' = None
  /\ UNCHANGED <<project, reference, recorded, dest, record, pid, port, bridge, faults>>

\* What is there already is taken, and a package added where it lacks.
Compares(r) ==
  /\ call[r].at = "compares"
  /\ Goes(r, CASE Whole(dest) /\ dest.manifest = call[r].sha /\ dest.package -> "unlocks"
               [] Whole(dest) /\ dest.manifest = call[r].sha -> "packs"
               [] OTHER -> "copies")
  /\ UNCHANGED <<files, pid, port, bridge, faults>>
Packs(r) ==
  /\ call[r].at = "packs"
  /\ IF dest # Nowhere
     THEN dest' = [dest EXCEPT !.package = TRUE] /\ Goes(r, "unlocks")
     ELSE UNCHANGED dest /\ Is(r, [call[r] EXCEPT !.at = "unlocks", !.failed = TRUE])
  /\ UNCHANGED <<project, reference, recorded, lock, record, pid, port, bridge, faults>>

\* The video is read again, and compared with what was checked.
Copies(r) ==
  /\ call[r].at = "copies"
  /\ Is(r, [call[r] EXCEPT !.at = "validates", !.tmp = reference])
  /\ UNCHANGED <<files, pid, port, bridge, faults>>
ValidUnread(r) == call[r].tmp # None
Valid(r) == call[r].tmp = call[r].sha
Validates(r) ==
  /\ call[r].at = "validates"
  /\ IF Valid(r) THEN Goes(r, "removes") ELSE Is(r, [call[r] EXCEPT !.at = "unlocks", !.failed = TRUE])
  /\ UNCHANGED <<files, pid, port, bridge, faults>>
\* rm of the folder takes its pieces away one after the other, in any order.  It fails where one cannot be
\* removed or has come to be there meanwhile; it, or a crash, then leaves a part of the folder.
Without(d) ==
  {[d EXCEPT !.reference = None], [d EXCEPT !.manifest = None], [d EXCEPT !.confirmed = None],
   [d EXCEPT !.package = FALSE]} \ {d}
Removes(r) ==
  /\ call[r].at = "removes"
  /\ \/ dest' \in Without(dest) /\ UNCHANGED call
     \/ dest = Nowhere /\ UNCHANGED dest /\ Goes(r, "renames")
     \/ dest # Nowhere /\ UNCHANGED dest /\ Is(r, [call[r] EXCEPT !.at = "unlocks", !.failed = TRUE])
  /\ UNCHANGED <<project, reference, recorded, lock, record, pid, port, bridge, faults>>
\* A folder that has come to be there, or a part of one, is kept, and does when it is the same and whole.
Renames(r) ==
  /\ call[r].at = "renames"
  /\ dest' = IF dest # Nowhere THEN dest
             ELSE [reference |-> call[r].tmp, manifest |-> call[r].sha, confirmed |-> "pending", package |-> TRUE]
  /\ Is(r, [call[r] EXCEPT !.at = "unlocks",
                       !.failed = ~(Whole(dest') /\ dest'.manifest = call[r].sha /\ dest'.package)])
  /\ UNCHANGED <<project, reference, recorded, lock, record, pid, port, bridge, faults>>
Unlocks(r) ==
  /\ call[r].at = "unlocks" /\ lock' = None /\ Goes(r, IF call[r].failed THEN Fails(r) ELSE After(r))
  /\ UNCHANGED <<project, reference, recorded, dest, record, pid, port, bridge, faults>>

-----------------------------------------------------------------------------
(* confirmImportVerification                                               *)

\* The manifest is read, and the folder is intact.
Confirms(r) ==
  /\ call[r].at = "confirms"
  /\ Is(r, [call[r] EXCEPT !.at = IF Whole(dest) THEN "publishes" ELSE "done", !.sha = dest.manifest])
  /\ UNCHANGED <<files, pid, port, bridge, faults>>
\* Both files are written over what is there, whose folder is made where it lacks.
Publishes(r) ==
  /\ \/ call[r].at = "publishes" /\ dest' = [dest EXCEPT !.confirmed = call[r].sha] /\ Goes(r, "publishes manifest")
     \/ call[r].at = "publishes manifest" /\ dest' = [dest EXCEPT !.manifest = call[r].sha] /\ Goes(r, "done")
  /\ UNCHANGED <<project, reference, recorded, lock, record, pid, port, bridge, faults>>

-----------------------------------------------------------------------------
(* Delivery to Resolve                                                     *)

\* readDelivery: a record of a process or an operation that is gone is interrupted.
Active(rec) == rec.op # None /\ call[rec.op].record # None /\ call[rec.op].at # "done"
InterruptedWhenDead(rec) == rec.pid # pid
Interrupted(rec) == rec.pid # pid \/ ~Active(rec)
Read(rec) ==
  IF rec = None THEN None
  ELSE IF rec.status # "running" \/ ~Interrupted(rec) THEN rec
  ELSE IF rec.ready # None THEN rec.ready
  ELSE [rec EXCEPT !.status = "error"]

Listens(r) ==
  /\ call[r].at = "listens"
  /\ IF port = None THEN port' = r /\ Goes(r, "reads") ELSE UNCHANGED port /\ Goes(r, "done")
  /\ UNCHANGED <<files, pid, bridge, faults>>

\* A copy that may have been begun in Resolve is followed only by one that is asked for.
Refused(r, previous) ==
  \/ previous # None /\ previous.status = "running"
  \/ previous # None /\ previous.status = "error" /\ previous.created /\ call[r].kind # "copy"
  \/ call[r].kind = "drp" /\ (previous = None \/ previous.status # "ready")
Reads(r) ==
  LET previous == Read(record) IN
  /\ call[r].at = "reads"
  /\ Is(r, [call[r] EXCEPT !.at = IF Refused(r, previous) THEN "catches" ELSE "checks", !.previous = previous])
  /\ UNCHANGED <<files, pid, port, bridge, faults>>

\* The copy that an operation opens again, or None.
Same(r) ==
  IF call[r].previous # None /\ call[r].previous.status = "ready" /\ call[r].kind # "copy" THEN call[r].previous ELSE None

Records(r) ==
  LET rec == [op |-> r, name |-> IF Same(r) = None THEN r ELSE Same(r).name, status |-> "running",
              created |-> FALSE, pid |-> pid, ready |-> Same(r)]
  IN
  /\ call[r].at = "records"
  /\ record' = rec /\ Is(r, [call[r] EXCEPT !.at = "waits", !.record = rec])
  /\ bridge' = [bridge EXCEPT ![r] = "running"]
  /\ UNCHANGED <<project, reference, recorded, dest, lock, pid, port, faults>>

\* A line of the bridge is written behind those before it, unless nobody waits any more.
HeardAlways(r) == TRUE
Heard(r) == ~call[r].closed
Event(r) ==
  LET rec == [call[r].record EXCEPT !.created = @ \/ call[r].record.ready = None] IN
  /\ bridge[r] = "running" /\ call[r].record # None
  /\ bridge' = [bridge EXCEPT ![r] = "told"]
  /\ IF Heard(r) THEN Is(r, [call[r] EXCEPT !.record = rec, !.saves = Append(@, rec)]) ELSE UNCHANGED call
  /\ UNCHANGED <<files, pid, port, faults>>
Saves(r) ==
  /\ call[r].saves # <<>> /\ record' = Head(call[r].saves) /\ Is(r, [call[r] EXCEPT !.saves = Tail(@)])
  /\ UNCHANGED <<project, reference, recorded, dest, lock, pid, port, bridge, faults>>

\* The bridge confirms what it did or fails, or it hangs until its time is over.
Ends(r) ==
  /\ call[r].at = "waits" /\ bridge[r] \in {"running", "told"}
  /\ \/ bridge[r] = "told" /\ bridge' = [bridge EXCEPT ![r] = "none"] /\ Goes(r, "confirmed")
     \/ bridge' = [bridge EXCEPT ![r] = "none"] /\ Goes(r, "catches")
  /\ UNCHANGED <<files, pid, port, faults>>
TimesOut(r) ==
  /\ call[r].at = "waits" /\ faults < MaxFaults /\ faults' = faults + 1
  /\ Is(r, [call[r] EXCEPT !.at = "catches", !.closed = TRUE])
  /\ UNCHANGED <<files, pid, port, bridge>>

\* The record in memory is ready before it is written: when the write fails the catch finds it so and
\* writes nothing, and the record on disk goes on saying that the operation runs.
Finishes(r) ==
  /\ call[r].at = "confirmed" /\ call[r].saves = <<>>
  /\ LET rec == [call[r].record EXCEPT !.status = "ready", !.ready = None] IN
     /\ Is(r, [call[r] EXCEPT !.record = rec, !.at = "leaves"])
     /\ \/ record' = rec /\ UNCHANGED faults
        \/ faults < MaxFaults /\ faults' = faults + 1 /\ UNCHANGED record
  /\ UNCHANGED <<project, reference, recorded, dest, lock, pid, port, bridge>>

\* The catch: what was ready before is the record again.
RestoredNever(r) == [call[r].record EXCEPT !.status = "error"]
Restored(r) ==
  IF Same(r) # None THEN Same(r) ELSE [call[r].record EXCEPT !.status = "error"]
Catches(r) ==
  /\ call[r].at = "catches" /\ call[r].saves = <<>>
  /\ IF call[r].record = None THEN Goes(r, "leaves") /\ UNCHANGED <<record, faults>>
     ELSE /\ Is(r, [call[r] EXCEPT !.at = "leaves", !.closed = TRUE])
          /\ \/ record' = Restored(r) /\ UNCHANGED faults
             \/ faults < MaxFaults /\ faults' = faults + 1 /\ UNCHANGED record
  /\ UNCHANGED <<project, reference, recorded, dest, lock, pid, port, bridge>>

Leaves(r) ==
  /\ call[r].at = "leaves" /\ Goes(r, "done") /\ port' = None
  /\ UNCHANGED <<files, pid, bridge, faults>>

-----------------------------------------------------------------------------

\* The server dies with what it was doing; the port is free, the files stay.
Crash ==
  /\ pid = 1 /\ pid' = 2 /\ port' = None
  /\ call' = [r \in Call |-> IF call[r].at = "loads" THEN call[r] ELSE [New(call[r].kind) EXCEPT !.at = "done"]]
  /\ bridge' = [r \in Call |-> "none"]
  /\ UNCHANGED <<files, faults>>

Next ==
  \/ Render \/ RecordPreview \/ Edit \/ Crash
  \/ \E r \in Call :
       \/ Loads(r) \/ Checks(r) \/ Locks(r) \/ Signs(r) \/ Looks(r) \/ Clears(r)
       \/ Compares(r) \/ Packs(r) \/ Copies(r) \/ Validates(r) \/ Removes(r) \/ Renames(r) \/ Unlocks(r)
       \/ Confirms(r) \/ Publishes(r)
       \/ Listens(r) \/ Reads(r) \/ Records(r) \/ Event(r) \/ Saves(r) \/ Ends(r) \/ TimesOut(r)
       \/ Finishes(r) \/ Catches(r) \/ Leaves(r)

Spec == Init /\ [][Next]_vars

-----------------------------------------------------------------------------
(* Properties                                                              *)

\* What passes for a whole delivery in exports/ is of a video the approved project has
\* recorded, whatever is rendered and exported meanwhile; and what exports, failures of
\* theirs and crashes leave there, half removed or not, never has the video of one of
\* them and the manifest of another.  A confirmation that overlaps an export may mix
\* them, and it no longer passes for whole.
Together(d) == d.reference # None /\ d.manifest # None => d.reference = d.manifest
DeliveredWasRecorded ==
  /\ Whole(dest) => dest.reference \in recorded
  /\ (\A r \in Call : call[r].kind # "confirm") => Together(dest)

\* export.ts:60-62 of a confirmation: new content does not inherit that of the earlier.
\* It does when the content is exchanged while a person confirms.
ConfirmedIsWhatIsThere == Whole(dest) /\ dest.confirmed # "pending" => dest.confirmed = dest.manifest

\* A record left behind by an operation that timed out, failed to write or died with
\* the server never passes for an operation under way.
OpensAgain == \A r \in Call : call[r].at = "reads" => Read(record) = None \/ Read(record).status # "running"

\* The copy in Resolve that a later request would open: it stays what it is until
\* somebody asks for another copy.
Copy == LET rec == Read(record) IN
  IF rec = None THEN None
  ELSE IF rec.status = "ready" THEN rec.name ELSE IF rec.status = "running" /\ rec.ready # None THEN rec.ready.name ELSE None
KeepsTheCopy ==
  [][Copy # None /\ (\A r \in Call : call[r].kind = "copy" => call[r].at \in {"loads", "done"}) => Copy' = Copy]_vars
=============================================================================
