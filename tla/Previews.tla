-------------------------------- MODULE Previews --------------------------------
(***************************************************************************)
(* The videos a project has on disk.  apps/cli/src/app/assembly/render.ts  *)
(* makes the preview of a revision in rev-<revision>/ and keeps it in      *)
(* preview-cache/ under the identity of its montage and encoder, so that   *)
(* a montage that comes back (undo) needs no second render; retention.ts   *)
(* prunes what old revisions left: folders, photos and cached videos.      *)
(*                                                                         *)
(* Renders run side by side, each in a folder of its own; what they        *)
(* publish and what they prune takes turns.  The project is edited, undone *)
(* and delivered meanwhile, between any two reads of a pruning.  Steps of  *)
(* disk may fail, the server may die.                                      *)
(***************************************************************************)
EXTENDS Naturals, FiniteSets, Sequences

CONSTANTS
  Render,        \* renders that are asked for
  Montage,       \* what a revision can be cut to
  None,
  MaxRevision,   \* bound on revisions
  Kept,          \* DEFAULT_KEPT_REVISIONS
  MaxFaults      \* bound on steps that fail and deaths of the server

PreviewsAssumption ==
  /\ MaxRevision \in Nat \ {0} /\ Kept \in Nat /\ None \notin Montage
  /\ \A m \in Montage, p \in {"hardware", "software"}, r \in Render :
       None # [montage |-> m, profile |-> p, by |-> r]

VARIABLES
  project,    \* revision, montage, previewArtifact, the steps of the undo stack
  photo,      \* history/rev-<n>.json: its montage, or None
  exported,   \* the revisions with a folder in exports/
  exporting,  \* the revision that an export has checked and copies, or 0
  dir,        \* rev-<n>: its video, its mark in preview-cache.json, the renders with files in it
  cache,      \* preview-cache/<key>: its video, and whether preview.json says it is ready
  turns,      \* publishTurns: who publishes or prunes, and who waits to
  render, faults

vars == <<project, photo, exported, exporting, dir, cache, turns, render, faults>>
editing == <<project, photo, exported, exporting>>

Revision == 1..MaxRevision
Profile == {"hardware", "software"}
Key == [montage : Montage, profile : Profile]

NoDir == [there |-> FALSE, video |-> None, mark |-> None, works |-> {}]
NoEntry == [video |-> None, ready |-> FALSE]
\* What a pruning has read so far: the revision of project.json, what is protected, the photos
\* of the steps and the folders; "delivered" is an observation, exports/ when it began.
Unread == [revision |-> 0, manter |-> {}, pilha |-> {}, dirs |-> {}, delivered |-> {}]
Idle == [at |-> "asked", revision |-> 0, key |-> None, video |-> None, seen |-> Unread, targets |-> {}]

Init ==
  /\ \E m \in Montage : project = [revision |-> 1, montage |-> m, preview |-> None, steps |-> <<>>]
  /\ photo = [n \in Revision |-> None] /\ exported = {} /\ exporting = 0
  /\ dir = [n \in Revision |-> NoDir] /\ cache = [k \in Key |-> NoEntry]
  /\ turns = <<>> /\ render = [r \in Render |-> Idle] /\ faults = 0

-----------------------------------------------------------------------------
(* The project                                                             *)

Edit ==
  /\ project.revision < MaxRevision
  /\ \E m \in Montage :
       project' = [project EXCEPT !.revision = @ + 1, !.montage = m, !.steps = <<project.revision>> \o @]
  /\ photo' = [photo EXCEPT ![project.revision] = project.montage]
  /\ UNCHANGED <<exported, exporting, dir, cache, turns, render, faults>>

\* The last step comes back as a revision of its own, without a photo of what it replaces.
Undo ==
  /\ project.revision < MaxRevision /\ project.steps # <<>> /\ photo[Head(project.steps)] # None
  /\ project' = [project EXCEPT !.revision = @ + 1, !.montage = photo[Head(project.steps)], !.steps = Tail(@)]
  /\ UNCHANGED <<photo, exported, exporting, dir, cache, turns, render, faults>>

\* exportApproved checks that the revision is the present one and its video there, and publishes
\* its copy of it some time later.
Exports ==
  /\ project.preview # None /\ project.preview.revision = project.revision
  /\ dir[project.revision].video # None
  /\ exporting = 0 /\ exporting' = project.revision
  /\ UNCHANGED <<project, photo, exported, dir, cache, turns, render, faults>>
Deliver ==
  /\ exporting # 0 /\ exporting' = 0
  /\ exported' = exported \cup {exporting}
  /\ UNCHANGED <<project, photo, dir, cache, turns, render, faults>>

-----------------------------------------------------------------------------
(* A render                                                                *)

Is(r, rec) == render' = [render EXCEPT ![r] = rec]
Goes(r, at) == Is(r, [render[r] EXCEPT !.at = at])
\* The folder of its revision, and what a step leaves there.
Folder(r) == dir[render[r].revision]
Has(r, folder) == dir' = [dir EXCEPT ![render[r].revision] = folder]
InsideAtOnce(r) == \E i \in DOMAIN turns : turns[i] = r
Inside(r) == turns # <<>> /\ Head(turns) = r
Joins(r) == turns' = Append(turns, r)
\* Whoever waits stays until its turn has come, and fails then.
LeavesTurn(r) == turns' = IF Inside(r) THEN Tail(turns) ELSE turns

\* An encoder is chosen by a test of the hardware.
Asks(r) ==
  /\ render[r].at = "asked"
  /\ \E p \in Profile :
       Is(r, [render[r] EXCEPT !.at = "decides", !.revision = project.revision,
                               !.key = [montage |-> project.montage, profile |-> p]])
  /\ UNCHANGED <<editing, dir, cache, turns, faults>>

\* A cached video is probed before its turn is asked for.
Usable(k) == cache[k].ready /\ cache[k].video # None
Decides(r) ==
  /\ render[r].at = "decides"
  /\ IF Usable(render[r].key)
     THEN Goes(r, "marks cached") /\ Joins(r) /\ UNCHANGED dir
     ELSE /\ Goes(r, "engine") /\ UNCHANGED turns
          /\ Has(r, [Folder(r) EXCEPT !.there = TRUE, !.works = @ \cup {r}])
  /\ UNCHANGED <<editing, cache, faults>>

\* The engine may fall back to software: the video is cached as what it is.
CacheKeyAsked(r, p) == render[r].key
CacheKey(r, p) == [render[r].key EXCEPT !.profile = p]
Engine(r) ==
  /\ render[r].at = "engine" /\ r \in Folder(r).works
  /\ \E p \in {render[r].key.profile, "software"} :
       Is(r, [render[r] EXCEPT !.at = "publishes", !.key = CacheKey(r, p),
                               !.video = [montage |-> render[r].key.montage, profile |-> p, by |-> r]])
  /\ Joins(r)
  /\ UNCHANGED <<editing, dir, cache, faults>>

\* The folder may have been pruned with what was in it.
Homeless(r) ==
  /\ render[r].at \in {"engine", "publishes"} /\ r \notin Folder(r).works
  /\ render[r].at = "publishes" => Inside(r)
  /\ Goes(r, "failed") /\ LeavesTurn(r)
  /\ UNCHANGED <<editing, dir, cache, faults>>

Publishes(r) ==
  /\ render[r].at = "publishes" /\ Inside(r) /\ r \in Folder(r).works
  /\ Has(r, [Folder(r) EXCEPT !.video = render[r].video, !.works = @ \ {r}])
  /\ Goes(r, "marks")
  /\ UNCHANGED <<editing, cache, turns, faults>>
Marks(r) ==
  /\ render[r].at \in {"marks", "marks cached"} /\ Inside(r)
  /\ Has(r, [Folder(r) EXCEPT !.there = TRUE, !.mark = render[r].key])
  /\ Goes(r, IF render[r].at = "marks" THEN "links" ELSE "links cached")
  /\ UNCHANGED <<editing, cache, turns, faults>>
\* What is linked is the revision's video, whoever published it.
Links(r) ==
  /\ render[r].at = "links" /\ Inside(r)
  /\ cache' = [cache EXCEPT ![render[r].key].video = Folder(r).video]
  /\ Goes(r, "says ready")
  /\ UNCHANGED <<editing, dir, turns, faults>>
SaysReady(r) ==
  /\ render[r].at = "says ready" /\ Inside(r)
  /\ cache' = [cache EXCEPT ![render[r].key].ready = TRUE]
  /\ turns' = Append(Tail(turns), r) /\ Goes(r, "prunes")
  /\ UNCHANGED <<editing, dir, faults>>
\* The entry may have been pruned since it was probed.
LinksCached(r) ==
  /\ render[r].at = "links cached" /\ Inside(r)
  /\ LET v == cache[render[r].key].video IN
     IF v # None
     THEN Has(r, [Folder(r) EXCEPT !.video = v]) /\ Goes(r, "hashes")
     ELSE UNCHANGED dir /\ Goes(r, "failed")
  /\ LeavesTurn(r)
  /\ UNCHANGED <<editing, cache, faults>>

Fails(r) ==
  /\ faults < MaxFaults /\ faults' = faults + 1
  /\ \/ render[r].at \in {"decides", "engine"}
     \/ Inside(r) /\ render[r].at \in {"publishes", "marks", "marks cached", "links", "links cached", "says ready"}
  /\ Goes(r, "failed") /\ LeavesTurn(r)
  /\ Has(r, [Folder(r) EXCEPT !.works = @ \ {r}])
  /\ UNCHANGED <<editing, cache>>

\* recordPreview, unless the project or a newer operation has gone on.
Hashes(r) ==
  /\ render[r].at = "hashes"
  /\ Is(r, [render[r] EXCEPT !.video = Folder(r).video, !.at = IF Folder(r).video = None THEN "failed" ELSE "records"])
  /\ UNCHANGED <<editing, dir, cache, turns, faults>>
Records(r) ==
  /\ render[r].at = "records" /\ Goes(r, "done")
  /\ \/ /\ project.revision = render[r].revision
        /\ project' = [project EXCEPT !.preview = [revision |-> render[r].revision, video |-> render[r].video]]
     \/ UNCHANGED project
  /\ UNCHANGED <<photo, exported, exporting, dir, cache, turns, faults>>

-----------------------------------------------------------------------------
(* pruneProject                                                            *)

StepsOf(p) == {p.steps[i] : i \in DOMAIN p.steps}
ProtectedCurrent(p) == {p.revision}
Protected(p) == {p.revision} \cup (IF p.preview = None THEN {} ELSE {p.preview.revision})
Reads(r, at, seen) == Inside(r) /\ Is(r, [render[r] EXCEPT !.at = at, !.seen = seen])

\* project.json is read ...
ReadsProject(r) ==
  /\ render[r].at = "prunes"
  /\ Reads(r, "lists exports", [Unread EXCEPT !.revision = project.revision, !.manter = Protected(project),
                                             !.pilha = StepsOf(project), !.delivered = exported])
  /\ UNCHANGED <<editing, dir, cache, turns, faults>>
\* ... then exports/, and a listing that fails passes for an empty one ...
ListsExports(r) ==
  /\ render[r].at = "lists exports"
  /\ \/ Reads(r, "lists folders", [render[r].seen EXCEPT !.manter = @ \cup exported]) /\ UNCHANGED faults
     \/ Reads(r, "lists folders", render[r].seen) /\ faults < MaxFaults /\ faults' = faults + 1
  /\ UNCHANGED <<editing, dir, cache, turns>>
\* ... then the folders ...
ListsFolders(r) ==
  /\ render[r].at = "lists folders"
  /\ Reads(r, "lists photos", [render[r].seen EXCEPT !.dirs = {n \in Revision : dir[n].there}])
  /\ UNCHANGED <<editing, dir, cache, turns, faults>>

Photos == {n \in Revision : photo[n] # None}
Recent(known) == {n \in known : Cardinality({m \in known : m > n}) < Kept}
KeptKeys(dirs) == {dir[n].mark : n \in dirs}
\* ... then the photos, and what goes is known but for the cached videos: their marks and names
\* are read after that, but nobody else writes them during its turn.
ListsPhotos(r) ==
  LET seen == render[r].seen
      manter == seen.manter \cup Recent(seen.dirs \cup Photos)
  IN
  /\ render[r].at = "lists photos" /\ Inside(r)
  /\ Is(r, [render[r] EXCEPT
       !.at = "removes",
       !.seen = [Unread EXCEPT !.revision = seen.revision, !.delivered = seen.delivered],
       !.targets = [kind : {"dir"}, of : seen.dirs \ manter]
                   \cup [kind : {"photo"}, of : Photos \ (manter \cup seen.pilha)]
                   \cup [kind : {"entry"}, of : {k \in Key \ KeptKeys(seen.dirs \cap manter) : cache[k] # NoEntry}]])
  /\ UNCHANGED <<editing, dir, cache, turns, faults>>

\* It is removed one by one: folders, photos, cached videos.
Later(kind) == CASE kind = "dir" -> {} [] kind = "photo" -> {"dir"} [] OTHER -> {"dir", "photo"}
Removes(r) ==
  /\ render[r].at = "removes" /\ Inside(r)
  /\ \E t \in render[r].targets :
       /\ \A o \in render[r].targets : o.kind \notin Later(t.kind)
       /\ dir' = IF t.kind = "dir" THEN [dir EXCEPT ![t.of] = NoDir] ELSE dir
       /\ photo' = IF t.kind = "photo" THEN [photo EXCEPT ![t.of] = None] ELSE photo
       /\ cache' = IF t.kind = "entry" THEN [cache EXCEPT ![t.of] = NoEntry] ELSE cache
       /\ Is(r, [render[r] EXCEPT !.targets = @ \ {t}])
  /\ UNCHANGED <<project, exported, exporting, turns, faults>>
\* Whatever could not be read or removed, the render has succeeded.
Pruned(r) ==
  /\ Inside(r) /\ LeavesTurn(r) /\ Is(r, [render[r] EXCEPT !.at = "hashes", !.seen = Unread])
  /\ \/ render[r].at = "removes" /\ render[r].targets = {} /\ UNCHANGED faults
     \/ render[r].at \in {"prunes", "lists exports", "lists folders"} /\ faults < MaxFaults /\ faults' = faults + 1
  /\ UNCHANGED <<editing, dir, cache>>
Spares(r) ==
  /\ render[r].at = "removes" /\ faults < MaxFaults /\ faults' = faults + 1
  /\ \E t \in render[r].targets : Is(r, [render[r] EXCEPT !.targets = @ \ {t}])
  /\ UNCHANGED <<editing, dir, cache, turns>>

-----------------------------------------------------------------------------

\* What the renders were doing is over; their folders stay.
Crash ==
  /\ faults < MaxFaults /\ faults' = faults + 1 /\ turns' = <<>>
  /\ render' = [r \in Render |-> IF render[r].at = "asked" THEN Idle ELSE [Idle EXCEPT !.at = "failed"]]
  /\ UNCHANGED <<editing, dir, cache>>

Next ==
  \/ Edit \/ Undo \/ Exports \/ Deliver \/ Crash
  \/ \E r \in Render :
       \/ Asks(r) \/ Decides(r) \/ Engine(r) \/ Homeless(r) \/ Publishes(r) \/ Marks(r) \/ Links(r)
       \/ SaysReady(r) \/ LinksCached(r) \/ Fails(r) \/ Hashes(r) \/ Records(r)
       \/ ReadsProject(r) \/ ListsExports(r) \/ ListsFolders(r) \/ ListsPhotos(r)
       \/ Removes(r) \/ Pruned(r) \/ Spares(r)

Spec == Init /\ [][Next]_vars

-----------------------------------------------------------------------------
(* Properties                                                              *)

\* A cached video is one of the montage and the encoder that its key names, whichever
\* renders published to the same revision and whatever the engine fell back to.
CacheIsWhatItsKeySays ==
  \A k \in Key : Usable(k) => cache[k].video.montage = k.montage /\ cache[k].video.profile = k.profile

\* retention.ts:67-73: pruning always keeps the recorded preview, what was delivered, and the
\* photo of every step that can be undone.  It does not when the project goes on while it reads.
NeededStays ==
  /\ project.preview # None => dir[project.preview.revision].video # None
  /\ \A n \in exported : dir[n].video # None
  /\ \A n \in StepsOf(project) : photo[n] # None

\* What a pruning may take of what the project refers to by then: a preview recorded, or a
\* photo of a step pushed, after it read project.json, and only when there are Kept revisions
\* newer than that - the project was changed more than Kept times while it read and removed.
\* And, unless exports/ could not be listed, nothing that was delivered before it began.
Overtaken(n) ==
  LET seen == render[Head(turns)].seen IN seen.revision < n /\ n + Kept <= project.revision
TakesOnlyOvertaken ==
  [][\A n \in Revision :
       /\ dir[n].video # None /\ dir'[n].video = None =>
            /\ project.preview # None /\ project.preview.revision = n => Overtaken(n)
            /\ n \in exported /\ faults = 0 => n \notin render[Head(turns)].seen.delivered
       /\ photo[n] # None /\ photo'[n] = None /\ n \in StepsOf(project) => Overtaken(n)]_vars

\* render.ts:357: no entry is pruned that another render publishes.  One that was probed
\* before the pruning is gone when it is linked.
CachedIsLinked ==
  \A r \in Render : render[r].at = "links cached" => cache[render[r].key].video # None
=============================================================================
