---------------------------- MODULE ProjectStore ----------------------------
(***************************************************************************)
(* apps/cli/src/app/assembly: one project's files (project.json, its       *)
(* previous copy, the photos in history/) and everyone who writes them:    *)
(* requests of several browsers, the background analysis and the claim a   *)
(* preparation makes. A request reads the project, works without any lock, *)
(* and saves; saveProject is the single writer, a critical section of two  *)
(* publications (previous copy, then project.json).                        *)
(*                                                                         *)
(* Data kept: the editorial content is the sequence of changes made to it; *)
(* the analyses are one version number, 0 for none; permissions and        *)
(* preparation, which change together, are the number of the last claim.   *)
(* A preview artifact remembers what it was rendered from.                 *)
(***************************************************************************)
EXTENDS Integers, Sequences, SequencesExt

CONSTANTS Client,        \* browsers; each has at most one request under way
          Analysis, Preparation,  \* the background writers
          Nobody,
          UndoLimit,     \* UNDO_LIMIT: 20
          MaxRequests,   \* bound on requests accepted, and so on revisions
          MaxAnalyses,   \* bound on analyses started
          MaxClaims,     \* bound on preparations started
          MaxCrashes,    \* bound on crashes
          Missing,       \* no such file
          Torn           \* a file whose bytes are not JSON

Null == -1     \* null, for revisions

ProjectType ==
  [rev : Nat, content : Seq(Client), analysis : Nat, claim : Nat,
   preview : Nat \cup {Null}, artifact : [rev : Nat \cup {Null}, content : Seq(Client)],
   approved : Nat \cup {Null}, undo : [head : Nat \cup {Null}, steps : Seq(Nat)]]

ASSUME StoreAssumption ==
  /\ UndoLimit \in Nat \ {0}
  /\ Missing \notin ProjectType /\ Torn \notin ProjectType /\ Torn # Missing
  /\ MaxRequests \in Nat /\ MaxAnalyses \in Nat /\ MaxClaims \in Nat /\ MaxCrashes \in Nat
  /\ Nobody \notin Client /\ Analysis \notin Client /\ Preparation \notin Client

VARIABLES
  main,       \* project.json
  previous,   \* project.prev.json
  history,    \* history/rev-<n>.json: the content photographed at revision n
  writer,     \* the save in its critical section
  req,        \* per client: its request
  latest,     \* whose preview is the last operation begun (opGen)
  analysing,  \* analyses that may still publish, by number
  analyses,   \* how many analyses were started
  claiming,   \* preparations that may still make their claim, by number
  claims,     \* how many preparations were started
  requests,   \* bound: requests accepted so far
  crashes     \* bound: crashes so far

files == <<main, previous, history>>
jobs == <<latest, analysing, analyses, claiming, claims>>
bounds == <<requests, crashes>>
vars == <<files, writer, req, jobs, bounds>>

NoArtifact == [rev |-> Null, content |-> <<>>]
NoUndo == [head |-> Null, steps |-> <<>>]
BlankProject ==
  [rev |-> 0, content |-> <<>>, analysis |-> 0, claim |-> 0, preview |-> Null,
   artifact |-> NoArtifact, approved |-> Null, undo |-> NoUndo]

Idle == [step |-> "idle", who |-> Nobody, next |-> BlankProject]
NoRequest == [step |-> "idle", kind |-> "None", loaded |-> BlankProject, snap |-> <<>>]

Init ==
  /\ main = BlankProject
  /\ previous = Missing
  /\ history = <<>>
  /\ writer = Idle
  /\ req = [c \in Client |-> NoRequest]
  /\ latest = Nobody
  /\ analysing = {}
  /\ analyses = 0
  /\ claiming = {}
  /\ claims = 0
  /\ requests = 0
  /\ crashes = 0

-----------------------------------------------------------------------------
(* The project as a value.                                                 *)

\* readProjectBytes: bytes that do not parse are replaced by the copy.
Project == IF main = Torn THEN previous ELSE main

\* Mutant: a restored revision counts down.
BumpBackwards(p, content) ==
  [rev |-> p.rev - 1, content |-> content, analysis |-> p.analysis, claim |-> p.claim,
   preview |-> Null, artifact |-> p.artifact, approved |-> Null, undo |-> p.undo]

\* bump, invalidatePreview: a new revision takes back preview and approval;
\* the artifact of the old revision stays.
Bump(p, content) ==
  [rev |-> p.rev + 1, content |-> content, analysis |-> p.analysis, claim |-> p.claim,
   preview |-> Null, artifact |-> p.artifact, approved |-> Null, undo |-> p.undo]

\* liveSteps, undoTop: steps count only while the head is the revision.
LiveSteps(p) == IF p.undo.head = p.rev THEN p.undo.steps ELSE <<>>
UndoTop(p) == IF LiveSteps(p) = <<>> THEN Null ELSE Last(LiveSteps(p))

Newest(s) == SubSeq(s, IF Len(s) > UndoLimit THEN Len(s) - UndoLimit + 1 ELSE 1, Len(s))

WithUndo(p, steps) ==
  [rev |-> p.rev, content |-> p.content, analysis |-> p.analysis, claim |-> p.claim,
   preview |-> p.preview, artifact |-> p.artifact, approved |-> p.approved,
   undo |-> [head |-> p.rev, steps |-> steps]]

\* Mutant: steps of a broken stack are kept.
RecordUndoOnBroken(before, after) ==
  WithUndo(after, Newest(Append(before.undo.steps, before.rev)))

RecordUndo(before, after) == WithUndo(after, Newest(Append(LiveSteps(before), before.rev)))
PopUndo(before, after) == WithUndo(after, Front(LiveSteps(before)))

\* The project with another preview artifact and approval.
WithReview(p, preview, artifact, approved) ==
  [rev |-> p.rev, content |-> p.content, analysis |-> p.analysis, claim |-> p.claim,
   preview |-> preview, artifact |-> artifact, approved |-> approved, undo |-> p.undo]

\* The project with the results of the background writers.
WithResults(p, analysis, claim) ==
  [rev |-> p.rev, content |-> p.content, analysis |-> analysis, claim |-> claim,
   preview |-> p.preview, artifact |-> p.artifact, approved |-> p.approved, undo |-> p.undo]

\* recordPreview, and approveFinal with its conditions.
RecordPreview(p) ==
  WithReview(p, p.rev, [rev |-> p.rev, content |-> p.content], p.approved)
Approve(p) == WithReview(p, p.preview, p.artifact, p.rev)

\* Mutant: any preview will do.
MayApproveAnyPreview(p, watched) == p.artifact # NoArtifact /\ watched = p.rev

MayApprove(p, watched) ==
  p.artifact.rev = p.rev /\ p.preview = p.rev /\ watched = p.rev

MergeAnalyses(base, overlay) == IF overlay = 0 THEN base ELSE overlay

\* Mutant: the snapshot wins whatever the request changed (`next.x ?? current.x`).
MergeSnapshotWins(current, next, base) ==
  LET Over(new, old, now, null) == IF new # null THEN new ELSE now
  IN IF next.rev > current.rev
     THEN WithResults(next, MergeAnalyses(current.analysis, next.analysis), next.claim)
     ELSE WithReview(
            WithResults(current, MergeAnalyses(current.analysis, next.analysis),
                        Over(next.claim, base.claim, current.claim, Null)),
            Over(next.preview, base.preview, current.preview, Null),
            Over(next.artifact, base.artifact, current.artifact, NoArtifact),
            Over(next.approved, base.approved, current.approved, Null))

\* mergeProjectCommit: a new revision replaces everything but the analyses; at
\* the same revision only what the request changed replaces what is there.
Merge(current, next, base) ==
  LET Pick(new, old, now) == IF new # old THEN new ELSE now
  IN IF next.rev > current.rev
     THEN WithResults(next, MergeAnalyses(current.analysis, next.analysis), next.claim)
     ELSE WithReview(
            WithResults(current, MergeAnalyses(current.analysis, next.analysis),
                        Pick(next.claim, base.claim, current.claim)),
            Pick(next.preview, base.preview, current.preview),
            Pick(next.artifact, base.artifact, current.artifact),
            Pick(next.approved, base.approved, current.approved))

-----------------------------------------------------------------------------
(* Requests.                                                               *)

Photographed == {"Edit", "Fillers"}        \* write a photo before they save
Bumping == Photographed \cup {"Input", "Undo"}
Kinds == Bumping \cup {"Preview", "Approve"}

\* Where a handler stands after its load: it renders, photographs, or saves.
AfterLoad(kind) == IF kind = "Preview" THEN "rendering"
                   ELSE IF kind \in Photographed THEN "photo" ELSE "ready"

\* The handler loads the project. It goes on only if the revision the browser
\* named is the current one (and the step to undo, the top of the stack; and
\* the revision watched, one that may be approved), so that revision and that
\* step are the loaded project's. Undo reads its photo; a preview becomes the
\* latest operation.
Load(c, kind) ==
  /\ req[c].step = "idle"
  /\ requests < MaxRequests
  /\ requests' = requests + 1
  /\ kind = "Undo" => LiveSteps(Project) # <<>> /\ UndoTop(Project) \in DOMAIN history
  /\ kind = "Approve" => MayApprove(Project, Project.rev)
  /\ req' = [req EXCEPT ![c] =
       [step |-> AfterLoad(kind), kind |-> kind, loaded |-> Project,
        snap |-> IF kind = "Undo" THEN history[UndoTop(Project)] ELSE <<>>]]
  /\ latest' = IF kind = "Preview" THEN c ELSE latest
  /\ UNCHANGED <<files, writer, analysing, analyses, claiming, claims, crashes>>

\* Any other request is refused and changes nothing, but a preview has become
\* the latest operation by then, which matters to those being rendered.
RefusePreview(c) ==
  /\ req[c].step = "idle" /\ \E d \in Client : req[d].step = "rendering"
  /\ latest' = c
  /\ UNCHANGED <<files, writer, req, analysing, analyses, claiming, claims, bounds>>

Goes(c, step, kind) ==
  req' = [req EXCEPT ![c] =
    [step |-> step, kind |-> kind, loaded |-> req[c].loaded, snap |-> req[c].snap]]

\* writeHistorySnapshot, outside the writer: it replaces the photo of the
\* revision the request loaded.
Photograph(c) ==
  /\ req[c].step = "photo"
  /\ history' = [n \in DOMAIN history \cup {req[c].loaded.rev} |->
                   IF n = req[c].loaded.rev THEN req[c].loaded.content ELSE history[n]]
  /\ Goes(c, "ready", req[c].kind)
  /\ UNCHANGED <<main, previous, writer, jobs, bounds>>

\* The render ends. A preview that is no longer the latest operation saves the
\* project as it loaded it.
Rendered(c) ==
  /\ req[c].step = "rendering"
  /\ Goes(c, "ready", IF latest = c THEN "Preview" ELSE "Stale preview")
  /\ UNCHANGED <<files, writer, jobs, bounds>>

\* begin: a new operation aborts the renders under way.
AbortPreviews ==
  req' = [c \in Client |-> IF req[c].step = "rendering" THEN NoRequest ELSE req[c]]

\* An analysis that is aborted may have looked for that already, and publish
\* all the same.
StartAnalysis ==
  /\ analyses < MaxAnalyses
  /\ analyses' = analyses + 1
  /\ analysing' = analysing \cup {analyses + 1}
  /\ latest' = Nobody
  /\ AbortPreviews
  /\ UNCHANGED <<files, writer, claiming, claims, bounds>>

\* What a preparation has to do here is its claim. It looks once whether it is
\* still the latest operation, and may have done so at once.
StartPreparation ==
  /\ claims < MaxClaims
  /\ claims' = claims + 1
  /\ claiming' = claiming \cup {claims + 1}
  /\ latest' = Nobody
  /\ AbortPreviews
  /\ UNCHANGED <<files, writer, analysing, analyses, bounds>>

-----------------------------------------------------------------------------
(* saveProject.                                                            *)

\* What an object save submits, computed from what the request loaded.
Submitted(c) ==
  LET r == req[c]  p == r.loaded
  IN CASE r.kind = "Edit"          -> RecordUndo(p, Bump(p, Append(p.content, c)))
       [] r.kind = "Input"         -> Bump(p, Append(p.content, c))
       [] r.kind = "Preview"       -> RecordPreview(p)
       [] r.kind = "Stale preview" -> p
       [] r.kind = "Approve"       -> Approve(p)

\* What a functional save makes of the project the writer read.
Updated(c, p) ==
  IF req[c].kind = "Fillers"
  THEN RecordUndo(p, Bump(p, Append(p.content, c)))
  ELSE PopUndo(p, Bump(p, req[c].snap))

Functional == {"Fillers", "Undo"}

\* Mutant: the functional form trusts the check its handler made before.
PassesUnchecked(c, p) == req[c].kind \in Functional \/ p.rev = req[c].loaded.rev

\* The revision check: in saveProject for object saves, in the callback for
\* functional ones; undo also checks the step it is about to take.
Passes(c, p) ==
  /\ p.rev = req[c].loaded.rev
  /\ req[c].kind = "Undo" => UndoTop(p) = UndoTop(req[c].loaded)

\* What the save of client c publishes over p.
Outcome(c, p) == IF req[c].kind \in Functional THEN Updated(c, p)
                 ELSE Merge(p, Submitted(c), req[c].loaded)

\* Mutant: bytes that did not parse replace the copy they were replaced by.
FirstStepAlwaysCopying == "previous"

\* A copy that was just read is not replaced by the bytes that did not parse.
FirstStep == IF main = Torn THEN "main" ELSE "previous"

EnterWriter(who, next) == writer' = [step |-> FirstStep, who |-> who, next |-> next]

BeginSave(c) ==
  /\ req[c].step = "ready" /\ writer.step = "idle"
  /\ IF Passes(c, Project)
     THEN /\ EnterWriter(c, Outcome(c, Project))
          /\ Goes(c, "saving", req[c].kind)
     ELSE /\ UNCHANGED writer
          /\ req' = [req EXCEPT ![c] = NoRequest]
  /\ UNCHANGED <<files, jobs, bounds>>

\* analyzeSources publishes a finished analysis over the present project,
\* whatever its revision.
SaveAnalysis(n) ==
  /\ n \in analysing /\ writer.step = "idle"
  /\ analysing' = analysing \ {n}
  /\ EnterWriter(Analysis, WithResults(Project, n, Project.claim))
  /\ UNCHANGED <<files, req, latest, analyses, claiming, claims, bounds>>

\* The preparation writes itself and the permissions it was given.
SaveClaim(n) ==
  /\ n \in claiming /\ writer.step = "idle"
  /\ claiming' = claiming \ {n}
  /\ EnterWriter(Preparation, WithResults(Project, Project.analysis, n))
  /\ UNCHANGED <<files, req, latest, analysing, analyses, claims, bounds>>

\* project.prev.json becomes what project.json holds.
KeepPrevious ==
  /\ writer.step = "previous"
  /\ previous' = main
  /\ writer' = [step |-> "main", who |-> writer.who, next |-> writer.next]
  /\ UNCHANGED <<main, history, req, jobs, bounds>>

\* writeAtomic publishes project.json; the request is answered.
Publish ==
  /\ writer.step = "main"
  /\ main' = writer.next
  /\ writer' = Idle
  /\ req' = IF writer.who \in Client THEN [req EXCEPT ![writer.who] = NoRequest] ELSE req
  /\ UNCHANGED <<previous, history, jobs, bounds>>

\* The machine stops and every request under way is gone. A file replaced in
\* place (publishAtomic's way out when rename is refused) is left unreadable.
Crash ==
  /\ crashes < MaxCrashes
  /\ crashes' = crashes + 1
  /\ \/ UNCHANGED <<main, previous>>
     \/ writer.step = "previous" /\ previous' = Torn /\ UNCHANGED main
     \/ writer.step = "main" /\ main' = Torn /\ UNCHANGED previous
  /\ writer' = Idle
  /\ req' = [c \in Client |-> NoRequest]
  /\ latest' = Nobody
  /\ analysing' = {} /\ claiming' = {}
  /\ UNCHANGED <<history, analyses, claims, requests>>

Next ==
  \/ \E c \in Client : \/ \E kind \in Kinds : Load(c, kind)
                       \/ RefusePreview(c) \/ Photograph(c) \/ Rendered(c) \/ BeginSave(c)
  \/ StartAnalysis \/ \E n \in analysing : SaveAnalysis(n)
  \/ StartPreparation \/ \E n \in claiming : SaveClaim(n)
  \/ KeepPrevious \/ Publish \/ Crash

Spec == Init /\ [][Next]_vars

-----------------------------------------------------------------------------
(* Properties.                                                             *)

Kind == Kinds \cup {"None", "Stale preview"}
Step == {"idle", "rendering", "photo", "ready", "saving"}
Writers == Client \cup {Analysis, Preparation, Nobody}

\* Type correctness: the files are projects, photos or unreadable, the writer
\* and the requests are in a known step, the bounds hold.
TypeOK ==
  /\ main \in ProjectType \cup {Torn}
  /\ previous \in ProjectType \cup {Missing, Torn}
  /\ DOMAIN history \subseteq Nat /\ \A n \in DOMAIN history : history[n] \in Seq(Client)
  /\ writer \in [step : {"idle", "previous", "main"}, who : Writers, next : ProjectType]
  /\ req \in [Client -> [step : Step, kind : Kind, loaded : ProjectType, snap : Seq(Client)]]
  /\ latest \in Client \cup {Nobody}
  /\ analysing \subseteq 1 .. analyses /\ claiming \subseteq 1 .. claims
  /\ analyses \in 0 .. MaxAnalyses /\ claims \in 0 .. MaxClaims
  /\ requests \in 0 .. MaxRequests /\ crashes \in 0 .. MaxCrashes

\* store.ts promises a readable project after any fall: one of the two files
\* always parses, whatever was being written.
AlwaysReadable == main = Torn => previous \notin {Missing, Torn}

\* The save of c becomes the project.
Commits(c) == writer.step = "main" /\ writer.who = c /\ main' = writer.next

\* No change is lost and none lands on content its author did not name: a
\* saved change is the content at the revision the request was made for, plus
\* that change; an undo replaces that content; any other save leaves it be.
BuildsOnNamedRevision(c) ==
  CASE req[c].kind \in {"Edit", "Input", "Fillers"} ->
         main'.content = Append(req[c].loaded.content, c)
    [] req[c].kind = "Undo" -> Project.content = req[c].loaded.content
    [] OTHER -> main'.content = req[c].loaded.content

\* Every save of a client does so: the revision check is never fooled by what
\* happened between the load and the save.
SavesBuildOnNamedRevision == [][\A c \in Client : Commits(c) => BuildsOnNamedRevision(c)]_vars

\* approveFinal's promise: an approval holds for the content of the preview
\* artifact on disk, which is the project's own content.
ApprovedIsWatched ==
  Project.approved # Null =>
    /\ Project.approved = Project.rev
    /\ Project.artifact = [rev |-> Project.rev, content |-> Project.content]

\* mergeProjectCommit's promise for approvals, previews and what a preparation
\* claimed: at the same revision, a browser's save never takes them back.
DecisionsStay ==
  /\ Project.approved = Project.rev => main'.approved = Project.rev
  /\ Project.preview = Project.rev => main'.preview = Project.rev
  /\ Project.artifact.rev = Project.rev => main'.artifact = Project.artifact
  /\ main'.claim = Project.claim

\* A save that stays at the revision keeps them, however old its snapshot.
SameRevisionKeepsDecisions ==
  [][\A c \in Client : Commits(c) /\ main'.rev = Project.rev => DecisionsStay]_vars

\* mergeProjectCommit's comment promises the same for analyses ("Mesma
\* revisao: nao deixa snapshot antigo apagar aprovacao/analise/relink"): the
\* code lets a request that loaded an older analysis put it back.
SameRevisionKeepsAnalysis ==
  [][\A c \in Client :
       Commits(c) /\ main'.rev = Project.rev => main'.analysis = Project.analysis]_vars

\* The undo button: with the photos for contents, the store is an undo stack
\* whose newest save, and only that one, can be lost (UndoStack.tla).
Past(p) == [i \in 1 .. Len(LiveSteps(p)) |-> history[LiveSteps(p)[i]]]
Kept == LET p == IF previous \in {Missing, Torn} THEN Project ELSE previous
        IN <<p.content, Past(p)>>
Undoable == INSTANCE UndoStack WITH
  Editor <- Client, content <- Project.content, past <- Past(Project), kept <- Kept
ImplementsUndoStack == Undoable!Spec
=============================================================================
