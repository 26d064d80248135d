# Verification of Decupa

TLA+ models of Decupa, the video editor in this repository, with the TLC runs
that check them on small instances and the TLAPS proofs that hold for every
instance. This file says what the system is made of, which part each module
models and how its state and actions correspond to the code, what each run and
each theorem shows, under which bounds and which fairness, and what is left.
Paths are relative to `src/`; `A/` stands for `apps/cli/src/app/assembly/`, `P/`
for `apps/cli/src/app/`.

Contents: [inventory](#1-inventory), [modules](#2-modules),
[runs](#3-runs-and-bounds), [fairness](#4-fairness), [proofs](#5-proofs),
[where code and docs disagree](#6-where-the-code-and-its-words-disagree),
[not modelled](#7-not-modelled), [plan](#8-plan).

## 1. Inventory

Decupa is a Node server, with command line tools beside it, and pages
in the browser. A project is a directory of JSON files; media are cut with
ffmpeg, transcribed by a Python worker and analysed by paid services. Several
people may have the same project open.

**File coordinator** (`packages/coordinator/src/index.ts`). A directory all
processes share: `waiters.json` (queue), `slots/<i>.json` (capacity),
`tasks/<id>.json` (results of `run`), `.lock`.
`run(task, build)` remembers one result per task; `withSlot(fn)` only takes a
slot. Claims are leases that a timer renews. Hard: leases that expire under a
living holder, a heartbeat that fired before its timer was cleared, writes that
break off half way, dead processes at the head of the queue, priorities. Right
when: the limit is a limit, a task has one result, a released slot stays free,
priority is bounded, everybody is served.

**The lock behind it** (`withLock`, `clearStaleLock`, same file). A file made
with `O_EXCL`; contenders may clear an orphan. Hard: create and pid write, stat,
read, stat and unlink are separate system calls. Right when: sections exclude
each other, and a dead owner does not stop everybody.

**Project store** (`A/store.ts`, `A/undo.ts`, `A/revisions.ts`). `project.json`,
`project.prev.json`, `history/rev-<n>.json`. A request loads the project, works
without a lock, and `saveProject` merges it into what is there now, under
`project.lock`. Undo goes back to photos of earlier revisions; previews and
approvals belong to one revision; analyses and preparations are published in
the background. Hard: stale snapshots at commit, crashes between and inside two
publications, undo steps broken by other changes, a preview overtaken by other
operations. Right when: no change is lost, no approval is of something nobody
watched, a readable file is left after any fall, undo undoes.

**Text corrections** (`A/words.ts`, `A/routes.ts`). The editor corrects what is
said in a stretch; a job listens to it again and publishes the words with their
times, at no new revision. Hard: undo, other corrections and restarts while jobs
run; ids used again. Right when: corrections never overlap, words stay inside
their correction and are of its text, nothing stays pending.

**Assembly routes** (`A/routes.ts`, `A/filler-routes.ts`). The HTTP handlers that
drive all this: edits, sources, analyses, previews, and proposals of four kinds,
one kept in the project and three in files of their own. Per project one
operation at a time may be the latest (`opGen`), and a new one aborts the render
under way. Hard: the project, a proposal's file and the memory of the runtime are
read at different awaits. Right when: nothing refers to a source that was
removed, and a proposal is applied to the content it was made for only.

**Preparation** (`A/preparation.ts`, `A/analysis.ts`,
`A/preparation-recovery.ts`). The background work from the press of a button to a
preview: every source is verified, transcribed and described, a paid model
proposes scenes, and they are applied. It keeps the reply it paid for in a file,
and a record of its progress in the project. Hard: people edit, cancel and start
other things meanwhile, the signal and `opGen` tell it so only between two
awaits, a retry starts while the aborted one is still there, the server
restarts. Right when: one preparation is at work, an edit is never overwritten,
scenes come from complete evidence only, nothing is paid for twice, none is
shown as running for ever.

**What is cut from a take** (`A/words.ts`, `A/rhythm.ts`, `A/fillers.ts`,
`A/speech-proposal.ts`). Words are removed, restored and protected by hand;
fillers and rhythm are layers that remember what they took. Right when: no
request takes speech it was not asked to, what is restored is heard.

**Delivery** (`A/export.ts`, `A/delivery.ts`) and **previews** (`A/render.ts`,
`A/retention.ts`). Files under names that several requests share: the folder of a
revision, the cache of montages, the folder of exports, the record of what is in
DaVinci Resolve. Hard: renders, prunings, exports and a Python bridge side by
side, steps of disk that fail, a server that dies. Right when: what is delivered
is whole and of a recorded video, a cached video is what its key says, nothing
that is referred to is pruned, the copy in Resolve is not lost.

**Edit reservation** (`P/edit-reservation.ts`, `P/edit-reservation-ui.js`,
`P/project-path.js`). Who may edit a shared project; heartbeats, takeover, tabs that
are duplicated. Right when: a fresh reservation changes hands by takeover only, and
two pages that both believe they may edit do not go on believing it.

**Editor page** (`A/page.js`, `A/editor/api.js`, `A/editor/state.js`,
`A/editor/contexto.js`). Answers in any order, a timer that asks for previews, a
poller, a player that notes what was watched. Right when: a quiet page shows what
the server has, and an approval that asks nothing is of what was watched.

**Cleanup session** (`apps/cli/src/condense`, `P/jobs.ts`, `P/session.ts`,
`P/cleanup/routes.ts`). Three artifacts published through one journal, and the
queue of cleanup plans. Right when: keep-list and fillers on disk were asked for
together, the screen shows the plan on disk, however a write fails.

**Project cleanup and resource ledger** (`P/resource-ledger.ts`,
`P/project-cleanup.ts`, `P/project-lifecycle.ts`). Staged deletion with a transaction
file, and accounting of who uses which file. Right when: nobody loses a file it
uses.

**Imports** (`P/media-runtime.ts`). Uploads in parts, through a bucket, or from
Drive. Right when: the pool has whole files only, what was accepted is not
lost, and what was promised to uploads fits on the disk.

**Registry of open projects** (`P/project-root.ts`, `P/server.ts`). Opened by
requests, closed by sweeps when idle. Right when: none is closed that is in use,
and a closed one writes nothing.

**Speech service** (`P/speech-runtime.ts`, `packages/transcript/src/client.ts`,
`services/speech/worker.py`). One process for all projects, idle shutdown,
restarts, cancellation by killing it. Right when: every request gets its own
outcome.

**In-process queues** (`packages/queue`): a limited queue and keyed shared work.

**Left aside:** artifact cache, login, templates, the paid call budget,
measurement, triage, the hub's pages and the editor's views, ffmpeg and
deployment (section 7).

`PROJECT.json` lists every component with its files and, under `hazards`, what
can go wrong in each and where.

How they meet: a page calls a handler; the registry finds or opens the runtime
of its project; the handler loads the project from the store, asks the coordinator
or a queue for a place when the work is heavy, and saves. Background jobs do the
same later, and use the speech service. The lock module is what makes the
coordinator's critical sections steps; the store's saves are steps of the models
of corrections, preparations and requests.

## 2. Modules

### Coordinator.tla, SingleFlight.tla

One *caller* is one call of `run` or `withSlot`; `pc` is where its async function
stands.

| State | In the code |
|---|---|
| `waiters`, `bypassed`, `age` | records of `waiters.json`: `bypassed`, ticks since `seenAt` |
| `at`, `nextAt` | `enteredAt` |
| `remembered` | `waiter.bypassed`, the copy `run` keeps while it follows a builder |
| `slots`, `tasks` | `slots/<i>.json`, `tasks/<id>.json`; `ttl` is what is left of the lease |
| `held` | `slotIndex` of the claim |
| `beat`, `lock` | a heartbeat that fired, and the one between its slot read and its slot write |
| `grant`, `overtaken`, `robbed` | observation only: the lease the caller believes in; interactive claims that passed it; the calls whose slot file another call's release has unlinked |

Actions are named after what the code does: `Enqueue`, `Follow`, `KeepWaiting`,
`Claim` (`claimWork`, `claimSlot`), `BeatReads`/`BeatWrites`, `Publish`, `Abandon`,
`Dequeue`, `Release`, and so on; each error path is an action too
(`ClaimBreaks`, `BeatFails`, `DequeueFails`, `ReleaseFails`). A section under
`withLock` is one step. What runs *without* the lock is split: the heartbeat's
read and write, and the read and unlink of `withSlot`'s release.

`SingleFlight.tla` is what `run` promises, with no queue, slot, lease or clock:
a task gets at most one value, a caller ends with it or with an error.
`IsSingleFlight` is the refinement (`value <- the result in tasks/<id>.json`).

Abstractions: time is ticks (section 3); arrivals are distinct; a build's result
is named by its builder; a caller claims at most once, so the lease's UUID is
the caller.

### FileLock.tla

Calls of `withLock`, one action per system call: `Create`, `WritePid`,
`FirstStat`, `Read`, `SecondStat`, `UnlinkStale`, `Unlock`; `Age` is `staleLockMs`
going by; `Crash` kills a process, `LeavesFile` is a failed pid write or unlink.
inode and mtime are the creator and whether the pid is written. It is the
justification for one-step sections in `Coordinator.tla`, and its limit: after
an owner died, `FileLockStale` shows that two sections can overlap.

### ProjectStore.tla, UndoStack.tla

| State | In the code |
|---|---|
| `main`, `previous` | `project.json`, `project.prev.json`; `Torn` is bytes that do not parse |
| `history` | `history/rev-<n>.json` |
| `writer` | the save inside `project.lock`: before the copy, before the publication |
| `req` | per browser: step, kind, the project as it was loaded, the photo it undoes to |
| `latest` | whether a preview is the last operation begun (`opGen`) |
| `analysing`, `claiming` | background work that may still publish |

A project is its revision, content (the sequence of changes made), analysis
(version number), claim (permissions and preparation, which are written
together), preview, preview artifact (with what it was rendered from), approval
and undo stack. `Load` is the handler up to its checks; `Photograph`, `Rendered`,
`BeginSave` (check, merge, submit), `KeepPrevious` and `Publish` follow it, with
`Crash` between any two. The six kinds of request are an undoable edit, a change
of input, a filler change, an undo, a preview and an approval. Edits, inputs,
previews and approvals are *object saves* (the project computed from the
snapshot is merged); fillers and undo are *functional saves* (computed inside
the writer, which compare the revision there). The functional save of
`/project/select` compares nothing and adds its sources to whatever project there
is; it is `AddSaves` in `AssemblyWork`. A refused request changes nothing and is left out, except that a
refused preview has already become the latest operation (`RefusePreview`).

`UndoStack.tla` is what the undo button promises: a stack of contents, whose
newest change, and only that, can be lost. `ImplementsUndoStack` maps the stack
to the photos of the live steps, and `kept` to the previous copy.

Abstractions: corrections, proposals, templates and paths are not content of
their own; a save's fields are validated elsewhere; the wait for `project.lock`
is not here (it is the same protocol as `FileLock.tla`, with the difference
listed in section 6).

### Corrections.tla

The project's corrections, the photos of them, requests between load and save,
and one alignment job per id. An interval is a set of moments; a text is the
number of the request that typed it; words are the moments they take and the
text they were found for. `LoadCorrect`, `LoadOther`, `Photograph`, `Save`,
`Undo` are the requests (`applyCorrect`, `mergeCorrections`,
`droppedCorrections`); `Resume` is `GET project`; `JobLoad`, `JobPublish`,
`JobInterrupted` are `alignCorrectionJob` and `publishCorrection`; `Restart`
drops requests and jobs. A save is one step: what happens inside it is
`ProjectStore.tla`.

### Preparation.tla

| State | In the code |
|---|---|
| `project` | `project.json`: revision, content (the changes made), included sources, whether a correction is pending, how far each source is analysed, preview, the `preparation` record |
| `checkpoint` | per mode, the input that the reply in `proposal-checkpoint.json` or `proposal-adjust-checkpoint.json` answers |
| `pc`, `run` | where a call of `runPreparation` stands, and its local variables (`basis` is `proposalBaseKey`) |
| `before`, `tail` | the promises in `prepLocks`: the one a call waits for, and the last one |
| `aborted`, `latest`, `cancelled` | signals, `opGen`, the flag of `/cancel` |
| `edit`, `repair`, `analysing` | an edit, a `GET` that found an orphan, an analysis of its own, each between its load and its save |
| `answered` | observation only: the inputs for which a reply was kept |

A preparation is named by the number of its POST (`Post`, then `Enter` when the
promise before it resolves). `Open` and `Claim`, the stages (`VerifyMedia`,
`AnalyseAudio`, `DescribeImages`, `NextStage`), the proposal (`Settle`,
`LoadCheckpoint`, `Ask`, `Reply`, `Place`, `Apply`, `DiscardApplied`) and the end
(`StartPreview`, `Rendered`, `MarkTerminal`, `Leave`, `Release`) are the pieces
between two awaits that matter; `Stop` is `checkAlive`, and `ProposalFails`,
`RenderFails` and `Break` are the three kinds of `catch`. Others act in between:
`EditLoad`/`EditSave`, `SettleCorrection`, `Cancel`, `ManualPreview`,
`StartAnalysis`/`AnalysisArrives`, `FindOrphan`/`MarkOrphan`, `Restart`.

Abstractions: a save of a preparation and the load that follows it are one step
(what happens inside a save is `ProjectStore.tla`); the wait for corrections ends
when they are settled, or by its time limit; one paid call stands for the
generation of scenes with its repair and for the decisions on cuts and support that
follow; a gap in the coverage of images is an outcome like an error; requests of a
mode ask the same in words, so the key of a reply is the state it answers.

### AssemblyWork.tla

| State | In the code |
|---|---|
| `project` | `project.json`: revision, sources, those analysed, those the scenes use, the proposal of scenes, and the undo stack (`head`, `steps`) |
| `photos` | `history/rev-<n>.json`: the sources that the scenes of that revision used |
| `file` | the files with proposals: `template`, `speech`, `local` |
| `operation`, `gen`, `controller`, `previews`, `cancelled`, `inFlight` | `operation.stage`, `opGen`, the controller not yet aborted, `livePreviews`, the flag of `/cancel`, `speechProposalInFlight` |
| `call` | a request: what it was asked, where it stands, the revision it loaded, what it holds |

Requests interleave at every await. `Start` is the arrival; then every kind has
its own actions: edits (`EditLoads`, `EditSaves`), undo (`Undo`, `Restores`), sources
(`AddLoads`, `AddSaves`, `Remove`, `AnalyzeBegins` to `AnalyzeEnds`), previews, the
proposals (`ProposeLoads`, `SpeechLoads`, `TemplateBegins`, `LocalLoads` to `Publish`),
and their end (`AcceptReads`, `AcceptLoads`, `AcceptSaves`, `RejectReads`, `Unlink`,
`ApplyLoads`, `ApplySaves`). A save with a stale revision ends its request (`Stale`).
Of the content only which sources the scenes use is kept, which is what the two
properties tell apart. `AtOnce` bounds the requests under way at a time.

### Takes.tla

One take. Time is a row of cells; a list of ranges is the set of cells in it, and
normalising it is what sets do. `WordCells` are a word's own cells, `CutCells` also
some of the pause around it (`wordCutInterval`). Words are in the order in which they
begin and may overlap, since a transcript is checked one word at a time
(`A/analysis.ts:179-195`). Words in a row (`Rows`) go from where the cut of the first
begins to where that of the last ends (`Intervals`); a proposal goes as far as
each of its words does (`SpeechIntervals`). `MergeRemoved` is `mergeRemoved` with the
gaps it closes. `Remove`, `Restore`, `Protect`, `Unprotect` are requests of people,
`AcceptSpeech` a proposal for a phrase, `CutFiller` and `RestoreFiller` the layer of
fillers, `AcceptRhythm` that of rhythm. What the acoustics propose (`FillerRanges`,
`RhythmCells`) are constants; rhythm lies between the end of one word's cut and the
start of the next one's (`Pause`), and the words of one filler do not overlap, since
`classifyFillers` abstains there.

### Cleanup.tla

| State | In the code |
|---|---|
| `keep`, `fillers`, `journal` | `keep.txt`, `fillers.json`, `.fillers-session-pending.json` |
| `plan`, `index` | the engine's plan; whether the index of units exists |
| `stage`, `shown`, `aborted` | the job of `jobs.ts`: its stage, the review on the screen, its signal |
| `desired`, `pc`, `state`, `old`, `after` | the planning queue: every accepted change merged, where the flight stands, its copy, the previous plan, who is recovering |
| `calls`, `line` | the callers of `withPlan`, in order |

`Post`, `Turn`, `Update`, `RefuseFillers`, `Answered` are the requests; `Begin`, `EngineWrites`,
`EngineEnds`, `Persist`, `Outdated`, `Rollback` the flight with its generations;
`WriteJournal`, `WriteKeep`, `WriteFillers`, `Commit` the session, one write each, and
`UndoKeep`, `UndoFillers`, `UndoJournal` its recovery. `Fault` breaks a write off, `Crash` is
the end of the process and a start over the same folder. What a keep-list says is
left out.

### ProjectCleanup.tla

Projects with their `sources`, where each file is (`disk`), each project's transaction
file (`tx`), the ledger on disk (`index`, `released`) and in memory (`dirty`, `works`), the
locks (`holder`), a publication of sources per project (`pub`: `Want`, `Check`, `CommitPub`,
`Sync`) and the cleanups (`job`: one confirmation per project, and the boot: `Confirm`,
`ReconcileStarts`, `ReconcileRead`, `ReconcileWrite`, `Lock`, `Plan`, `Stage`, `CommitTx`, `Release`,
`Delete`, `End`, with `Undo` and `GiveUp`). They run side by side, and only the locks keep them
apart: confirmations of several projects reconcile and wait for the locks together, and
transactions that were broken off stay open until a boot, several at a time when no
resource of theirs is shared (`Pending`: a plan is refused for a transaction of its own project, or
one with a resource that the plan asks about, and not for others). `Crash` and
`Recover` are the end of the server and what its boot does about the transactions it lists,
one after the other, before it reconciles (`boot`), while requests are answered already.
Whether a plan is the one the user saw, and whether its time is over, is left open:
`Plan` may always refuse. `Wanted` bounds which sets of sources a project may publish.

### MediaUploads.tla

Per upload its transport (`kind`: through the server, the bucket, or Drive), `state`
(`.tmp/<id>/state.json`), `data` (the partial), `hash` (what each runtime has seen of it), `object`
(the bucket), `receipt`; the pool (`files`, `metas`); the worker and its queues (`job`, `line`);
`patch` and `deleting` are requests under way. Admission (`Create`, `FitsAlone`, `Fits`) looks
at the disk, and at what was promised before: the pieces that are `Written`, the copies in the
pool, and those `Due` to the reserved ones. A restart gives the reservations anew, the oldest upload
first (`Earlier`, `Own`). Bytes are counted in pieces, contents are
names; `Wrong` is what bytes that nobody sent would hash to.

### EditReservation.tla, EditorPage.tla

`EditReservation`: `file` is `edit-reservation.json` with the age of its signal in ticks;
each page has a `life`, a tab `id`, and requests (`req`) that travel: `Acquire`, `Beat`, `Take`,
`Hide` send, `Obter` and `Sinal` are the sections on the server, `Reply` and `Lose` the way
back. `Hello`, `Objected`, `Conflict` are the messages of the BroadcastChannel by which a
duplicated tab learns that its id is taken.

`EditorPage`: `server` is what matters of the server (revision, preview, approval,
operation), `call` the page's requests, `screen` what it shows, `pending` and `polling` its
timers, `player` and `watched` what was played. `Receive`, `Reconciled`, `Confirmed`, `Checked`,
`Polled` are the continuations of its requests.

### SpeechService.tla, ProjectRuntimes.tla

`SpeechService`: the runtime has a `client`, a client has a `child` and a `chain` of
requests, a process has a `job` and what it has written and nobody has read (`out`).
`Sweep` closes an idle client, `Abort` and `WatchdogFires` kill the process, `Reads` is
`dispatch` by task id: all requests have one, the case in which ids tell nothing.

`ProjectRuntimes`: the registry's `entry`, `lastUsed` and `active` of one project, the
runtimes made for it, requests and sweeps. A sweep lists before its first await
(`StartSweep`) and looks again at its turn (`Looks`, `Closes`); `Handle` may start the
ingest; `Trace`, `TraceEnds`, `JournalCloses` are its work; `Drain` is the runtime's `close`.

### Delivery.tla, Previews.tla, LimitedQueue.tla

`Delivery`: one approved revision, whose video may be rendered again with other bytes;
`dest` is `exports/<revision>` (video, manifest, confirmation, package), `lock` the lock
file with the pid in it, `record` `resolve-delivery.json`, `port` the port that one delivery at a
time listens on, `bridge` the Python process of a request. The removal of `exports/<revision>`
before the rename takes its pieces one by one in any order (`Without`), and may fail or die
with any part of them left, which the next export finds. One action per write or check:
`Locks`, `Signs`, `Looks`, `Clears`, `Copies`, `Validates`, `Removes`, `Renames`, `Records`, `Event`,
`Saves`, `TimesOut`, `Finishes`, `Restored`.

`Previews`: `dir` is `rev-<n>/`, `cache` is `preview-cache/<key>/`, `turns` the queue
`publishTurns`; a render decides, works in a folder of its own, publishes in turn and
prunes. A pruning reads `project.json`, then `exports/`, then the folders, then the photos
(`ReadsProject`, `ListsExports`, `ListsFolders`, `ListsPhotos`), and the project is edited, undone and
exported (`Exports` checks, `Deliver` publishes) between any two of these; marks and cache are read
with the photos, since nobody else writes them during its turn. `Removes` takes one
thing at a time; a folder or a cached video goes in one step, because one of which a part is gone
counts as gone for everybody who looks for its video. Whoever waits for its turn cannot fail before it has
come (`publishTurn`), and a pruning that fails costs the render nothing (`Pruned`).

`LimitedQueue`: `inFlight`, `waiters`, `shared` and `consumers` are the variables of the closure;
a work is named by the call that made it. `Start`, `Join`, `Begin`, `End`, `Leave`, `LastLeaves`,
`Drained`, `Abort`: what runs between two awaits is one step. `Without` is the `splice` by
which a waiter that gives up leaves the line.

### Composition, instances and proofs

Parts that share no state are run together, so that one run answers what would be
several: a variable `part` (in `PrepParts`, `chosen`) says which one runs, and the others stand still in their
initial state. The definitions of the first are the module's own, the others are
instances:

| Module | Its own | Instances |
|---|---|---|
| `EditingParts` | `Corrections` | `E` = `EditReservation` |
| `LiveParts` | `FileLock` | `G` = `Coordinator`, `Q` = `LimitedQueue` |
| `SafeParts` | `Cleanup` | `P` = `ProjectCleanup`, `M` = `MediaUploads` |
| `WorkParts` | `AssemblyWork` | `T` = `Takes`, `D` = `Delivery` |
| `PrepParts` | `Preparation` | `E` = `EditorPage`, `S` = `SpeechService`, `R` = `ProjectRuntimes` |
| `ServerParts` | `Coordinator` | `V` = `Previews` |

These modules have the constants of their parts and pass them on, so that what is proved of
them holds for all their values, and each assumes of them what its parts assume
(`PreviewsAssumption`, `LimitedQueueAssumption`, `TakesAssumption`, `DeliveryAssumption`).
`MCCoordinator`, `MCFileLock`, `MCProjectStore`, `MCSafeParts`, `MCServerParts`, `MCLiveParts`, `MCWorkParts`
give constants their values for TLC; `*_proofs` hold the theorems. Definitions that a comment calls a mutant, or that stand
before the one they resemble, are variants with a plausible bug; `PROJECT.json` says which
property each one breaks.

## 3. Runs and bounds

| Run | Instance | What it shows |
|---|---|---|
| `CoordinatorRun` | 2 calls of `run` for one task in 2 processes and a `withSlot`, 1 slot, 1 fault | `OneLiveBuilder`; `IsSingleFlight`: the answers are those of a single flight, with leases expiring and a crash or a disk error anywhere |
| `CoordinatorOverbooked` | 3 calls of `withSlot` in 2 processes, 1 slot, no fault | **violated**: `LimitRespected`, section 6 |
| `ServerRun` | 2 calls of `run`, each for its own task, and a `withSlot` in 1 process, batch and interactive, 1 slot, no fault; 2 renders, 2 montages, 3 revisions, 1 kept, 1 fault | `LimitUnlessRobbed`: a slot is never held twice under living leases, unless `withSlot` has unlinked the slot of somebody else; `RunsReleaseForGood`: `run` frees its slot for good; `KeepsItsPlace`: nobody loses its place in the queue; `CacheIsWhatItsKeySays`: renders and prunings side by side; `TakesOnlyOvertaken`: what a pruning may take of what the project refers to |
| `FileLockStale` | 4 calls, 2 processes, 1 fault | **violated**: `NeverTakesNewLock`, section 6 |
| `LiveRun` | the lock: 4 calls, 2 processes, 1 fault; the coordinator: a `run` and a `withSlot` in 2 processes, 1 slot, 2 faults; the queue: 3 calls, 2 of one key, 1 place | `LockIsEntered`, `EveryoneServed`: who waits is served, whoever dies with the lock, the slot or at the head of the queue; `PlacesAndWorksAddUp`: no place is lost or given twice |
| `ProjectStoreRun` | 2 browsers, 4 requests, an analysis, a preparation, a crash | `ApprovedIsWatched`, `SavesBuildOnNamedRevision`, and the refinement of `UndoStack` |
| `ProjectStoreMerge` | 2 requests, 2 analyses | **violated**: `SameRevisionKeepsAnalysis`, section 6 |
| `CorrectionsText` | 2 browsers, 2 corrections over 2 moments, 1 undo, 1 fault | **violated**: `AlignedWordsAreOfItsText`, section 6 |
| `EditingRun` | the same with 2 undos, 1 other save, 2 faults; 2 pages, a lease of 1 tick, 1 event | `CorrectionsSettle`; `LeaseHolds`, `TwoEditorsEnd`: who may edit |
| `PreparationRun` | 3 preparations, 2 sources, 3 events from outside; a page with 1 edit and 1 fault; 2 requests for speech, 2 clients, 2 processes; 2 requests and the timer, 2 runtimes | `EditsSurvive`, `OnlyCompleteEvidence`, `WorkIsNotAnOrphan`, `PaysOncePerInput`, `RunningEnds`; `QuietPageIsUpToDate`, `SeenWasPlayed`; `OutcomeIsItsOwn`; `ClosedAtRest` |
| `SafeRun` | 2 requests and the ingest, 2 keep-lists, 2 decisions, 1 fault; 2 projects that may both be cleaned, 2 files, 1 of which both may use, 1 work, 2 faults; 2 uploads of the same bytes, 2 pieces, 2 runtimes, room for 7, 1 fault | `SavedTogether`, `ScreenMatchesPlan`; `OthersKeepTheirFiles`, `DeletedIsGivenUp`; `MediaIsWhole`, `PromisesFit`, `NothingIsLost`, `CanceledStaysOut` |
| `WorkRun` | 3 requests, 2 sources, 2 at once; a take of 8 cells and 4 words, one of them within another, 4 changes; 2 requests for deliveries, 1 fault | `NothingRefersToRemoved`, `AppliedToWhatItWasMadeFor`; `RestoredIsHeard`, `OnlyTheNamedGoes`; `DeliveredWasRecorded`, `OpensAgain`, `KeepsTheCopy` |

The bounds, and why they are enough:

- *Coordinator.* Three calls are the least in which one holds, one waits and a
  third does something to both; in `ServerRun` each may hold the slot, so that all of
  it comes about that leads over the limit (`LimitRespected` is violated there too). A lease is one tick (`Lease = 1`), so every
  order of expiry and step occurs; `ExpiryLeases` is 1 instead of 4, which only
  makes waiters expire sooner. Ages stop growing past the expiry. Arrivals are
  distinct (the code's random `waiterId` breaks ties of `enteredAt`). No tick
  passes inside a section of the lock, as the code assumes of its
  `staleLockMs`. `MaxFaults` bounds crashes and disk errors together.
- *FileLock.* Two calls on each side of a crash: one to clear the orphan, one to
  be hurt. `Age` cannot reach a file whose call is in its section: a section
  lasts milliseconds and the limit is 30 s.
- *ProjectStore.* `UndoLimit` is 2 instead of 20, so that the limit is reached
  with three edits, and four requests allow an undo after them or an approval
  of a preview that another request overtakes. `MaxRequests` also bounds revisions. One
  analysis, one preparation and one crash are enough to meet every request in
  each of its steps.
- *Corrections.* Two moments give equal, disjoint and enclosing intervals;
  two texts and two undos let an id be used for a second text.
- *Preparation.* Three POSTs are the least in which one leaves while a second and
  a third are chained. `MaxEvents` counts everything that comes from outside:
  POSTs, edits, cancels, previews, analyses, failures, restarts; three let two
  preparations meet any one of them, or one preparation any two. One source is
  included from the start and another can be. A stage that goes well costs
  nothing, so every preparation can reach its end.
- *AssemblyWork.* A proposal made, an edit, and an acceptance are three requests;
  two of them under way at a time are every pair of kinds, before or after a third.
- *Takes.* The second of the four words lies within the first, the third and the fourth are
  behind pauses that vanish with the words, of which the rhythm takes the middle; a filler
  may be one word or two; four changes let two layers be put on and two taken off.
- *Cleanup, ProjectCleanup, MediaUploads, Delivery, Previews.* Two actors of each
  kind and one fault: a crash or a failing step between any two steps of two others. Two
  faults in `ProjectCleanup`, since a rollback may fail too, and two transactions can be left
  open by two failing steps, or by one and a crash. There one file is the one project's and the
  other may use it, and one is the other's own: the least with which both can be cleaned
  at a time. A disk with room for one and a
  half uploads, so that the second is sometimes refused. `Kept` is 1 of the
  program's 3, so that something is pruned among three revisions.
- *Reservation and page.* A lease of one tick, as above; six tab ids are more
  than two pages can use; one edit and one lost or late answer of a page.
- *Speech, registry.* Two clients and two processes are those before and after one idle
  sweep or one restart; two runtimes those of a project that is opened twice.
- Larger instances of single modules were run when they were written, with no other
  result: a page with two edits, three requests and processes of the speech service, three
  renders, a coordinator with two slots and a fault, the calls of `ServerRun` in two processes
  with a fault (1.1 million states of `LimitUnlessRobbed`, `RunsReleaseForGood` and `SlotInv`).
- Symmetry (`Browsers`, `Alike`) is used only in runs without liveness properties.
- `CHECK_DEADLOCK FALSE` in the runs of stores and of combined parts: when
  all bounds are used up nobody has anything left to do. In the other runs a
  `Finished` step stands for that, and deadlock is checked.

## 4. Fairness

Combined runs have no single fairness, so a liveness property of theirs is an
implication: `CorrectionsSettle == Fairness => PendingSettles`, and so on; `PrepParts`
has that of preparations in its specification.

- `Coordinator`: weak fairness of each call's own steps and of a heartbeat's
  write. The poll loop and the `finally` blocks are promises that the event loop
  runs, the lock lets each contender in (`EveryoneEnters` of `FileLock`), a build
  ends because its executor has time limits of its own, and time passes. Nobody
  has to call, cancel, crash or fail, and no heartbeat has to fire.
- `FileLock`: weak fairness of each call and of time.
- `Corrections`: weak fairness of `Resume` (the page asks for the project every
  few seconds), `JobLoad` and `JobPublish` (the worker answers or the wait ends
  in an error). Interruptions and restarts are bounded by `MaxFaults`; without
  that bound a correction could be interrupted for ever.
- `EditReservation`: weak fairness of a page that opens, of its acquire and its
  heartbeat, of the server's sections, of answers and of messages between tabs; what
  is lost and late is bounded by `MaxEvents`. Time need not pass.
- `Preparation`: weak fairness of each preparation's own steps that succeed (calls
  to services and workers end or time out; the event loop runs) and of
  `FindOrphan` and `MarkOrphan` (the page asks for the project every few seconds).
  Failures, other operations and restarts are never forced. Nothing is assumed
  of edits, corrections or analyses: the wait for a pending correction ends
  by its own limit.
- The other modules promise nothing in these runs that must happen, and their
  specifications have no fairness (`LimitedQueue` and `Cleanup` define one for runs
  of their own).

## 5. Proofs

Proved for every value of the constants that satisfies the assumptions named in
the modules. The theorems a reader should know are in `PROJECT.json`. Each proof
module has one lemma per action of its component, and a theorem that puts them
together. Below is what each inductive invariant says beyond the property, and
why it has to.

**Coordinator** (`ServerParts_proofs`). `TypeCorrect`. Then `LeaseInv` (`LeaseAlways`): a task with an owner is
running; a completed one has a result; a call that works under a living lease
owns its task for at least as long; a heartbeat between its two writes owns it
too; a call settles once. `SameResult` alone is not inductive: that a late
builder cannot publish follows from ownership, and that ownership is not
doubled follows from the lease. From it: `SingleBuilder`, `OneResult`,
`ResultIsFinal` and `RefinesSingleFlight`, whose steps map one by one
(`Publish` to `Publish`, the last step of a call to `Return` or `Reject`, the
others to stuttering).

`SlotInv` is about slots, for calls of `run` and `withSlot` side by side. A call that works under
a living lease owns its slot file for at least as long, unless it was robbed
(`HoldersOwnSlots`); no slot is claimed by another while a heartbeat stands between its read and its
write, though it may be unlinked (`BeatersOwnSlots`); a heartbeat of `run` that stands there has a
call that has not yet freed its slot (`BeatersRelease`), and a slot of `run` belongs to the call
that remembers it (`OwnersRemember`). It gives `LimitHolds` and `RunFreesForGood`. What `withSlot` breaks
is what `robbed` names and the slot it writes back itself (section 6, 1
and 5), and nothing else. `OneOvertake`
rests on `OvertakenIsMarked`: an overtaken batch call carries the mark, in its
record or, while it follows, in its own memory. `WaitersKeepTheirPlace` is for
calls of one process (`ProcOf[c] = ProcOf[d]`): whoever reads the queue keeps every
record whose call lives in its own process, however old it is, and whoever writes
it takes out only its own. Across processes a late heartbeat does cost a place, as the
code intends.

**FileLock** (`LiveParts_proofs`). `LockTypeCorrect`; `LockExcludes` from `LockInv`: until the first
fault every file on disk belongs to a call in its section, so none looks
abandoned.

**ProjectStore** (`ProjectStore_proofs`). `StoreInv`: what a request holds is a project that was there,
and the present one *follows* it - a later revision, or the same one with the
same content and, once rendered, the same artifact - so a save that passes
the revision check is computed from the present content; and between the two
publications of a save the copy is the project. It gives `StoreTypeCorrect`,
`ProjectAlwaysReadable`, `OnlyWatchedIsApproved`, `NoChangeIsLost` and
`DecisionsAreKept`.

The refinement, `UndoIsAStack == Spec => ImplementsUndoStack`, rests on `UndoInv`
(`StackIsSound`): every step of the project's stack, and of the copy's, has the photo of
its revision, and the photo has the content that the step replaced. No request can
spoil it: a photo is made by whoever is about to save from a revision, and all who
loaded one revision loaded one content (`RequestsAgree`), so that two photos of a
revision are equal. For a request that undoes, the photo it holds is that of the newest
step of the project it loaded (`RequestsUndo`), and a save in the writer does one of
four things to the stack: adds a step, takes one, ends it, or leaves it
(`WriterUndoes`). Of the abstract steps `Publish` is `Change`, `Undo` or none,
`KeepPrevious` and a copy torn by a crash are `Keep`; the abstraction's loss of the
newest change is never needed.

**Corrections** (`EditingParts_proofs`). `StoreInv`: every set of corrections there is (project, photos,
requests) is sound, and a request whose revision is current loaded the ids that
are there now, so that a merge is exactly what it submits. It gives
`CorrectionsNeverOverlap` and `AlignedWordsStayInside`.

**Preparation** (`PrepParts_proofs`). `OneAtATime` alone is not inductive: that a preparation may enter when
the one before it has left does not say that no third is inside. `ChainInv`
(`ChainAlways`) does: preparations are numbered in the order in which they chained
themselves; all that wait or work come up to `tail`; and as soon as one is in,
all before it have left. It gives `OnlyOneInside`, with aborts, breaks and
restarts anywhere.

On it stands `Work` (`WorkAlways`), the invariant of what a preparation knows:

- `VerdictOf`, `AnalysisAlone`: what is left to do is part of what there was to do, and an
  analysis somebody asked for runs only while no operation is the latest one;
- `EditFits`: an edit that loaded the present revision loaded the present content, and a
  record that runs in the project runs in its copy;
- `RecordOf`: whatever record bears a preparation's id, in the project or in what an
  edit may bring back, says "ready" of a source's images only when its evidence is full
  or failed;
- `BasisOf`: the input of a proposal was complete when it was taken and, while the
  project is still that of the preparation and at that revision, is still;
- `AnswersFit`, `AnswersOf`: a reply that was paid for is on disk and, as long as it
  counts, answers the input of whoever has one by now.

`EditsAreKept` and `WorkersMarkThemselves` need `EditFits`, `AppliedOnCompleteEvidence` needs
`RecordOf` and `BasisOf` at the one moment at which scenes are replaced, and
`NothingIsPaidTwice` needs `AnswersOf`.

**SpeechService, ProjectRuntimes, EditorPage** (`PrepParts_proofs`). They are proved as the parts of
`PrepParts` that they are in the run.

`SpeechInv` (`SpeechInvariance`): where all answers bear the same id, an answer is one's own because
of where it stands. The request that runs is the head of its client's chain and is `on` the
client's process; that process is alive, nobody else's, and has the request that runs or its
answer, never both and never another's (`ClientFits`); and a request that has not ended keeps
its client open (`RequestFits`), which is why the sweep, that closes a client, meets none. It gives `NobodyElsesOutcome`.

`RegistryInv` (`RegistryInvariance`): while the server is up, `active` is the number of requests that
have a runtime, counted as a set (`Visitors`), so that zero means that nobody is in it; the
open runtime is the entry (`UpFits`), and the one request that created it may forget it
(`CreatorsFit`); and a runtime on its way to be closed has at each stage only work that the stages
before it left (`Sound`). It gives `ClosesAtRest`, after a shutdown too.

`PageInv` (`PageInvariance`) says of every answer in flight, and of the screen, that it was `Known`: true
of the server, whose preview of that revision is still there. `Cared` is the strengthening that
`QuietPageIsUpToDate` needs: the newest revision is shown with its preview, or something that is
under way will see to it, a timer, a poll of a server that is rendering, an answer that
`Brings` the newest revision, an automatic preview until its last answer, or a refused
preview of a person (`Retries`). Each continuation of a request keeps one of these alive; the reconciliation
after the conflict of an edit does not (finding 16), nor one that shows what is no longer there,
and `late` says that there was one. It gives `RestsUpToDate` and `ApprovesWhatWasSeen`.

**AssemblyWork** (`WorkParts_proofs`). `IInv` relates the project on disk to everything that
was computed from an older one and may still come back. `CopiesInv`: a copy that a request
loaded has the sources, scenes and steps of the project if it has its revision, and its
photo, taken late, spoils none that can be restored. `MadeInv`: a proposal, wherever it is
kept, uses sources of the content it was made for only; one for the present revision was
made for the present content; and an id names one proposal. `ProjectInv`: every step that
can be undone has a photo, of sources that are still there. `Fresh` and `Staged` say who may
still make a proposal and what a request holds at each stage. The steps are proved by
what they do and not by their names (`KindsOfSteps`): quiet, one proposal more, or one of
five kinds of writes. It gives `NothingRemovedIsReferredTo` and `ProposalsFit`.

**Cleanup** (`Cleanup_proofs`). `IInv`: where the session stands, the loading and the recovery go
together (`StepsFit`); for every point of the session, which of the three files are
already the new ones and what the journal says of the old (`OnDisk`); what a flight will
save was asked for (`Asked`); and the plan on disk is that of the flight's copy, or the
previous one while it is being made (`Review`). It gives `SavesTogether` and
`ScreenAndPlanMatch`. Neither property is inductive by itself: both speak of moments at
which nothing is under way, and a crash or a failing write leaves the session at any other.

**ProjectCleanup, MediaUploads** (`SafeParts_proofs`). Both are proved as the parts of
`SafeParts` that they are in the run.

`CleanupInv` (`CleanupInvariance`) relates four things that are written at different times:
who holds which lock at each step of a cleanup, of a publication and of reconcile
(`HoldersFit`); that what a publication has checked and not yet written is still at home, in a
project nobody is cleaning (`AddedAreHome`); that a ledger without open bookkeeping names every
source in use, except those of a publication that has renamed `project.json` and still holds
its lock, and that so does what reconcile has read and not yet written
(`LedgerIsComplete`); and that the files of a transaction are used by nobody else, and those in
quarantine are in a transaction that is open (`TransactionsFit`). A plan is made from the ledger,
under the publication lock: there the exception of `LedgerIsComplete` is void, so that a file the
ledger gives to one project is used by no other. The locks alone do not say so, the
ledger alone does not either. It holds whether or not the registration of a work may fail
(`RegisterMayFail`; finding 8 is about the works' own reading). It gives `NobodyLosesAFile` and `OnlyGivenUpIsDeleted`.

`UploadsInv` (`UploadsInvariance`) speaks of one upload at a time: pool, receipts of others and the
runtimes' hashes do not matter to it, but for the metadata and files that are already there.
Each action leaves the other uploads alone (`OthersRest`), has a lemma that it `Settles` its own,
and `Restart` settles all. Its parts: what a `PATCH` between its write and its answer owes
(`PatchFits`); a partial through the server has all that was confirmed (`LocalFits`); at each
step of a worker either the bytes it hashed are those of the partial, or it will hash them
again and the state confirms that all are there (`WorkerFits`); what is published is what was
uploaded (`PublishingFits`); a canceled upload is on its way out and no worker stands before its
receipt (`CancelFits`); and what was accepted is in the partial, the pool or the bucket
(`KeptFits`). `WorkerFits` is what makes `MediaIsWhole` inductive: a worker that is aborted leaves a
shorter or longer partial behind, and the next one starts from what the state says. It gives
`PoolIsWhole`, `NothingAcceptedIsLost` and `CanceledIsNotPublished`. The order in the queues is left
open in the proof, and no property needs it.

The room on the disk is about all uploads at once. `RoomInv` (`RoomInvariance`) gives each upload a
`Claim`: its partial and a copy when it is reserved, the partial alone once the copy is in the
pool, what it has written when it is not reserved; the claims and the files of the pool are within
the capacity, and a worker that reads, checks or publishes has its reservation (`Holds`). Room is
counted as the set of pieces under the claims (`HeldBy`), so that `LessIsHeld` compares two states by
inclusion, and `CheckIsRoom` turns the check of the code into the same measure. An action either
leaves every claim as it was or lower (`LighterFits`), or has passed the check with the disk of before
or after it (`CheckedFits`). Two do neither: `Rename` trades the copy an upload was owed for a file
(`RenameFits`), and after a restart the last upload that got its reservation was checked beside all
the others that got theirs (`OneIsLast`, `RestartFits`). `PromisesAreKept` follows: what is
promised (`Reserved` and not published) is part of the claims.

**EditReservation** (`EditingParts_proofs`). `LeaseInv` says no more than that the file has an id and
an age; what there is to prove is that every section of the server other than a takeover that
writes another id does so over no file or a stale one (`FreshLeaseHolds`): each section reads
again what it writes, so no earlier answer matters, however late it is.

**Previews** (`ServerParts_proofs`). `VideoInv` has two halves. One is about what a video is
of: from the engine to the link a render carries a video that fits its key
(`PublishesItsOwn`), and between the rename and the link the folder of its revision still
holds that video, because nobody else is in its turn (`TurnsHold`; with turns that do not wait
it does not hold). It gives `CacheFitsItsKey`. The other half is about what a pruning
has read and what it is about to remove, while the project goes on (`SeenIsOld`). While it reads,
what the project refers to by now and referred to then is protected (`ReadsWell`): a preview
recorded or a step pushed since is of a revision no older than the one it read. When it
removes, each thing on the list has `Kept` newer revisions, and what the project refers to on it
came to be referred to after the reading (`ListsOld`); the first because whatever is listed was
not among the newest (`NotRecent`), and nothing on disk is of a revision to come
(`NothingAhead`). It gives `PruningTakesOnlyOvertaken`. That it takes
nothing the project needs is not so (section 6, 6).

**LimitedQueue** (`LiveParts_proofs`). `QueueInv`: who waits is in the line once (`LineInv`); the count is
the cardinality of the works that hold a place, and while anybody waits all places are
taken (`PlacesInv`); the count of consumers of a work is that of the calls that follow it
(`ConsumersInv`), which is why the last one that leaves, and no other, cancels it; and the work a
call follows by its key is the one the key names (`SharedInv`). A release that grants leaves the
count as it is: one work less, one more. It gives `PlacesAddUp`.

**Takes** (`WorkParts_proofs`). `TakeInv`: the record of a filler's cut has all cells of those of its
words that overlap no other (`HasItsWords`), so that restoring it uncovers them. The lemma on which
`NothingElseGoes` rests is about merging (`BridgesAreSilent`): a gap that is filled between two
cuts lies in a pause, whatever cuts they are, since a gap with a piece of a word in it is not
`Mergeable`. What is left is the ranges themselves: a row of words that does not have a
given word in it does not reach into it when it overlaps no other (`IntervalsOfWords`,
`RhythmIsBetween`). `RestoredWordsAreHeard` needs that a restore takes the words out of all
four layers at once. The take's length, its words and its cuts are any; nothing is assumed
of how words overlap, and both theorems say for which of them they speak (`Alone`).

**Delivery** (`WorkParts_proofs`). `VideosInv` (`CarriesVideos`): the video that a request checked was recorded,
what it copied is valid only when it is that one, and only a valid copy reaches the rename;
while nobody confirms, video and manifest in `exports/` are of one export, whatever part of a
folder a removal has left. It gives
`DeliveredVideosWereRecorded`. `RecordsInv` (`Fits`) is about one record that many requests write. A
delivery between its first and last look at the record holds the port, and so nobody else
does; once it has recorded, what it has in memory, what it still has to save and what is on
disk bear its own id and the copy that was ready when it began; before that, what it
read is what is there; and a bridge whose request has gone on finds it `closed`. So whoever reads
the record meets no operation that is `active`, which gives `InterruptedDeliveriesOpenAgain`, and the
copy that was ready goes along in every record, which gives `TheCopyIsKept`.

**Constants.** The assumptions are that model values are told apart and bounds are
numbers; `ProcOf[c] = ProcOf[d]` is a hypothesis of `WaitersKeepTheirPlace` and says how a coordinator
is used. The files of a delivered project have one home each
(`HomeOf`), and names of locks, works and projects differ; the list of uploads (`Order`) names each
once.

**Proved, and no longer in a passing run.** Type invariants, `NoOverlap`,
`AlignedInsideInterval`, `SameRevisionKeepsDecisions`, `CompletedIsFinal`, `SameResult`,
`OvertakenOnce`, `AlwaysReadable`, `ExclusiveUntilFault`, `OneAtATime`. TLC checked all of
them when they were written, and every inductive invariant before its proof on the instances of section 3 or smaller ones
(`AssemblyWork` 5.1 million states, `Cleanup` 1.5, `Preparation` 6.3, `UndoInv` 4.2; `CleanupInv`,
`UploadsInv` and `RoomInv` on all of `SafeRun`; `RegistryInv`, `SpeechInv` and `PageInv` on the parts of
`PreparationRun`, and 8 million states of `PageInv` with two requests of people and three edits;
`LeaseInv` of the reservation, `VideoInv`, `QueueInv`, `TakeInv` and `DeliveryInv` on all of `EditingRun`, `ServerRun`,
`LiveRun` and `WorkRun`).

**Only model-checked.** Everything about liveness (`EveryoneServed`, `LockIsEntered`,
`CorrectionsSettle`, `TwoEditorsEnd`, `RunningEnds`: the prover has no fairness or `ENABLED`).
Every invariant and action property of a passing run is proved.

## 6. Where the code and its words disagree

Runs that TLC finds violated:

1. `CoordinatorOverbooked`. The release of `withSlot` reads its slot and unlinks the file in a
   later step. When the lease runs out in between and another call claims the slot, the unlink
   takes that claim away, and a third call works beside the second with a limit of
   one, where `coordinator.test.ts:158` says that different clients are serialised. The speech
   coordinator of the product uses `withSlot` (`A/routes.ts:393`). Nothing else breaks the limit
   (`LimitUnlessRobbed`).
2. `FileLockStale`. `clearStaleLock` says that it checks again so as not to take a new
   lock away. The second `stat` and the `unlink` of the path are two calls; a second
   contender can remove the lock that the first has just created.
3. `ProjectStoreMerge`. `mergeProjectCommit` says that an old snapshot does not
   erase an analysis at the same revision. It compares approvals, previews and
   claims with the snapshot, but not analyses: a preview that began before an
   analysis puts the older one back when it ends.
4. `CorrectionsText`. `settleCorrection` says that an obsolete correction is
   discarded by a revision check before it. `publishCorrection` has none, and ids are used
   again: after an undo and another correction of the same stretch, the job
   of the first text settles the second with its words.

Found while modelling, with the definition that states it:

5. `packages/coordinator/src/index.ts:570`: `withSlot` frees its slot outside the lock. A heartbeat that has
   read the slot writes it back after the release, and the slot stays taken for
   a whole lease with nobody working. `run` frees its slot under the lock and
   is proved not to do this (`ReleasedStaysFree` in `Coordinator.tla`: TLC finds it violated in the
   instance of `CoordinatorOverbooked`).
6. `A/retention.ts:151`: `pruneProject` promises to keep what the project refers to, and reads
   `project.json`, `exports/`, the folders and the photos one after the other, without the
   project's lock. With more edits in between than revisions are kept, it takes the photo of a
   step that can be undone by then, or the video of a preview or delivery recorded
   since. It takes no more than that (`TakesOnlyOvertaken`). TLC finds
   `NeededStays` of `Previews.tla` violated with one render, one montage, six revisions and the
   program's three kept.
7. `A/words.ts:139`: `wordCutInterval` says that it never cuts inside the word beside. The cut of a
   word is never shorter than the word, so one within which another begins takes it along; and
   the rhythm looks for a pause after the word that lies within, and cuts the rest of the longer
   one (`A/rhythm.ts:7` says that words never enter the cut). TLC finds `NeverCutsTheNeighbour` of
   `Takes.tla` violated in the take of `WorkRun`.
8. `P/resource-ledger.ts:449`: a work whose registration failed runs on and only
   marks the ledger incomplete, and the reconciliation at the start of the next cleanup
   clears that mark, so that files being read are moved away (`WorkKeepsItsFiles` in
   `ProjectCleanup.tla`, with `RegisterMayFail`).
9. `packages/queue/src/index.ts:165`: a shared work that its last consumer has left stays
   joinable until it settles, and who joins it is answered with a cancellation that
   it did not ask for (`OnlyOwnCancel`).
10. `P/media-runtime.ts:1133`: the state of an import from Drive that failed never expires,
   where `docs/upload-drive.md:55` gives it 24 hours (`Expire`).
11. `A/routes.ts:1869`: a preview refused for its revision leaves the operation
   "rendering", which refuses the removal of a source; a generation of scenes whose
   model call fails leaves "proposing" (`OperationEnds` in `AssemblyWork.tla`).
12. `A/rhythm.ts:249`: going back to a rhythm without cuts gives a pause back between two
   removed words (`RhythmKeepsCuts` in `Takes.tla`).
13. `A/page.js:118`: after a render that failed the page asks for it again and again,
   where `page.js:296` says that it does not.
14. `A/export.ts:103`: a confirmation may end up beside a video exported after it was
   checked (`ConfirmedIsWhatIsThere` in `Delivery.tla`); and `export.ts:200`: an export that
   reads the lock file before the pid is in it takes it for abandoned.
15. `A/render.ts:255`: a cached montage is probed before its turn, and may be pruned
   before it is linked (`CachedIsLinked` in `Previews.tla`).
16. `A/page.js:124`: the reconciliation after a conflict shows the newest revision and schedules
   no preview of it. Edits are not sent one at a time (`A/editor/texto.js:1673`), so a second one
   may be refused; when the answer to the first, which says that the server renders, has
   taken the pending preview away, the page ends quiet with a revision that has none, where
   `page.js:232` promises one after every edit. `QuietPageIsUpToDate` holds but for this (`late`).

The definitions named in 5 to 15 are in the modules and no run checks them; where an entry says that
TLC finds one violated, it was run when the entry was written.

Seen while modelling, in keeping with the code's words or outside the
properties: a new revision replaces permissions and preparation by those of its
snapshot, whatever was granted meanwhile (`A/store.ts:752`); a revision lost in a
crash is given out again, so two contents may have had the same number;
`createProject` writes `project.json` with no copy beside it; an empty
`project.lock` counts as abandoned (`Number("")` is 0, `A/store.ts`), where the
coordinator's lock waits 30 s; functional saves ignore the revision that is
passed to them; those of fillers and undo check it in their callback instead, and that of
`/project/select` checks nothing and adds its sources to the present project, as its comment
says (`A/routes.ts:1165-1171`).

In `Preparation`: an edit that loaded the project before a claim or a mark puts the
record back to what it was, so a preparation may find itself replaced by an older
one, or marks of its stages gone, and stop; a manual preview makes a running
preparation obsolete, which then leaves no mark of its own, and is shown as
running until a `GET` repairs it; a cancel that arrives before the claim leaves no
record at all, since `stillCurrent` is false by then, although the comment at
`A/preparation.ts:377` says that it does (it is true of callers whose `isCurrent` does
not look at the cancel, as in the tests); `send` looks at the evidence before it
pays, but not at whether the input has changed, so a reply may be paid for that is
then not kept.
In the editor page: the guard of `A/page.js:111` lets an answer of the same revision
through, so a late one can take an approval off the screen until the next action; the
reconciliation after a conflict may show an older project, which the page means to do.
In proposals: `takeCatalog` (`A/scenes.ts:57`) gives a take id that is in two scenes the
last one's copy; a proposal can never delete a scene; protecting a word that is
already removed makes every proposal that touches its scene refuse; the end of a
speech proposal sets "idle" whatever else has begun (`A/routes.ts:1582`); accepting or
rejecting may unlink a proposal that replaced the one it read. In takes: a filler of
several words that is partly covered by a removal keeps all of what it took
(`A/words.ts:385`); a row of words ends where the last of them ends, so that restoring a word together
with one that lies within it leaves the rest of the longer one removed (`A/words.ts:199`). The undo stack ends at a change of format, as documented.

In the cleanup session: a job stays in its stage when putting the previous plan back
fails. In delivery: the folder of an export is made under its final name before it is
published, so an overlapping export collides; an approval is of a revision, not of
the bytes of its video (`A/export.ts:208`); a crash inside the removal of the old
folder, or between it and the rename, loses the delivery or leaves a part of it that passes for
nothing, and one between the creation of a project
in Resolve and its record loses the record. In previews: linking a name to itself
leaves a `.tmp` (`A/render.ts:178`); a pruning may take the folder of a render of an old
revision; two renders of one revision with different encoders may record the hash of
one where the bytes of the other are. In the registry: a request that waits in a sweep
while the registry closes makes a runtime nobody closes, and one runtime that fails to
load makes `close` reject before the others are closed. In the speech worker: `run_job`
answers before its last `worker.end`, so that a retry with the same task id may lose
its mark.

## 7. Not modelled

Pure I/O and numeric code: ffmpeg, the workers' models, signal measurements,
benchmarks, network imports, the look of the pages, deployment. In the parts that are modelled:
how files are named and parsed, validation of fields, the migration of old
projects and their creation. Components without a module: the artifact cache
(a module that relies on it takes an artifact to be seen whole or not at all), login,
templates, the paid call budget, measurement packages, triage, the storage
lock (where it is used its sections are steps), the hub's pages.

## 8. Plan

Done: the modules of section 2, with the proofs of section 5.

1. `Timeline`: what `A/scenes.ts`, frames and support compile to, against a reference
   definition.
2. `Pipeline` and the server's other jobs; `StorageLock`, with its abandoned owner
   (the one hazard listed without a property).
3. `TextEditor` (`A/editor/texto.js`): selection and pending changes against answers.
4. `Templates`, `TypeSafeBudget`, login, triage.
5. Refinements of small specifications, as of `UndoStack` and `SingleFlight`, for the delivery (one
   copy that is open or not) and for the uploads (a set of whole files).
