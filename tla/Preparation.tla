----------------------------- MODULE Preparation -----------------------------
(***************************************************************************)
(* apps/cli/src/app/assembly/preparation.ts, preparation-recovery.ts and   *)
(* the handlers of routes.ts that start, cancel and repair preparations.   *)
(* A preparation is the background work behind one POST prepare or adjust: *)
(* it claims the project, verifies, transcribes and describes each source, *)
(* pays for a proposal of scenes, applies it and renders a preview, saving *)
(* after each piece of work, while people go on editing, cancel, start     *)
(* another, or the server is restarted.                                    *)
(*                                                                         *)
(* A save of a preparation is functional (computed from the project as it  *)
(* is by then) and followed by a load: one step here. An edit computes the *)
(* new project from the one it loaded: two steps. Every source has sound   *)
(* and video, both paid uses are allowed, and all requests of a mode ask   *)
(* the same (in words, so that none is refused because one is running).    *)
(***************************************************************************)
EXTENDS Integers, Sequences, FiniteSets, SequencesExt

CONSTANTS MaxPosts,      \* bound on POSTs; each starts one preparation
          Source,
          FirstSources,  \* those included from the start
          Nobody,
          Editor,        \* marks a person's change in the content
          MaxEvents      \* bound on what comes from outside: POSTs, edits,
                         \* cancels, previews, analyses, failures, restarts

Null == -1
Prep == 1 .. MaxPosts
Modes == {"prepare", "adjust"}

ASSUME PreparationAssumption ==
  /\ MaxPosts \in Nat
  /\ FirstSources \subseteq Source
  /\ Nobody \notin Prep /\ Editor \notin Prep
  /\ MaxEvents \in Nat

VARIABLES
  project,    \* project.json
  checkpoint, \* per mode, the checkpoint file: the input its reply answers
  pc,         \* where each preparation stands
  before,     \* the promise it waits for (prev, in withPreparationLock)
  run,        \* its local variables
  tail,       \* the last promise in prepLocks
  aborted,    \* preparations whose signal is aborted
  latest,     \* the preparation begun last, unless something else was (opGen)
  cancelled,  \* the flag of /cancel
  edit,       \* the edit between its load and its save
  repair,     \* whether a GET found an orphan and is about to mark it
  analysing,  \* the source an analysis of its own is under way for
  answered,   \* observation: per mode, the input whose reply was kept
  events      \* bound: what came from outside so far

process == <<pc, before, run, tail, aborted, latest, cancelled>>
browser == <<edit, repair, analysing>>
vars == <<project, checkpoint, process, browser, answered, events>>

Stage == {"pending", "ready", "error"}
Status == {"running", "ready", "attention", "interrupted", "cancelled"}
Evidence == {"none", "failed", "speech", "full"}
Steps == {"none", "waiting", "opening", "claiming", "media", "audio", "visual",
          "settling", "proposing", "asking", "awaiting", "placing", "writing",
          "applied", "previewing", "rendering", "stopping", "marking", "leaving", "releasing",
          "ended"}

NoStages ==
  [s \in Source |-> [media |-> "pending", audio |-> "pending", visual |-> "pending"]]
NoRecord == [id |-> Nobody, mode |-> "prepare", base |-> Null, status |-> "cancelled",
             sources |-> NoStages]
NoEvidence == [s \in Source |-> "none"]

\* proposalStateKey: all a proposal depends on; and the same without what the
\* describing of images adds (proposalCleanupKey).
StateKey(p) == [rev |-> p.rev, content |-> p.content, included |-> p.included,
                pending |-> p.pending, analysis |-> p.analysis]
CleanupKey(key) == [key EXCEPT !.analysis =
  [s \in Source |-> IF key.analysis[s] = "full" THEN "speech" ELSE key.analysis[s]]]

NoKey == [rev |-> Null, content |-> <<>>, included |-> {}, pending |-> FALSE,
          analysis |-> NoEvidence]
NoRun == [mode |-> "prepare", base |-> Null, contended |-> FALSE, targets |-> {},
          todo |-> {}, basis |-> NoKey, shown |-> Null, verdict |-> "none"]

BlankProject ==
  [rev |-> 0, content |-> <<>>, included |-> FirstSources, pending |-> FALSE,
   analysis |-> NoEvidence, preview |-> Null, prep |-> NoRecord]
NoEdit == [step |-> "idle", kind |-> "none", loaded |-> BlankProject]

Init ==
  /\ project = BlankProject
  /\ checkpoint = [m \in Modes |-> NoKey]
  /\ pc = [p \in Prep |-> "none"]
  /\ before = [p \in Prep |-> Nobody]
  /\ run = [p \in Prep |-> NoRun]
  /\ tail = Nobody
  /\ aborted = {}
  /\ latest = Nobody
  /\ cancelled = FALSE
  /\ edit = NoEdit
  /\ repair = FALSE
  /\ analysing = Nobody
  /\ answered = [m \in Modes |-> NoKey]
  /\ events = 0

-----------------------------------------------------------------------------
(* What a preparation looks at.                                            *)

\* Between the start of its body and the release of the lock (prepActive), and
\* from the POST to its very end (prepHeld).
Inside == Steps \ {"none", "waiting", "releasing", "ended"}
Started(p) == pc[p] \notin {"none", "ended"}

\* Mutant: the hold is not given back.
IsPreparationHeld == \E p \in Prep : pc[p] # "none"

IsPreparationActive == \E p \in Prep : Started(p)

\* stillCurrent, checkAlive, and with it the check of the id after each save.
IsCurrent(p) == ~cancelled /\ latest = p
NotStopped(p) == p \notin aborted /\ IsCurrent(p)
Alive(p) == NotStopped(p) /\ project.prep.id = p

\* Mutant: sources included on the way are not looked at.
BlockedOnTargets(p) ==
  \/ project.included = {}
  \/ \E s \in project.included \cap run[p].targets :
       \/ \E part \in {"media", "audio", "visual"} : project.prep.sources[s][part] # "ready"
       \/ project.analysis[s] \in {"none", "failed"}

\* proposalBlockedReason, with at least one word of speech in every analysis.
Blocked(p) ==
  \/ project.included = {}
  \/ \E s \in project.included :
       \/ s \notin run[p].targets
       \/ \E part \in {"media", "audio", "visual"} : project.prep.sources[s][part] # "ready"
       \/ project.analysis[s] \in {"none", "failed"}

\* Mutant: the images, which come back from the cache, count as a change.
UnresumableByStateKey(p) ==
  IF run[p].basis # NoKey
  THEN StateKey(project) # run[p].basis
  ELSE checkpoint[run[p].mode] # NoKey /\ StateKey(project) # checkpoint[run[p].mode]

\* discardUnresumableCheckpoint: whether the kept reply can be of no more use.
Unresumable(p) ==
  IF run[p].basis # NoKey
  THEN StateKey(project) # run[p].basis
  ELSE /\ checkpoint[run[p].mode] # NoKey
       /\ CleanupKey(StateKey(project)) # CleanupKey(checkpoint[run[p].mode])

\* The observer: a reply was kept for this input, and nothing but the evidence
\* of images has moved since (nor has an analysis of its own arrived).
Observed ==
  answered' = [m \in Modes |->
    IF checkpoint'[m] # NoKey /\ checkpoint[m] # checkpoint'[m] THEN checkpoint'[m]
    ELSE IF CleanupKey(StateKey(project')) # CleanupKey(answered[m]) THEN NoKey
    ELSE answered[m]]

-----------------------------------------------------------------------------
(* Starting: the handler, and withPreparationLock.                         *)

Happens == events < MaxEvents /\ events' = events + 1

GoTo(p, step) == pc' = [pc EXCEPT ![p] = step]
Frame == <<before, tail, aborted, latest, cancelled, browser>>
Keeps == UNCHANGED <<Frame, answered, events>>

\* Scenes come from the first proposal applied.
HasScenes == \E i \in DOMAIN project.content : project.content[i] \in Prep

\* begin: what is under way is aborted, and this is the latest operation now.
Begin(op) ==
  /\ cancelled' = FALSE
  /\ aborted' = aborted \cup {q \in Prep : Started(q)}
  /\ latest' = op
  /\ analysing' = Nobody

NewRun(mode) == [NoRun EXCEPT !.mode = mode, !.base = project.rev,
                              !.contended = \E q \in Prep : pc[q] \in Inside]

\* POST prepare or adjust, for the revision that is current, up to the first
\* wait of runPreparation. With no promise before it, it is inside at once.
Post(p, mode) ==
  /\ pc[p] = "none" /\ \A q \in 1 .. p - 1 : pc[q] # "none"
  /\ Happens
  /\ mode = "adjust" => HasScenes
  /\ Begin(p)
  /\ run' = [run EXCEPT ![p] = NewRun(mode)]
  /\ before' = [before EXCEPT ![p] = tail]
  /\ tail' = p
  /\ GoTo(p, IF tail = Nobody THEN "opening" ELSE "waiting")
  /\ UNCHANGED <<project, checkpoint, edit, repair, answered>>

\* The promise before it is resolved: that preparation has left.
Enter(p) ==
  /\ pc[p] = "waiting"
  /\ pc[before[p]] \in {"releasing", "ended"}
  /\ GoTo(p, "opening")
  /\ Keeps /\ UNCHANGED <<project, checkpoint, run>>

\* A concurrent start of the same adopts this record.
Adopts(p, record) ==
  /\ run[p].contended
  /\ record.id # Nobody /\ record.base = run[p].base
  /\ record.mode = run[p].mode
  /\ record.status \notin {"running", "cancelled"}

\* The project is opened: an outcome is adopted, a base that is not current any
\* more is refused, or the sources to prepare are chosen.
Open(p) ==
  /\ pc[p] = "opening"
  /\ \/ /\ Adopts(p, project.prep) \/ project.rev # run[p].base
        /\ GoTo(p, "leaving")
        /\ run' = run
     \/ /\ ~Adopts(p, project.prep) /\ project.rev = run[p].base
        /\ GoTo(p, "claiming")
        /\ run' = [run EXCEPT ![p].targets = project.included]
  /\ Keeps /\ UNCHANGED <<project, checkpoint>>

\* The claim, whatever the revision is by now; none if something else began.
Claim(p) ==
  /\ pc[p] = "claiming"
  /\ \/ /\ ~IsCurrent(p)
        /\ GoTo(p, "leaving")
        /\ UNCHANGED <<project, run>>
     \/ /\ IsCurrent(p)
        /\ project' = [project EXCEPT !.prep =
             [id |-> p, mode |-> run[p].mode, base |-> run[p].base, status |-> "running",
              sources |-> NoStages]]
        /\ run' = [run EXCEPT ![p].todo = run[p].targets]
        /\ GoTo(p, "media")
  /\ Keeps /\ UNCHANGED checkpoint

-----------------------------------------------------------------------------
(* The stages of each source.                                              *)

\* Only sources whose media are verified go through the later stages.
Left(p) == {s \in run[p].todo :
              pc[p] # "media" => project.prep.sources[s].media = "ready"}

\* One source gets the outcome of a stage, with what is known of it then.
Staged(p, s, part, outcome, evidence) ==
  /\ Alive(p)
  /\ s \in Left(p)
  /\ IF outcome = "error" THEN Happens ELSE UNCHANGED events
  /\ project' = [project EXCEPT !.prep.sources[s][part] = outcome,
                                !.analysis[s] = evidence]
  /\ run' = [run EXCEPT ![p].todo = run[p].todo \ {s}]
  /\ UNCHANGED <<pc, checkpoint, Frame>> /\ Observed

VerifyMedia(p, s) ==
  /\ pc[p] = "media"
  /\ \E outcome \in {"ready", "error"} : Staged(p, s, "media", outcome, project.analysis[s])

\* A transcription replaces the analysis, so that its images are gone for now;
\* one that fails leaves a failed analysis, or what was there.
AnalyseAudio(p, s) ==
  /\ pc[p] = "audio"
  /\ \/ Staged(p, s, "audio", "ready", "speech")
     \/ \E evidence \in {"failed", project.analysis[s]} : Staged(p, s, "audio", "error", evidence)

\* The description of the images; a gap in it is an outcome like an error.
DescribeImages(p, s) ==
  /\ pc[p] = "visual"
  /\ \/ Staged(p, s, "visual", "ready",
               IF project.analysis[s] = "failed" THEN "failed" ELSE "full")
     \/ Staged(p, s, "visual", "error", project.analysis[s])

\* atStage: all sources went through this stage; the proposal's needs them all.
NextStage(p) ==
  /\ Alive(p) /\ Left(p) = {}
  /\ \/ /\ pc[p] \in {"media", "audio"}
        /\ GoTo(p, IF pc[p] = "media" THEN "audio" ELSE "visual")
        /\ run' = [run EXCEPT ![p].todo = run[p].targets]
     \/ /\ pc[p] = "visual" /\ ~Blocked(p)
        /\ GoTo(p, "settling")
        /\ run' = [run EXCEPT ![p].todo = {}]
     \/ /\ pc[p] = "visual" /\ Blocked(p)
        /\ GoTo(p, "marking")
        /\ run' = [run EXCEPT ![p].todo = {}, ![p].verdict = "interrupted"]
  /\ Keeps /\ UNCHANGED <<project, checkpoint>>

-----------------------------------------------------------------------------
(* The proposal.                                                           *)

Mark(p, verdict) ==
  /\ GoTo(p, "marking")
  /\ run' = [run EXCEPT ![p].verdict = verdict]

\* Pending corrections are waited for, up to a time limit; then the sources are
\* looked at again, and the input of the proposal is what the project is now.
Settle(p) ==
  /\ pc[p] = "settling" /\ Alive(p)
  /\ IF project.pending \/ Blocked(p)
     THEN Mark(p, "interrupted")
     ELSE /\ GoTo(p, "proposing")
          /\ run' = [run EXCEPT ![p].basis = StateKey(project)]
  /\ Keeps /\ UNCHANGED <<project, checkpoint>>

\* The kept reply is used if it answers this input, and dropped if it does not.
LoadCheckpoint(p) ==
  LET kept == checkpoint[run[p].mode] IN
  /\ pc[p] = "proposing"
  /\ \/ kept = run[p].basis /\ GoTo(p, "placing") /\ UNCHANGED checkpoint
     \/ /\ kept # run[p].basis
        /\ GoTo(p, "asking")
        /\ checkpoint' = [checkpoint EXCEPT ![run[p].mode] = NoKey]
  /\ Keeps /\ UNCHANGED <<project, run>>

\* The catch around the proposal and around its application: checkAlive first.
Interrupted(p) ==
  IF p \in aborted THEN run' = [run EXCEPT ![p].verdict = "cancelled"] /\ GoTo(p, "stopping")
  ELSE IF ~IsCurrent(p) THEN run' = run /\ GoTo(p, "stopping")
  ELSE Mark(p, "interrupted")

\* The call fails, the reply is rejected, a file cannot be read or written.
ProposalFails(p) ==
  /\ pc[p] \in {"proposing", "asking", "awaiting", "placing", "writing", "applied"}
  /\ Happens
  /\ Interrupted(p)
  /\ UNCHANGED <<project, checkpoint, answered, Frame>>

\* The paid call, after another look at the project.
Ask(p) ==
  /\ pc[p] = "asking" /\ Alive(p)
  /\ \/ Blocked(p) /\ Mark(p, "interrupted")
     \/ ~Blocked(p) /\ GoTo(p, "awaiting") /\ UNCHANGED run
  /\ Keeps /\ UNCHANGED <<project, checkpoint>>

\* The reply is kept (unless the disk refuses) if its input is still the project's.
Reply(p) ==
  /\ pc[p] = "awaiting" /\ Alive(p)
  /\ \/ /\ StateKey(project) # run[p].basis
        /\ Mark(p, "interrupted")
        /\ UNCHANGED <<checkpoint, events>>
     \/ /\ StateKey(project) = run[p].basis
        /\ GoTo(p, "placing")
        /\ \/ checkpoint' = [checkpoint EXCEPT ![run[p].mode] = run[p].basis] /\ UNCHANGED events
           \/ Happens /\ UNCHANGED checkpoint
        /\ UNCHANGED run
  /\ UNCHANGED <<project, Frame>> /\ Observed

\* The cuts around fillers are planned, the input compared, a photo written.
Place(p) ==
  /\ pc[p] = "placing" /\ NotStopped(p)
  /\ \/ StateKey(project) # run[p].basis /\ Mark(p, "interrupted")
     \/ StateKey(project) = run[p].basis /\ GoTo(p, "writing") /\ UNCHANGED run
  /\ Keeps /\ UNCHANGED <<project, checkpoint>>

\* Mutant: the comparison before the photo is enough.
MayWriteUnchecked(p) == project.prep.id = p

\* What the writer checks again, on the project as it is by then.
MayWrite(p) == project.prep.id = p /\ StateKey(project) = run[p].basis

\* The proposal replaces the scenes it was asked about, at a new revision. No
\* life check comes between its writing and this.
Apply(p) ==
  /\ pc[p] = "writing"
  /\ \/ /\ MayWrite(p)
        /\ project' = [project EXCEPT !.rev = project.rev + 1, !.preview = Null,
             !.content = Append(run[p].basis.content, p)]
        /\ GoTo(p, "applied")
        /\ UNCHANGED run
     \/ ~MayWrite(p) /\ project.prep.id = p /\ Interrupted(p) /\ UNCHANGED project
     \/ project.prep.id # p /\ GoTo(p, "stopping") /\ UNCHANGED <<project, run>>
  /\ UNCHANGED <<checkpoint, events, Frame>> /\ Observed

\* Both kept replies are of an older revision now.
DiscardApplied(p) ==
  /\ pc[p] = "applied"
  /\ \/ /\ project.prep.id = p
        /\ checkpoint' = [m \in Modes |-> NoKey]
        /\ GoTo(p, "previewing")
     \/ project.prep.id # p /\ GoTo(p, "stopping") /\ UNCHANGED checkpoint
  /\ Keeps /\ UNCHANGED <<project, run>>

-----------------------------------------------------------------------------
(* The preview and the end.                                                *)

StartPreview(p) ==
  /\ pc[p] = "previewing" /\ Alive(p)
  /\ GoTo(p, "rendering")
  /\ run' = [run EXCEPT ![p].shown = project.rev]
  /\ Keeps /\ UNCHANGED <<project, checkpoint>>

NeedsAttention(p) ==
  \E s \in Source : \/ \E part \in {"media", "audio", "visual"} :
                         project.prep.sources[s][part] = "error"
                    \/ s \in project.included /\ project.analysis[s] = "failed"

\* The rendering ends. A preview of another revision is not recorded, nor one of
\* a project that is another preparation's (whose record is not marked either).
Rendered(p) ==
  /\ pc[p] = "rendering" /\ NotStopped(p)
  /\ \/ /\ project.prep.id = p /\ run[p].shown = project.rev
        /\ project' = [project EXCEPT !.preview = project.rev]
        /\ Mark(p, IF NeedsAttention(p) THEN "attention" ELSE "ready")
     \/ /\ project.prep.id # p \/ run[p].shown # project.rev
        /\ Mark(p, "attention")
        /\ UNCHANGED project
  /\ Keeps /\ UNCHANGED checkpoint

RenderFails(p) ==
  /\ pc[p] = "rendering" /\ NotStopped(p)
  /\ Happens
  /\ Mark(p, "attention")
  /\ UNCHANGED <<project, checkpoint, answered, Frame>>

\* A preparation that was aborted, or is not the latest operation any more, or
\* whose record was replaced, finds out; only the first leaves a mark.
Stop(p) ==
  /\ \/ /\ pc[p] \in {"media", "audio", "visual", "settling", "asking", "awaiting", "placing",
                     "previewing"}
        /\ ~Alive(p)
     \/ pc[p] = "rendering" /\ ~NotStopped(p)
     \/ pc[p] = "proposing" /\ p \in aborted
  /\ run' = [run EXCEPT ![p].verdict = IF p \in aborted THEN "cancelled" ELSE "none"]
  /\ GoTo(p, "stopping")
  /\ Keeps /\ UNCHANGED <<project, checkpoint>>

\* Mutant: an obsolete preparation leaves a mark too.
AlwaysMarks(p) == "marking"

AfterStop(p) == IF run[p].verdict = "none" THEN "leaving" ELSE "marking"

DiscardUnresumable(p) ==
  /\ pc[p] = "stopping"
  /\ checkpoint' = IF Unresumable(p) THEN [checkpoint EXCEPT ![run[p].mode] = NoKey] ELSE checkpoint
  /\ GoTo(p, AfterStop(p))
  /\ Keeps /\ UNCHANGED <<project, run>>

\* markTerminal: on its own record only.
MarkTerminal(p) ==
  /\ pc[p] = "marking"
  /\ project' = IF project.prep.id = p
                THEN [project EXCEPT !.prep.status = run[p].verdict] ELSE project
  /\ GoTo(p, "leaving")
  /\ Keeps /\ UNCHANGED <<checkpoint, run>>

\* Anything else that throws inside: no mark.
Break(p) ==
  /\ pc[p] \in Inside \ {"proposing", "asking", "awaiting", "placing", "writing", "applied",
                        "rendering", "leaving"}
  /\ Happens
  /\ GoTo(p, "leaving")
  /\ UNCHANGED <<project, checkpoint, run, answered, Frame>>

\* Mutant: the map entry is deleted although another promise is chained.
ChainAfterDeleting(p) == Nobody

\* The entry of prepLocks goes when nobody is chained to this promise.
ChainAfter(p) == IF tail = p THEN Nobody ELSE tail

Leave(p) ==
  /\ pc[p] = "leaving"
  /\ tail' = ChainAfter(p)
  /\ GoTo(p, "releasing")
  /\ UNCHANGED <<project, checkpoint, before, run, aborted, latest, cancelled, browser,
                 answered, events>>

\* The handler's finally.
Release(p) ==
  /\ pc[p] = "releasing"
  /\ GoTo(p, "ended")
  /\ run' = [run EXCEPT ![p] = NoRun]
  /\ Keeps /\ UNCHANGED <<project, checkpoint>>

Proceed(p) ==
  \/ Enter(p) \/ Open(p) \/ Claim(p)
  \/ \E s \in Source : VerifyMedia(p, s) \/ AnalyseAudio(p, s) \/ DescribeImages(p, s)
  \/ NextStage(p) \/ Settle(p) \/ LoadCheckpoint(p) \/ Ask(p) \/ Reply(p) \/ Place(p)
  \/ Apply(p) \/ DiscardApplied(p) \/ StartPreview(p) \/ Rendered(p)
  \/ Stop(p) \/ DiscardUnresumable(p) \/ MarkTerminal(p) \/ Leave(p) \/ Release(p)

-----------------------------------------------------------------------------
(* Everybody else.                                                         *)

ProcessStays == UNCHANGED <<checkpoint, process>>

\* An edit: any change of the montage, a correction of text, or a source
\* included or left out.
EditLoad(kind) ==
  /\ edit.step = "idle" /\ Happens
  /\ edit' = [step |-> "loaded", kind |-> kind, loaded |-> project]
  /\ ProcessStays /\ UNCHANGED <<project, repair, analysing, answered>>

\* Its save, refused if the revision moved. The new revision is the snapshot's
\* in everything, analyses it has not seen excepted: also the preparation's
\* record and the corrections go back to what they were.
EditSave ==
  LET old == edit.loaded
      toggled == {edit.kind} \cap Source
  IN /\ edit.step = "loaded"
     /\ edit' = NoEdit
     /\ project' =
          IF project.rev # old.rev THEN project
          ELSE [old EXCEPT
                 !.rev = old.rev + 1, !.preview = Null,
                 !.content = Append(old.content, Editor),
                 !.included = (old.included \ toggled) \cup (toggled \ old.included),
                 !.pending = old.pending \/ edit.kind = "correct",
                 !.analysis = [s \in Source |-> IF old.analysis[s] = "none"
                                                THEN project.analysis[s] ELSE old.analysis[s]]]
     /\ ProcessStays /\ Observed
     /\ UNCHANGED <<repair, analysing, events>>

\* A correction is aligned, at the same revision.
SettleCorrection ==
  /\ project.pending
  /\ project' = [project EXCEPT !.pending = FALSE]
  /\ ProcessStays /\ Observed
  /\ UNCHANGED <<browser, events>>

OtherOperation ==
  /\ Happens
  /\ UNCHANGED <<project, checkpoint, pc, before, run, tail, edit, repair, answered>>

\* POST cancel, which aborts what is under way.
Cancel ==
  /\ OtherOperation
  /\ cancelled' = TRUE
  /\ aborted' = aborted \cup {q \in Prep : Started(q)}
  /\ analysing' = Nobody
  /\ UNCHANGED latest

\* POST preview, which aborts nothing but is the latest operation.
ManualPreview ==
  /\ OtherOperation
  /\ cancelled' = FALSE
  /\ latest' = Nobody
  /\ UNCHANGED <<aborted, analysing>>

\* POST analyze, or an import: an analysis of its own.
StartAnalysis(s) ==
  /\ OtherOperation
  /\ cancelled' = FALSE
  /\ aborted' = aborted \cup {q \in Prep : Started(q)}
  /\ latest' = Nobody
  /\ analysing' = s

AnalysisArrives ==
  /\ analysing # Nobody
  /\ \E evidence \in {"speech", "failed"} :
       project' = [project EXCEPT !.analysis[analysing] = evidence]
  /\ analysing' = Nobody
  /\ answered' = [m \in Modes |-> NoKey]
  /\ ProcessStays /\ UNCHANGED <<edit, repair, events>>

\* Whether the record is one that nobody works on.
Orphan == project.prep.status = "running" /\ ~IsPreparationActive

\* GET project: recoverInterruptedPreparation, up to its save.
FindOrphan ==
  /\ ~repair /\ Orphan
  /\ repair' = TRUE
  /\ ProcessStays /\ UNCHANGED <<project, edit, analysing, answered, events>>

\* Mutant: what was seen before the wait for the writer is not looked at again.
StillRunning == project.prep.status = "running"

\* In the writer, the same condition again.
StillOrphan == Orphan

MarkOrphan ==
  /\ repair
  /\ repair' = FALSE
  /\ project' = IF StillOrphan THEN [project EXCEPT !.prep.status = "interrupted"] ELSE project
  /\ ProcessStays /\ UNCHANGED <<edit, analysing, answered, events>>

\* The server is restarted: only the files stay.
Restart ==
  /\ Happens
  /\ pc' = [p \in Prep |-> IF pc[p] = "none" THEN "none" ELSE "ended"]
  /\ run' = [p \in Prep |-> NoRun]
  /\ tail' = Nobody /\ aborted' = {} /\ latest' = Nobody /\ cancelled' = FALSE
  /\ edit' = NoEdit /\ repair' = FALSE /\ analysing' = Nobody
  /\ UNCHANGED <<project, checkpoint, before, answered>>

Next ==
  \/ \E p \in Prep, mode \in Modes : Post(p, mode)
  \/ \E p \in Prep : Proceed(p) \/ ProposalFails(p) \/ RenderFails(p) \/ Break(p)
  \/ \E kind \in {"change", "correct"} \cup Source : EditLoad(kind)
  \/ EditSave \/ SettleCorrection
  \/ Cancel \/ ManualPreview \/ \E s \in Source : StartAnalysis(s)
  \/ AnalysisArrives \/ FindOrphan \/ MarkOrphan \/ Restart

Spec == Init /\ [][Next]_vars

\* What is under way goes on: calls end or time out, the pages ask for the
\* project every few seconds, and writers get their turn.
Fairness ==
  /\ \A p \in Prep : WF_vars(Proceed(p))
  /\ WF_vars(FindOrphan) /\ WF_vars(MarkOrphan)
FairSpec == Spec /\ Fairness

-----------------------------------------------------------------------------
(* Properties.                                                             *)

KeyType == [rev : Nat \cup {Null}, content : Seq(Prep \cup {Editor}),
            included : SUBSET Source, pending : BOOLEAN, analysis : [Source -> Evidence]]
RecordType == [id : Prep \cup {Nobody}, mode : Modes, base : Nat \cup {Null}, status : Status,
               sources : [Source -> [media : Stage, audio : Stage, visual : Stage]]]
ProjectType == [rev : Nat, content : Seq(Prep \cup {Editor}), included : SUBSET Source,
                pending : BOOLEAN, analysis : [Source -> Evidence],
                preview : Nat \cup {Null}, prep : RecordType]
RunType == [mode : Modes, base : Nat \cup {Null}, contended : BOOLEAN, targets : SUBSET Source,
            todo : SUBSET Source, basis : KeyType, shown : Nat \cup {Null},
            verdict : Status \cup {"none"}]

\* The variables have their types.
TypeOK ==
  /\ project \in ProjectType
  /\ checkpoint \in [Modes -> KeyType] /\ answered \in [Modes -> KeyType]
  /\ pc \in [Prep -> Steps]
  /\ before \in [Prep -> Prep \cup {Nobody}]
  /\ run \in [Prep -> RunType]
  /\ tail \in Prep \cup {Nobody} /\ latest \in Prep \cup {Nobody}
  /\ aborted \subseteq Prep /\ cancelled \in BOOLEAN
  /\ edit \in [step : {"idle", "loaded"}, kind : {"none", "change", "correct"} \cup Source,
               loaded : ProjectType]
  /\ repair \in BOOLEAN /\ analysing \in Source \cup {Nobody}
  /\ events \in 0 .. MaxEvents

\* withPreparationLock: the chain of promises lets one preparation in at a time,
\* although the map's entry comes and goes.
OneAtATime == \A p, q \in Prep : pc[p] \in Inside /\ pc[q] \in Inside => p = q

\* A proposal is added to all that was there when it is applied: whatever people
\* changed while the model was thinking is kept (preparation.ts:763-772).
EditsSurvive == [][IsPrefix(project.content, project'.content)]_vars

\* Scenes are replaced only when every included source is analysed, whatever
\* was included, left out or put back while the preparation ran.
OnlyCompleteEvidence ==
  [][\A p \in Prep : pc[p] = "writing" /\ pc'[p] = "applied" =>
       \A s \in project.included :
         /\ s \in run[p].targets
         /\ project.analysis[s] = "full"
         /\ \A part \in {"media", "audio", "visual"} : project.prep.sources[s][part] = "ready"]_vars

\* A preparation that is still at work is never marked by anybody else.
WorkIsNotAnOrphan ==
  [][\A p \in Prep :
       /\ pc[p] \in Inside /\ pc'[p] = pc[p]
       /\ project.prep.id = p /\ project'.prep.id = p /\ project.prep.status = "running"
       => project'.prep.status = "running"]_vars

\* Nobody pays twice for the same input: once a reply is kept, and while nothing
\* but the evidence of images moves, it is used, through cancels and restarts.
PaysOncePerInput ==
  [][\A p \in Prep : pc[p] = "asking" /\ pc'[p] = "awaiting" =>
       answered[run[p].mode] # run[p].basis]_vars

\* No preparation is shown as running for ever.
RunningEnds == project.prep.status = "running" ~> project.prep.status # "running"
=============================================================================
