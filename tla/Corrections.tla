----------------------------- MODULE Corrections -----------------------------
(***************************************************************************)
(* Text corrections of a project and the background jobs that align them   *)
(* with the sound (assembly/words.ts, routes.ts, store.ts). An edit        *)
(* registers a correction as pending; a job listens to that stretch for    *)
(* the corrected text and publishes the words it found, under no new       *)
(* revision. Meanwhile people go on editing and undoing.                   *)
(*                                                                         *)
(* A text is the number of the request that typed it; an interval is the   *)
(* set of its moments; the words a job finds are the moments they take and *)
(* the text it was given. A save is one step here: ProjectStore.tla models *)
(* what happens inside it, and when the machine stops there.               *)
(***************************************************************************)
EXTENDS Integers, FiniteSets, Sequences, SequencesExt

CONSTANTS Client,     \* browsers; each has at most one request under way
          Region,     \* the intervals people correct: sets of moments
          MaxTexts,   \* bound on corrections typed
          MaxUndos,   \* bound on undo requests
          MaxSaves,   \* bound on other saves
          MaxFaults,  \* bound on interrupted workers and restarts
          NoWords     \* not aligned yet

ASSUME CorrectionsAssumption ==
  MaxTexts \in Nat /\ MaxUndos \in Nat /\ MaxSaves \in Nat /\ MaxFaults \in Nat

VARIABLES
  project,    \* revision, corrections, steps that can be undone
  history,    \* per revision: the corrections photographed
  req,        \* per client: its request between load and save
  job,        \* per correction id: its alignment job (alignActive: the id)
  texts, undos, saves, faults   \* bounds: how many so far

counters == <<texts, undos, saves, faults>>
vars == <<project, history, req, job, counters>>

Ids == 1 .. MaxTexts + 1
Revisions == 0 .. MaxTexts + MaxUndos + MaxSaves
NoRequest == [step |-> "idle", kind |-> "None", region |-> {}, text |-> 0,
              rev |-> 0, corrections |-> {}]
NoJob == [step |-> "none", region |-> {}, text |-> 0]

Init ==
  /\ project = [rev |-> 0, corrections |-> {}, steps |-> <<>>]
  /\ history = [n \in Revisions |-> {}]
  /\ req = [c \in Client |-> NoRequest]
  /\ job = [id \in Ids |-> NoJob]
  /\ texts = 0 /\ undos = 0 /\ saves = 0 /\ faults = 0

-----------------------------------------------------------------------------
(* Corrections as values.                                                  *)

IdsOf(corrections) == {item.id : item \in corrections}
Pending(id) == \E item \in project.corrections : item.id = id /\ item.status = "pending"

\* The id a correction gets: the first free number from their count plus one.
MintedId(corrections) ==
  CHOOSE n \in Ids :
    /\ n > Cardinality(corrections) /\ n \notin IdsOf(corrections)
    /\ \A m \in Ids : m > Cardinality(corrections) /\ m < n => m \in IdsOf(corrections)

\* applyCorrect: the corrections it overlaps and the new text become one pending
\* correction of all their moments.
ApplyCorrect(corrections, region, text) ==
  LET overlapping == {item \in corrections : item.region \cap region # {}}
      whole == region \cup UNION {item.region : item \in overlapping}
  IN (corrections \ overlapping) \cup
     {[id |-> MintedId(corrections), region |-> whole, text |-> text,
       status |-> "pending", words |-> NoWords]}

\* Mutant: a merge that only adds and replaces.
MergeForgettingDrops(current, next, base) ==
  {item \in current : item.id \notin IdsOf(next)} \cup next

\* mergeCorrections, droppedCorrections: what the request dropped from what it
\* loaded leaves; what it submits replaces the correction of the same id.
MergeCorrections(current, next, base) ==
  LET dropped == IdsOf(base) \ IdsOf(next)
  IN {item \in current : item.id \notin dropped \cup IdsOf(next)} \cup next

WithOutcome(item, status, found) ==
  [id |-> item.id, region |-> item.region, text |-> item.text,
   status |-> status, words |-> found]

\* Mutant: words that do not fit are kept with the error.
SettledKeepingWords(item, found) ==
  IF found.region # {} /\ found.region \subseteq item.region
  THEN WithOutcome(item, "aligned", found) ELSE WithOutcome(item, "error", found)

\* Mutant: words are taken wherever they lie.
SettledAnywhere(item, found) == WithOutcome(item, "aligned", found)

\* settleCorrection: no words, or words outside the correction's interval,
\* settle it as an error, others as aligned.
Settled(item, found) ==
  IF found.region # {} /\ found.region \subseteq item.region
  THEN WithOutcome(item, "aligned", found) ELSE WithOutcome(item, "error", NoWords)

-----------------------------------------------------------------------------
(* Requests.                                                               *)

\* A request loads the project: a correction, another edit, or a save that
\* makes no revision (a preview, an approval).
LoadCorrect(c, region) ==
  /\ req[c].step = "idle" /\ texts < MaxTexts
  /\ texts' = texts + 1
  /\ req' = [req EXCEPT ![c] =
       [step |-> "photo", kind |-> "Correct", region |-> region, text |-> texts + 1,
        rev |-> project.rev, corrections |-> project.corrections]]
  /\ UNCHANGED <<project, history, job, undos, saves, faults>>

LoadOther(c, kind) ==
  /\ req[c].step = "idle" /\ saves < MaxSaves
  /\ saves' = saves + 1
  /\ req' = [req EXCEPT ![c] =
       [step |-> IF kind = "Cut" THEN "photo" ELSE "ready", kind |-> kind,
        region |-> {}, text |-> 0,
        rev |-> project.rev, corrections |-> project.corrections]]
  /\ UNCHANGED <<project, history, job, texts, undos, faults>>

\* writeHistorySnapshot, before the save and outside the writer.
Photograph(c) ==
  /\ req[c].step = "photo"
  /\ history' = [history EXCEPT ![req[c].rev] = req[c].corrections]
  /\ req' = [req EXCEPT ![c] =
       [step |-> "ready", kind |-> req[c].kind, region |-> req[c].region,
        text |-> req[c].text, rev |-> req[c].rev, corrections |-> req[c].corrections]]
  /\ UNCHANGED <<project, job, counters>>

Submitted(r) == IF r.kind = "Correct" THEN ApplyCorrect(r.corrections, r.region, r.text)
                ELSE r.corrections

\* alignCorrectionJob: a second job for an id that has one returns at once.
Launched(id) ==
  IF job[id].step # "none" THEN job
  ELSE [job EXCEPT ![id] = [step |-> "start", region |-> {}, text |-> 0]]

\* The save: refused when the revision moved; otherwise merged with what is
\* there, and an edit takes a revision, a step, and launches its alignment.
Save(c) ==
  LET r == req[c]
      bumps == r.kind # "Keep"
  IN /\ r.step = "ready"
     /\ req' = [req EXCEPT ![c] = NoRequest]
     /\ IF r.rev # project.rev
        THEN UNCHANGED <<project, job>>
        ELSE /\ project' =
                  [rev |-> IF bumps THEN r.rev + 1 ELSE r.rev,
                   corrections |-> MergeCorrections(project.corrections, Submitted(r), r.corrections),
                   steps |-> IF bumps THEN Append(project.steps, r.rev) ELSE project.steps]
             /\ job' = IF r.kind = "Correct" THEN Launched(MintedId(r.corrections)) ELSE job
     /\ UNCHANGED <<history, counters>>

\* Undo: the corrections of the photo on top of the stack, in a new revision.
Undo ==
  /\ undos < MaxUndos /\ project.steps # <<>>
  /\ undos' = undos + 1
  /\ project' = [rev |-> project.rev + 1, corrections |-> history[Last(project.steps)],
                 steps |-> Front(project.steps)]
  /\ UNCHANGED <<history, req, job, texts, saves, faults>>

-----------------------------------------------------------------------------
(* Jobs.                                                                   *)

\* GET project resumes the pending corrections that have no job.
Resume(id) ==
  /\ Pending(id) /\ job[id].step = "none"
  /\ job' = Launched(id)
  /\ UNCHANGED <<project, history, req, counters>>

\* The job reads the correction it is to align, if it is still pending.
JobLoad(id) ==
  /\ job[id].step = "start"
  /\ \/ /\ ~Pending(id)
        /\ job' = [job EXCEPT ![id] = NoJob]
     \/ \E item \in project.corrections :
          /\ item.id = id /\ item.status = "pending"
          /\ job' = [job EXCEPT ![id] =
               [step |-> "aligning", region |-> item.region, text |-> item.text]]
  /\ UNCHANGED <<project, history, req, counters>>

\* Mutant: a job that was interrupted stays registered.
EndedKeepingKey(id) == [job EXCEPT ![id] = [step |-> "lost", region |-> {}, text |-> 0]]

\* The finally block: the id leaves alignActive.
Ended(id) == [job EXCEPT ![id] = NoJob]

\* What publishing the words of id's job, at those moments, makes of a
\* correction; no moments for a failed alignment.
Published(id, item, moments) ==
  IF item.id # id \/ item.status # "pending" THEN item
  ELSE Settled(item, [region |-> moments, text |-> job[id].text])

\* publishCorrection, in the writer: it settles the pending correction that has
\* the job's id by then, if there is one.
JobPublish(id) ==
  /\ job[id].step = "aligning"
  /\ \E moments \in SUBSET job[id].region :
       project' =
         [rev |-> project.rev, steps |-> project.steps,
          corrections |-> {Published(id, item, moments) : item \in project.corrections}]
  /\ job' = Ended(id)
  /\ UNCHANGED <<history, req, counters>>

\* The worker was interrupted or the wait cancelled: the correction stays
\* pending.
JobInterrupted(id) ==
  /\ job[id].step = "aligning" /\ faults < MaxFaults
  /\ faults' = faults + 1
  /\ job' = Ended(id)
  /\ UNCHANGED <<project, history, req, texts, undos, saves>>

\* The server restarts between two steps.
Restart ==
  /\ faults < MaxFaults
  /\ faults' = faults + 1
  /\ req' = [c \in Client |-> NoRequest]
  /\ job' = [id \in Ids |-> NoJob]
  /\ UNCHANGED <<project, history, texts, undos, saves>>

Next ==
  \/ \E c \in Client :
       \/ \E region \in Region : LoadCorrect(c, region)
       \/ \E kind \in {"Cut", "Keep"} : LoadOther(c, kind)
       \/ Photograph(c) \/ Save(c)
  \/ \E id \in Ids : Resume(id) \/ JobLoad(id) \/ JobPublish(id) \/ JobInterrupted(id)
  \/ Undo \/ Restart

Spec == Init /\ [][Next]_vars

\* The page asks for the project every few seconds, and a job that is not
\* interrupted ends: it waits for the worker's slot, and the worker answers.
Fairness == \A id \in Ids : WF_vars(Resume(id)) /\ WF_vars(JobLoad(id)) /\ WF_vars(JobPublish(id))

FairSpec == Spec /\ Fairness

-----------------------------------------------------------------------------
(* Properties.                                                             *)

Moments == (SUBSET UNION Region) \ {{}}
Words == [region : Moments, text : 1 .. MaxTexts]
Correction ==
  [id : Ids, region : Moments, text : 1 .. MaxTexts,
   status : {"pending", "aligned", "error"}, words : Words \cup {NoWords}]

\* Type correctness; an id names one correction.
TypeOK ==
  /\ project.rev \in Revisions
  /\ project.corrections \subseteq Correction
  /\ \A a, b \in project.corrections : a.id = b.id => a = b
  /\ project.steps \in Seq(Revisions)
  /\ \A n \in Revisions : history[n] \subseteq Correction
  /\ \A c \in Client : /\ req[c].step \in {"idle", "photo", "ready"}
                       /\ req[c].rev \in Revisions
                       /\ req[c].corrections \subseteq Correction
  /\ \A id \in Ids : job[id].step \in {"none", "start", "aligning"}

\* droppedCorrections' promise ("elas nao podem voltar pelo merge"): whatever
\* was loaded, settled, undone or saved meanwhile, no two corrections overlap.
NoOverlap == \A a, b \in project.corrections : a.region \cap b.region # {} => a = b

\* settleCorrection's promise: aligned words lie inside their correction, also
\* when the job they come from was launched for one that is gone by now.
AlignedInsideInterval ==
  \A item \in project.corrections :
    item.status = "aligned" => item.words.region \subseteq item.region

\* settleCorrection's comment promises that an alignment whose correction was
\* undone or edited meanwhile is discarded before it: the words of an aligned
\* correction are the words of its text.
AlignedWordsAreOfItsText ==
  \A item \in project.corrections :
    item.status = "aligned" => item.words.text = item.text

\* The pending state can be resumed ("o pending permite retomada"): whatever is
\* interrupted, a correction does not stay pending for ever.
PendingSettles == \A id \in Ids : Pending(id) ~> ~Pending(id)
=============================================================================
