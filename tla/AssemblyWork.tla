----------------------------- MODULE AssemblyWork -----------------------------
(***************************************************************************)
(* apps/cli/src/app/assembly/routes.ts (createAssemblyRuntime): the        *)
(* requests on an assembly project that are not preparations.  Editing,    *)
(* undoing, adding, removing and analysing sources, previews, and the four *)
(* kinds of proposals: of scenes (kept in the project), and from a         *)
(* template, for one phrase, or local (rhythm, exchange of support), each  *)
(* in a file of its own, to be accepted or rejected later.                 *)
(*                                                                         *)
(* Requests of several pages interleave at every await.  An edit computes  *)
(* the project to save from the one it loaded (mutate); the store refuses  *)
(* it when the revision has moved.  Of the content only which sources the  *)
(* scenes use is kept.  The reservation for editing is not in the way: it  *)
(* passes to another page while requests of the first are still running.   *)
(***************************************************************************)
EXTENDS Naturals, Sequences, FiniteSets

CONSTANTS Call,    \* requests; each happens at most once
          Source,
          None,
          AtOnce   \* bound on requests under way at a time

FileKinds == {"template", "speech", "local"}
Kinds == {"edit", "undo", "add", "remove", "analyze", "preview", "cancel", "propose", "apply",
          "template", "speech", "local", "accept", "reject"}

\* A proposal: who made it, for which revision and content, and its scenes' sources.
Offers == [id : Call \cup {None}, base : Nat, uses : SUBSET Source,
           of : [sources : SUBSET Source, uses : SUBSET Source]]
\* What is kept of project.json.
Projects == [rev : Nat, sources : SUBSET Source, analysed : SUBSET Source, uses : SUBSET Source,
             proposal : Offers \cup {None}, head : Nat, steps : Seq(Nat)]

ASSUME AssemblyWorkAssumption ==
  /\ None \notin Call \cup Offers \cup Projects
  /\ AtOnce \in Nat

VARIABLES
  project,    \* project.json: revision, sources, those analysed, those the scenes use
              \* (uses), the proposal of scenes, and the undo stack
  photos,     \* history/: what the scenes used at the revisions that have a photo
  file,       \* the files with proposals
  operation,  \* operation.stage
  gen,        \* opGen
  controller, \* the generation of the controller that is not aborted, or 0
  previews,   \* livePreviews, by generation
  cancelled,
  inFlight,   \* speechProposalInFlight
  call        \* the requests

memory == <<operation, gen, controller, previews, cancelled, inFlight>>
vars == <<project, photos, file, memory, call>>

Quiet == [do |-> "none", at |-> "idle", base |-> 0, kind |-> "none", source |-> None,
          p |-> None, gen |-> 0, offer |-> None]
Done == [Quiet EXCEPT !.at = "done"]

Content(p) == [sources |-> p.sources, uses |-> p.uses]
Offer(id, p, uses) == [id |-> id, base |-> p.rev, of |-> Content(p), uses |-> uses]

Init ==
  /\ \E s \in Source : \E analysed \in SUBSET {s} : \E uses \in SUBSET analysed :
       /\ project = [rev |-> 1, sources |-> {s}, analysed |-> analysed, uses |-> uses,
                     proposal |-> None, head |-> 1, steps |-> <<0>>]
       /\ photos = [r \in {0} |-> analysed]
       /\ \E k \in {"template", "local"}, kept \in {None, Offer(None, project, analysed)} :
            file = [x \in FileKinds |-> IF x = k THEN kept ELSE None]
  /\ operation = "idle" /\ gen = 0 /\ controller = 0 /\ previews = {}
  /\ cancelled = FALSE /\ inFlight = FALSE
  /\ call = [c \in Call |-> Quiet]

-----------------------------------------------------------------------------
(* Operations and their signals                                            *)

Current(c) == ~cancelled /\ call[c].gen = gen
Alive(c) == call[c].gen = controller \/ call[c].gen \in previews

Active ==
  \/ controller # 0 /\ operation \in {"queued", "analyzing", "preparing", "rendering", "proposing"}
  \/ previews # {}

\* begin: the new operation aborts the one before it and the previews.
Begin(stage) ==
  /\ gen' = gen + 1 /\ controller' = gen + 1 /\ previews' = {}
  /\ cancelled' = FALSE /\ operation' = stage

Shows(c, stage) == operation' = IF Current(c) THEN stage ELSE operation

Same == UNCHANGED memory
OnlyShown == UNCHANGED <<gen, controller, previews, cancelled, inFlight>>
At(c, do, at) == call[c].do = do /\ call[c].at = at
Goes(c, at) == call' = [call EXCEPT ![c].at = at]
Ends(c) == call' = [call EXCEPT ![c] = Done]

-----------------------------------------------------------------------------
(* The store                                                               *)

Bumped(p) == [p EXCEPT !.rev = @ + 1]
LiveAlways(p) == p.steps
Live(p) == IF p.head = p.rev THEN p.steps ELSE <<>>
\* recordUndo: a new revision whose photo of the one before can be restored.
Recorded(p, uses) == [Bumped(p) EXCEPT !.uses = uses, !.head = p.rev + 1, !.steps = Append(Live(p), p.rev)]

\* writeHistorySnapshot
Photograph(p) == photos' = [r \in DOMAIN photos \cup {p.rev} |-> IF r = p.rev THEN p.uses ELSE photos[r]]

\* saveProject of a project computed from an older one: a new revision replaces
\* all but the analyses; at the same revision only the proposal is another.
Merged(next) ==
  IF next.rev > project.rev THEN [next EXCEPT !.analysed = @ \cup project.analysed]
  ELSE [project EXCEPT !.analysed = @ \cup next.analysed, !.proposal = next.proposal]

SavesLast(c, next) == project' = Merged(next)
Saves(c, next) == call[c].base = project.rev /\ project' = Merged(next)
Refused(c) == call[c].base # project.rev /\ Ends(c) /\ UNCHANGED project

-----------------------------------------------------------------------------
(* Requests that arrive; the page names the revision and proposal it shows *)

Ask(c, do) == call' = [call EXCEPT ![c] = [Quiet EXCEPT !.do = do, !.at = "asked", !.base = project.rev]]

Start(c) ==
  /\ call[c].at = "idle"
  /\ Cardinality({d \in Call : call[d].at \notin {"idle", "done"}}) < AtOnce
  /\ \/ \E do \in Kinds \ {"apply", "accept", "reject", "preview", "cancel", "remove", "analyze"} :
          Ask(c, do) /\ Same
     \/ \E do \in {"remove", "analyze"}, s \in project.sources :
          call' = [call EXCEPT ![c] = [Quiet EXCEPT !.do = do, !.at = "asked", !.base = project.rev, !.source = s]]
          /\ Same
     \/ /\ project.proposal # None
        /\ call' = [call EXCEPT ![c] = [Quiet EXCEPT !.do = "apply", !.at = "asked", !.base = project.rev,
                                                     !.offer = project.proposal]]
        /\ Same
     \/ \E k \in FileKinds, do \in {"accept", "reject"} :
          /\ file[k] # None
          /\ call' = [call EXCEPT ![c] = [Quiet EXCEPT !.do = do, !.at = "asked", !.base = project.rev,
                                                       !.kind = k, !.offer = file[k]]]
          /\ Same
     \/ \* cancel
        /\ cancelled' = TRUE /\ controller' = 0 /\ previews' = {} /\ operation' = "cancelled"
        /\ UNCHANGED <<gen, inFlight>> /\ Ends(c)
     \/ \* a preview does not abort the operation before it (beginPreview)
        /\ gen' = gen + 1 /\ previews' = previews \cup {gen + 1}
        /\ cancelled' = FALSE /\ operation' = "rendering" /\ UNCHANGED <<controller, inFlight>>
        /\ call' = [call EXCEPT ![c] = [Quiet EXCEPT !.do = "preview", !.at = "asked", !.base = project.rev,
                                                     !.gen = gen + 1]]
  /\ UNCHANGED <<project, photos, file>>

-----------------------------------------------------------------------------
(* Changes of the content                                                  *)

Loads(c, do, at) ==
  /\ At(c, do, "asked") /\ call[c].base = project.rev
  /\ call' = [call EXCEPT ![c].at = at, ![c].p = project]

\* What a handler finds at another revision than the page named is refused. A
\* preview that is refused here leaves the operation as it announced it.
Stale(c) ==
  /\ call[c].at = "asked" /\ call[c].do \notin {"analyze", "reject"} /\ call[c].base # project.rev
  /\ previews' = previews \ {call[c].gen} /\ Ends(c)
  /\ UNCHANGED <<project, photos, file, operation, gen, controller, cancelled, inFlight>>

\* edit, and the acceptance of a proposal for a phrase or a local one: load,
\* photo of what was loaded, save.
EditLoads(c) == Loads(c, "edit", "saving") /\ Same /\ UNCHANGED <<project, photos, file>>
EditSaves(c) ==
  /\ At(c, "edit", "saving")
  /\ Photograph(call[c].p)
  /\ \/ /\ \E uses \in SUBSET (call[c].p.uses \cup call[c].p.analysed) : Saves(c, Recorded(call[c].p, uses))
        /\ Ends(c)
     \/ Refused(c)
  /\ Same /\ UNCHANGED file

Undo(c) ==
  /\ Loads(c, "undo", "restoring") /\ Live(project) # <<>>
  /\ Same /\ UNCHANGED <<project, photos, file>>
NothingToUndo(c) ==
  /\ At(c, "undo", "asked") /\ Live(project) = <<>> /\ Ends(c)
  /\ Same /\ UNCHANGED <<project, photos, file>>
Restores(c) ==
  LET top == call[c].p.steps[Len(call[c].p.steps)] IN
  /\ At(c, "undo", "restoring") /\ Ends(c)
  /\ IF call[c].base = project.rev
     THEN project' = [Bumped(project) EXCEPT !.uses = photos[top], !.head = project.rev + 1,
                                             !.steps = SubSeq(@, 1, Len(@) - 1)]
     ELSE UNCHANGED project
  /\ Same /\ UNCHANGED <<photos, file>>

\* media: the source is validated, then added; its analysis begins in the
\* background if nothing was active before and nothing is after.
AddLoads(c) ==
  /\ Loads(c, "add", IF Active THEN "adding" ELSE "adding freely")
  /\ Same /\ UNCHANGED <<project, photos, file>>
AddSaves(c) ==
  /\ call[c].do = "add" /\ call[c].at \in {"adding", "adding freely"}
  /\ \/ /\ Refused(c) /\ Same
     \/ \E s \in Source \ call[c].p.sources :
          /\ Saves(c, [Bumped(call[c].p) EXCEPT !.sources = @ \cup {s}])
          /\ IF call[c].at = "adding" \/ Active THEN Ends(c) /\ Same
             ELSE /\ Begin("queued") /\ UNCHANGED inFlight
                  /\ call' = [call EXCEPT ![c] = [Quiet EXCEPT !.do = "analyze", !.at = "analysing",
                                                               !.source = s, !.gen = gen + 1]]
  /\ UNCHANGED <<photos, file>>

\* source-remove: functional, under the store's lock.
Remove(c) ==
  /\ At(c, "remove", "asked") /\ call[c].base = project.rev /\ Ends(c)
  /\ IF /\ operation \notin {"analyzing", "preparing", "rendering", "proposing"}
        /\ call[c].source \in project.sources /\ call[c].source \notin project.uses
     THEN /\ project' = [Bumped(project) EXCEPT !.sources = @ \ {call[c].source},
                           !.analysed = @ \ {call[c].source}, !.proposal = None]
          /\ operation' = "idle" /\ OnlyShown
     ELSE Same /\ UNCHANGED project
  /\ UNCHANGED <<photos, file>>

-----------------------------------------------------------------------------
(* Analyses and previews                                                   *)

\* analyzeSources
AnalyzeBegins(c) ==
  /\ At(c, "analyze", "asked") /\ Begin("analyzing") /\ UNCHANGED inFlight
  /\ call' = [call EXCEPT ![c].at = "analysing", ![c].gen = gen + 1]
  /\ UNCHANGED <<project, photos, file>>
Analysed(s) == IF s \in project.sources THEN [project EXCEPT !.analysed = @ \cup {s}] ELSE project
AnalyzeSaves(c) ==
  /\ At(c, "analyze", "analysing") /\ Goes(c, "ending")
  /\ \/ project' = Analysed(call[c].source)
     \/ ~Alive(c) /\ UNCHANGED project
  /\ Same /\ UNCHANGED <<photos, file>>
AnalyzeEnds(c) ==
  /\ At(c, "analyze", "ending") /\ Shows(c, "ready") /\ OnlyShown /\ Ends(c)
  /\ UNCHANGED <<project, photos, file>>

PreviewLoads(c) ==
  /\ At(c, "preview", "asked") /\ call[c].base = project.rev /\ Goes(c, "rendering")
  /\ Same /\ UNCHANGED <<project, photos, file>>
\* The render ends or fails; what it records is not of the content. settle.
PreviewEnds(c) ==
  /\ At(c, "preview", "rendering") /\ \E s \in {"ready", "error"} : Shows(c, s)
  /\ previews' = previews \ {call[c].gen} /\ Ends(c)
  /\ UNCHANGED <<project, photos, file, gen, controller, cancelled, inFlight>>

-----------------------------------------------------------------------------
(* Proposals                                                               *)

\* A rhythm or an exchange of support is computed at once, and its file written.
LocalLoads(c) ==
  /\ At(c, "local", "asked") /\ call[c].base = project.rev
  /\ \E uses \in SUBSET (project.uses \cup project.analysed) :
       call' = [call EXCEPT ![c].at = "publishing", ![c].offer = Offer(c, project, uses)]
  /\ Same /\ UNCHANGED <<project, photos, file>>

\* One call for a phrase at a time: asked and marked without an await between.
SpeechLoads(c) ==
  /\ At(c, "speech", "asked") /\ call[c].base = project.rev
  /\ IF inFlight THEN Ends(c) /\ Same
     ELSE /\ inFlight' = TRUE /\ Begin("proposing")
          /\ call' = [call EXCEPT ![c].at = "asking", ![c].p = project, ![c].gen = gen + 1]
  /\ UNCHANGED <<project, photos, file>>
SpeechAnswers(c) ==
  /\ At(c, "speech", "asking") /\ Alive(c)
  /\ call' = [call EXCEPT ![c].at = "checking", ![c].offer = Offer(c, call[c].p, call[c].p.uses)]
  /\ Same /\ UNCHANGED <<project, photos, file>>
\* Aborted, or the model failed: idle is shown whatever runs by now.
SpeechFails(c) ==
  /\ At(c, "speech", "asking") /\ Ends(c) /\ operation' = "idle" /\ inFlight' = FALSE
  /\ UNCHANGED <<project, photos, file, gen, controller, previews, cancelled>>
SpeechChecks(c) ==
  /\ At(c, "speech", "checking")
  /\ IF Current(c) THEN Goes(c, "loading") /\ Same
     ELSE Ends(c) /\ inFlight' = FALSE /\ UNCHANGED <<operation, gen, controller, previews, cancelled>>
  /\ UNCHANGED <<project, photos, file>>
SpeechLoadsAgain(c) ==
  /\ At(c, "speech", "loading")
  /\ IF project.rev = call[c].offer.base THEN Goes(c, "publishing") /\ Same
     ELSE /\ Ends(c) /\ operation' = "ready" /\ inFlight' = FALSE
          /\ UNCHANGED <<gen, controller, previews, cancelled>>
  /\ UNCHANGED <<project, photos, file>>

\* template-proposal: the sources not yet analysed are, each saved at the same
\* revision; then the model is asked.
TemplateBegins(c) ==
  /\ At(c, "template", "asked") /\ call[c].base = project.rev
  /\ Begin("proposing") /\ UNCHANGED inFlight
  /\ call' = [call EXCEPT ![c].at = "asking", ![c].p = project, ![c].gen = gen + 1]
  /\ UNCHANGED <<project, photos, file>>
TemplateAnalyses(c) ==
  /\ At(c, "template", "asking") /\ call[c].base = project.rev
  /\ \E s \in call[c].p.sources \ call[c].p.analysed :
       /\ project' = Merged([call[c].p EXCEPT !.analysed = @ \cup {s}])
       /\ call' = [call EXCEPT ![c].p = project']
  /\ operation' = "analyzing" /\ OnlyShown /\ UNCHANGED <<photos, file>>
TemplateAnswers(c) ==
  /\ At(c, "template", "asking") /\ call[c].p.sources \subseteq call[c].p.analysed
  /\ \E uses \in SUBSET call[c].p.analysed :
       call' = [call EXCEPT ![c].at = "checking", ![c].offer = Offer(c, call[c].p, uses)]
  /\ Same /\ UNCHANGED <<project, photos, file>>
TemplateFails(c) ==
  /\ At(c, "template", "asking") \/ At(c, "template", "checking")
  /\ call[c].at = "checking" => ~Current(c) \/ project.rev # call[c].base
  /\ Shows(c, "error") /\ OnlyShown /\ Ends(c) /\ UNCHANGED <<project, photos, file>>
TemplateChecks(c) ==
  /\ At(c, "template", "checking") /\ Current(c) /\ project.rev = call[c].base
  /\ Goes(c, "publishing") /\ Same /\ UNCHANGED <<project, photos, file>>

Publish(c) ==
  /\ call[c].do \in FileKinds /\ call[c].at = "publishing"
  /\ file' = [file EXCEPT ![call[c].do] = call[c].offer] /\ Ends(c)
  /\ operation' = IF call[c].do = "local" THEN operation ELSE "ready"
  /\ inFlight' = IF call[c].do = "speech" THEN FALSE ELSE inFlight
  /\ UNCHANGED <<project, photos, gen, controller, previews, cancelled>>

\* propose: the model is asked inside mutate; the answer is kept in the project.
ProposeLoads(c) ==
  /\ At(c, "propose", "asked") /\ call[c].base = project.rev
  /\ Begin("proposing") /\ UNCHANGED inFlight
  /\ call' = [call EXCEPT ![c].at = "asking", ![c].p = project, ![c].gen = gen + 1]
  /\ UNCHANGED <<project, photos, file>>
ProposeAnswers(c) ==
  /\ At(c, "propose", "asking") /\ Shows(c, "ready") /\ OnlyShown
  /\ IF Current(c)
     THEN \E uses \in SUBSET call[c].p.analysed :
            call' = [call EXCEPT ![c].at = "saving", ![c].offer = Offer(c, call[c].p, uses)]
     ELSE Ends(c)
  /\ UNCHANGED <<project, photos, file>>
ProposeFails(c) ==
  /\ At(c, "propose", "asking") /\ Ends(c) /\ Same /\ UNCHANGED <<project, photos, file>>
ProposeSaves(c) ==
  /\ At(c, "propose", "saving")
  /\ \/ Saves(c, [call[c].p EXCEPT !.proposal = call[c].offer]) /\ Ends(c)
     \/ Refused(c)
  /\ Same /\ UNCHANGED <<photos, file>>

-----------------------------------------------------------------------------
(* Acceptance and rejection                                                *)

Named(c) == file[call[c].kind] # None /\ file[call[c].kind].id = call[c].offer.id

\* speech-accept, rhythm-accept, support-swap-accept, template-accept: the file
\* is read, and must hold the proposal the page shows, for the revision it shows.
AcceptReads(c) ==
  /\ At(c, "accept", "asked")
  /\ IF Named(c) /\ file[call[c].kind].base = call[c].base
     THEN call' = [call EXCEPT ![c].at = "accepting", ![c].offer = file[call[c].kind]]
     ELSE Ends(c)
  /\ Same /\ UNCHANGED <<project, photos, file>>
AcceptLoads(c) ==
  /\ At(c, "accept", "accepting")
  /\ IF call[c].base = project.rev THEN call' = [call EXCEPT ![c].at = "applying", ![c].p = project] ELSE Ends(c)
  /\ Same /\ UNCHANGED <<project, photos, file>>
\* The one from a template is applied to the project as it is by then
\* (commitFillerChange), the others to the one that was loaded (mutate).
AcceptSaves(c) ==
  LET p == IF call[c].kind = "template" THEN project ELSE call[c].p IN
  /\ At(c, "accept", "applying")
  /\ Photograph(call[c].p)
  /\ \/ /\ call[c].offer.base = p.rev
        /\ Saves(c, [Recorded(p, call[c].offer.uses) EXCEPT
                       !.proposal = IF call[c].kind = "template" THEN call[c].offer ELSE @])
        /\ Goes(c, "unlinking")
     \/ Refused(c)
  /\ Same /\ UNCHANGED file

\* Rejecting asks for the id only; from a template, and of an exchange, also for the revision.
RejectReads(c) ==
  /\ At(c, "reject", "asked")
  /\ IF Named(c) /\ (call[c].kind = "template" => file["template"].base = call[c].base /\ project.rev = call[c].base)
     THEN Goes(c, "unlinking") ELSE Ends(c)
  /\ Same /\ UNCHANGED <<project, photos, file>>

\* Of a template only the proposal that was meant is removed.
Unlink(c) ==
  /\ call[c].at = "unlinking" /\ Ends(c)
  /\ file' = IF call[c].kind = "template" /\ ~Named(c) THEN file ELSE [file EXCEPT ![call[c].kind] = None]
  /\ Same /\ UNCHANGED <<project, photos>>

\* apply: the proposal of the project, named by its id.
ApplyLoads(c) ==
  /\ At(c, "apply", "asked") /\ call[c].base = project.rev
  /\ IF project.proposal # None /\ project.proposal.id = call[c].offer.id /\ project.proposal.base = project.rev
     THEN call' = [call EXCEPT ![c].at = "applying", ![c].p = project]
     ELSE Ends(c)
  /\ Same /\ UNCHANGED <<project, photos, file>>
ApplySaves(c) ==
  /\ At(c, "apply", "applying") /\ Ends(c)
  /\ Photograph(call[c].p)
  /\ IF /\ call[c].base = project.rev /\ project.proposal # None
        /\ project.proposal.id = call[c].offer.id /\ project.proposal.base = project.rev
     THEN project' = Recorded(project, project.proposal.uses)
     ELSE UNCHANGED project
  /\ Same /\ UNCHANGED file

-----------------------------------------------------------------------------

Step(c) ==
  \/ Start(c) \/ Stale(c)
  \/ EditLoads(c) \/ EditSaves(c) \/ Undo(c) \/ NothingToUndo(c) \/ Restores(c)
  \/ AddLoads(c) \/ AddSaves(c) \/ Remove(c)
  \/ AnalyzeBegins(c) \/ AnalyzeSaves(c) \/ AnalyzeEnds(c) \/ PreviewLoads(c) \/ PreviewEnds(c)
  \/ LocalLoads(c) \/ SpeechLoads(c) \/ SpeechAnswers(c) \/ SpeechFails(c) \/ SpeechChecks(c)
  \/ SpeechLoadsAgain(c)
  \/ TemplateBegins(c) \/ TemplateAnalyses(c) \/ TemplateAnswers(c) \/ TemplateFails(c)
  \/ TemplateChecks(c) \/ Publish(c)
  \/ ProposeLoads(c) \/ ProposeAnswers(c) \/ ProposeFails(c) \/ ProposeSaves(c)
  \/ AcceptReads(c) \/ AcceptLoads(c) \/ AcceptSaves(c) \/ RejectReads(c) \/ Unlink(c)
  \/ ApplyLoads(c) \/ ApplySaves(c)

Next == \E c \in Call : Step(c)
Spec == Init /\ [][Next]_vars

-----------------------------------------------------------------------------
(* Properties                                                              *)

\* No scene, analysis or step that can be undone refers to a source that is not
\* in the project: a source goes only when nothing uses it, and then analyses
\* that were under way, proposals and photos of before must not bring it back.
NothingRefersToRemoved ==
  /\ project.uses \cup project.analysed \subseteq project.sources
  /\ \A i \in DOMAIN Live(project) : photos[Live(project)[i]] \subseteq project.sources

\* A proposal that is accepted is the one the page showed, and what it is applied
\* to is what it was made for, although edits, other proposals and other
\* acceptances come between its making, its showing and its application.
AppliedToWhatItWasMadeFor ==
  [][\A c \in Call : call[c].at = "applying" /\ call[c] # call'[c] /\ project' # project
                        => call[c].offer.of = Content(project)]_vars

\* When all requests are over, the operation shown is not one that is under way.
\* Does not hold: see Stale and ProposeFails.
OperationEnds ==
  (\A c \in Call : call[c].at \in {"idle", "done"})
    => operation \notin {"queued", "analyzing", "preparing", "rendering", "proposing"}
=============================================================================
