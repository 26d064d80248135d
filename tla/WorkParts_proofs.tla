--------------------------- MODULE WorkParts_proofs ---------------------------
(***************************************************************************)
(* For any requests and sources: nothing refers to a source that was       *)
(* removed, and a proposal is applied to what it was made for.             *)
(*                                                                         *)
(* The inductive invariant relates the project on disk to everything that  *)
(* was computed from an older one and may still come back: the copies that *)
(* requests loaded (CopiesInv), the proposals in files, in the project and *)
(* in requests (MadeInv), and the photos of the revisions that can be      *)
(* restored (ProjectInv).  The proof goes through what a step does to      *)
(* these and not through its name: KindsOfSteps says that every action is  *)
(* quiet, makes one proposal, or writes in one of five ways.               *)
(*                                                                         *)
(* For any take: no request takes what it does not name, and words that    *)
(* are restored are heard.  What grows together with a cut is silent       *)
(* (BridgesAreSilent), and what a layer took of its words it knows         *)
(* (TakeInv).                                                              *)
(*                                                                         *)
(* For any number of exports and deliveries: what stands in exports/ was   *)
(* recorded, and the copy in Resolve is kept.  The invariant says what     *)
(* each request carries in each of its steps (CarriesVideos, Fits); all of *)
(* the second hangs on the port, which one delivery at a time has.         *)
(***************************************************************************)
EXTENDS WorkParts, WellFoundedInduction, TLAPS

-----------------------------------------------------------------------------
(* The inductive invariant                                                 *)

Stages == {"idle", "asked", "saving", "restoring", "adding", "adding freely", "analysing", "ending",
           "rendering", "asking", "checking", "loading", "publishing", "accepting", "applying",
           "unlinking", "done"}
Calls == [do : Kinds \cup {"none"}, at : Stages, base : Nat, kind : FileKinds \cup {"none"},
          source : Source \cup {None}, p : Projects \cup {None}, gen : Nat, offer : Offers \cup {None}]

TypeOK ==
  /\ project \in Projects
  /\ DOMAIN photos \subseteq Nat /\ photos \in [DOMAIN photos -> SUBSET Source]
  /\ file \in [FileKinds -> Offers \cup {None}]
  /\ call \in [Call -> Calls]
  /\ gen \in Nat

\* The projects that requests loaded, and the proposals wherever they are kept.
Copies == {call[c].p : c \in Call} \ {None}
Made == ({project.proposal} \cup {file[k] : k \in FileKinds} \cup {call[c].offer : c \in Call}
         \cup {p.proposal : p \in Copies}) \ {None}

\* A request that has not made its proposal yet: no proposal has its id.
Offering == {"local", "speech", "template", "propose"}
MayOffer(c) == call[c].at = "idle" \/ (call[c].do \in Offering /\ call[c].at \in {"asked", "asking"})

\* What a request holds at each of its stages.
Working == {"saving", "restoring", "adding", "adding freely", "asking", "checking", "loading", "applying"}
StageOK(r) ==
  /\ r.at \in Working => r.p # None /\ r.p.rev = r.base
  /\ r.at = "restoring" => r.p.head = r.p.rev /\ r.p.steps # <<>>
  /\ r.at = "applying" => r.do \in {"accept", "apply"}
  /\ r.do \in {"accept", "reject", "apply"} => r.offer # None
  /\ r.do = "propose" /\ r.at = "saving" => r.offer # None
  /\ r.do \in {"accept", "reject"} => r.kind \in FileKinds
  /\ r.at = "unlinking" => r.do \in {"accept", "reject"}

\* What a project says of itself.
Inside(p) == p.uses \cup p.analysed \subseteq p.sources
Past(p) == p.head <= p.rev /\ \A i \in DOMAIN p.steps : p.steps[i] < p.rev

\* What a copy has in common with the project on disk: nothing when the revision
\* has moved; all but analyses when it has not.
Agrees(p) ==
  /\ p.rev <= project.rev
  /\ p.rev = project.rev =>
       /\ p.sources = project.sources /\ p.uses = project.uses
       /\ p.head = project.head /\ p.steps = project.steps
       /\ p.analysed \subseteq project.analysed
\* Taking a photo of a copy again, late, does not change the photo of its revision
\* while that revision can be restored.
PhotoIs(p) ==
  \A i \in DOMAIN Live(project) : Live(project)[i] = p.rev => photos[p.rev] = p.uses

\* Every step that can be undone has a photo, of sources that are still there.
Photographed ==
  \A i \in DOMAIN Live(project) :
    Live(project)[i] \in DOMAIN photos /\ photos[Live(project)[i]] \subseteq project.sources
\* A proposal for the revision on disk is one for the content on disk.
OfferOK(o) ==
  /\ o.uses \subseteq o.of.sources /\ o.base <= project.rev
  /\ o.base = project.rev => o.of = Content(project)

ProjectInv == Inside(project) /\ Past(project) /\ Photographed
CopiesInv == \A p \in Copies : Inside(p) /\ Agrees(p) /\ PhotoIs(p)
MadeInv == \A o \in Made : OfferOK(o) /\ \A q \in Made : o.id = q.id => o = q
Fresh == \A c \in Call : MayOffer(c) => \A o \in Made : o.id # c
Staged == \A c \in Call : StageOK(call[c])
IInv == TypeOK /\ ProjectInv /\ CopiesInv /\ MadeInv /\ Fresh /\ Staged

-----------------------------------------------------------------------------
\* What a step does to the requests: one of them changes, and a request that has
\* made its proposal makes no other.
Turns(c) ==
  /\ call' \in [Call -> Calls]
  /\ \A d \in Call : d # c => call'[d] = call[d]
  /\ StageOK(call'[c])
  /\ MayOffer(c)' => MayOffer(c)

LEMMA DoneIsACall == Done \in Calls /\ Quiet \in Calls /\ StageOK(Done) /\ StageOK(Quiet)
BY DEF Done, Quiet, Calls, Stages, StageOK, Working

LEMMA EndTurns ==
  ASSUME TypeOK, NEW c \in Call, Ends(c)
  PROVE  Turns(c) /\ call'[c] = Done
BY DoneIsACall DEF Ends, Turns, TypeOK, MayOffer, Done, Quiet, Offering

\* One request goes to another stage, with the project and the proposal it holds then.
Becomes(c, at, p, offer) ==
  /\ call' \in [Call -> Calls]
  /\ \A d \in Call : d # c => call'[d] = call[d]
  /\ call'[c].at = at /\ call'[c].p = p /\ call'[c].offer = offer
  /\ call'[c].do = call[c].do /\ call'[c].base = call[c].base /\ call'[c].kind = call[c].kind

LEMMA BecomesAt ==
  ASSUME TypeOK, NEW c \in Call, NEW at \in Stages, NEW g \in Nat
  PROVE  /\ call' = [call EXCEPT ![c].at = at] => Becomes(c, at, call[c].p, call[c].offer)
         /\ call' = [call EXCEPT ![c].at = at, ![c].gen = g] => Becomes(c, at, call[c].p, call[c].offer)
<1>a. call[c] \in Calls
  BY DEF TypeOK
<1>1. ASSUME call' = [call EXCEPT ![c].at = at] PROVE Becomes(c, at, call[c].p, call[c].offer)
  <2>1. call'[c] = [call[c] EXCEPT !.at = at] /\ \A d \in Call : d # c => call'[d] = call[d]
    BY <1>1 DEF TypeOK
  <2>2. call' = [call EXCEPT ![c] = call'[c]]
    BY <1>1 DEF TypeOK
  <2>3. call'[c] \in Calls
    BY <2>1, <1>a DEF Calls
  <2> QED BY <2>1, <2>2, <2>3, <1>a DEF Becomes, TypeOK, Calls
<1>2. ASSUME call' = [call EXCEPT ![c].at = at, ![c].gen = g] PROVE Becomes(c, at, call[c].p, call[c].offer)
  <2>1. call'[c] = [call[c] EXCEPT !.at = at, !.gen = g] /\ \A d \in Call : d # c => call'[d] = call[d]
    BY <1>2 DEF TypeOK
  <2>2. call' = [call EXCEPT ![c] = call'[c]]
    BY <1>2 DEF TypeOK
  <2>3. call'[c] \in Calls
    BY <2>1, <1>a DEF Calls
  <2> QED BY <2>1, <2>2, <2>3, <1>a DEF Becomes, TypeOK, Calls
<1> QED BY <1>1, <1>2

LEMMA BecomesWithProject ==
  ASSUME TypeOK, NEW c \in Call, NEW at \in Stages, NEW p \in Projects, NEW g \in Nat
  PROVE  /\ call' = [call EXCEPT ![c].at = at, ![c].p = p] => Becomes(c, at, p, call[c].offer)
         /\ call' = [call EXCEPT ![c].at = at, ![c].p = p, ![c].gen = g] => Becomes(c, at, p, call[c].offer)
         /\ call' = [call EXCEPT ![c].p = p] => Becomes(c, call[c].at, p, call[c].offer)
<1>a. call[c] \in Calls
  BY DEF TypeOK
<1>1. ASSUME call' = [call EXCEPT ![c].at = at, ![c].p = p] PROVE Becomes(c, at, p, call[c].offer)
  <2>1. call'[c] = [call[c] EXCEPT !.at = at, !.p = p] /\ \A d \in Call : d # c => call'[d] = call[d]
    BY <1>1 DEF TypeOK
  <2>2. call' = [call EXCEPT ![c] = call'[c]]
    BY <1>1 DEF TypeOK
  <2>3. call'[c] \in Calls
    BY <2>1, <1>a DEF Calls
  <2> QED BY <2>1, <2>2, <2>3, <1>a DEF Becomes, TypeOK, Calls
<1>2. ASSUME call' = [call EXCEPT ![c].at = at, ![c].p = p, ![c].gen = g] PROVE Becomes(c, at, p, call[c].offer)
  <2>1. call'[c] = [call[c] EXCEPT !.at = at, !.p = p, !.gen = g] /\ \A d \in Call : d # c => call'[d] = call[d]
    BY <1>2 DEF TypeOK
  <2>2. call' = [call EXCEPT ![c] = call'[c]]
    BY <1>2 DEF TypeOK
  <2>3. call'[c] \in Calls
    BY <2>1, <1>a DEF Calls
  <2> QED BY <2>1, <2>2, <2>3, <1>a DEF Becomes, TypeOK, Calls
<1>3. ASSUME call' = [call EXCEPT ![c].p = p] PROVE Becomes(c, call[c].at, p, call[c].offer)
  <2>1. call'[c] = [call[c] EXCEPT !.p = p] /\ \A d \in Call : d # c => call'[d] = call[d]
    BY <1>3 DEF TypeOK
  <2>2. call' = [call EXCEPT ![c] = call'[c]]
    BY <1>3 DEF TypeOK
  <2>3. call'[c] \in Calls
    BY <2>1, <1>a DEF Calls
  <2> QED BY <2>1, <2>2, <2>3, <1>a DEF Becomes, TypeOK, Calls
<1> QED BY <1>1, <1>2, <1>3

LEMMA BecomesWithOffer ==
  ASSUME TypeOK, NEW c \in Call, NEW at \in Stages, NEW offer \in Offers
  PROVE  /\ call' = [call EXCEPT ![c].at = at, ![c].offer = offer] => Becomes(c, at, call[c].p, offer)
<1>a. call[c] \in Calls
  BY DEF TypeOK
<1>1. ASSUME call' = [call EXCEPT ![c].at = at, ![c].offer = offer] PROVE Becomes(c, at, call[c].p, offer)
  <2>1. call'[c] = [call[c] EXCEPT !.at = at, !.offer = offer] /\ \A d \in Call : d # c => call'[d] = call[d]
    BY <1>1 DEF TypeOK
  <2>2. call' = [call EXCEPT ![c] = call'[c]]
    BY <1>1 DEF TypeOK
  <2>3. call'[c] \in Calls
    BY <2>1, <1>a DEF Calls
  <2> QED BY <2>1, <2>2, <2>3, <1>a DEF Becomes, TypeOK, Calls
<1> QED BY <1>1

-----------------------------------------------------------------------------
\* What a step does to the project, its copies and the proposals.
QuietStep(c) ==
  /\ UNCHANGED <<project, photos>>
  /\ file' \in [FileKinds -> Made \cup {None}]
  /\ call'[c].p \in Copies \cup {project, None}
  /\ call'[c].offer \in Made \cup {None}

OfferingStep(c) ==
  /\ UNCHANGED <<project, photos, file>>
  /\ MayOffer(c) /\ ~MayOffer(c)'
  /\ call'[c].p \in Copies \cup {None}
  /\ \E p \in Copies \cup {project} : \E uses \in SUBSET p.sources : call'[c].offer = Offer(c, p, uses)

LEMMA Held ==
  ASSUME TypeOK, NEW c \in Call
  PROVE  /\ call[c].p \in Copies \cup {None}
         /\ call[c].p # None => call[c].p.proposal \in Made \cup {None}
         /\ call[c].offer \in Made \cup {None}
         /\ project.proposal \in Made \cup {None}
         /\ file \in [FileKinds -> Made \cup {None}]
         /\ Copies \subseteq Projects /\ Made \subseteq Offers
<1>1. call[c].p \in Copies \cup {None} /\ call[c].offer \in Made \cup {None} /\ project.proposal \in Made \cup {None}
  BY DEF Copies, Made
<1>2. Copies \subseteq Projects
  BY DEF Copies, TypeOK, Calls
<1>3. call[c].p # None => call[c].p.proposal \in Made \cup {None}
  BY <1>1 DEF Made
<1>4. file \in [FileKinds -> Made \cup {None}]
  BY DEF Made, TypeOK
<1>5. Made \subseteq Offers
  BY <1>2 DEF Made, TypeOK, Projects, Calls
<1> QED BY <1>1, <1>2, <1>3, <1>4, <1>5

LEMMA EndsQuietly ==
  ASSUME TypeOK, NEW c \in Call, Ends(c), UNCHANGED <<project, photos, file>>
  PROVE  Turns(c) /\ QuietStep(c)
BY EndTurns, Held DEF QuietStep, Done, Quiet

\* A request that goes on with what it, or the project, holds already.
LEMMA GoesOnQuietly ==
  ASSUME TypeOK, NEW c \in Call, NEW at \in Stages, NEW p \in Copies \cup {project, None}, NEW offer \in Made \cup {None},
         Becomes(c, at, p, offer), UNCHANGED <<project, photos, file>>,
         at \notin {"idle", "asked"}, at = "asking" => call[c].at = "asked"
  PROVE  QuietStep(c) /\ (MayOffer(c)' => MayOffer(c))
BY Held DEF QuietStep, Becomes, MayOffer, Offering

LEMMA QuietActions ==
  ASSUME TypeOK, ProjectInv, CopiesInv, Staged, NEW c \in Call,
         \/ Stale(c) \/ EditLoads(c) \/ Undo(c) \/ NothingToUndo(c) \/ AddLoads(c)
         \/ AnalyzeBegins(c) \/ AnalyzeEnds(c) \/ PreviewLoads(c) \/ PreviewEnds(c)
         \/ SpeechLoads(c) \/ SpeechFails(c) \/ SpeechChecks(c) \/ SpeechLoadsAgain(c)
         \/ TemplateBegins(c) \/ TemplateFails(c) \/ TemplateChecks(c) \/ Publish(c)
         \/ ProposeLoads(c) \/ ProposeFails(c)
         \/ AcceptReads(c) \/ AcceptLoads(c) \/ RejectReads(c) \/ Unlink(c) \/ ApplyLoads(c)
  PROVE  Turns(c) /\ QuietStep(c)
<1> USE AssemblyWorkAssumption
<1>a. /\ call[c] \in Calls /\ StageOK(call[c]) /\ project \in Projects /\ call \in [Call -> Calls]
      /\ gen \in Nat /\ gen + 1 \in Nat
  BY DEF TypeOK, Staged
<1>b. call[c].offer # None => call[c].offer \in Offers
  BY <1>a DEF Calls
<1>c. \A k \in FileKinds : file[k] # None => file[k] \in Offers
  BY DEF TypeOK
<1> USE DEF At
<1>1. CASE \/ Stale(c) \/ NothingToUndo(c) \/ AnalyzeEnds(c) \/ PreviewEnds(c) \/ SpeechFails(c)
           \/ TemplateFails(c) \/ ProposeFails(c)
  BY <1>1, EndsQuietly DEF Stale, NothingToUndo, AnalyzeEnds, PreviewEnds, SpeechFails, TemplateFails, ProposeFails
<1>2. CASE EditLoads(c)
  <2>1. Becomes(c, "saving", project, call[c].offer)
    BY <1>2, <1>a, <1>b, <1>c, BecomesWithProject DEF EditLoads, Stages, Loads
  <2>2. StageOK(call'[c])
    BY <1>2, <1>a, <2>1 DEF EditLoads, StageOK, Working, Becomes, Loads
  <2>3. QuietStep(c) /\ (MayOffer(c)' => MayOffer(c))
    BY <1>2, <2>1, Held, GoesOnQuietly DEF EditLoads, Stages
  <2> QED BY <2>1, <2>2, <2>3 DEF Becomes, Turns
<1>3. CASE Undo(c)
  <2>1. Becomes(c, "restoring", project, call[c].offer)
    BY <1>3, <1>a, <1>b, <1>c, BecomesWithProject DEF Undo, Stages, Loads, Live
  <2>2. StageOK(call'[c])
    BY <1>3, <1>a, <2>1 DEF Undo, StageOK, Working, Becomes, Loads, Live
  <2>3. QuietStep(c) /\ (MayOffer(c)' => MayOffer(c))
    BY <1>3, <2>1, Held, GoesOnQuietly DEF Undo, Stages
  <2> QED BY <2>1, <2>2, <2>3 DEF Becomes, Turns
<1>4. CASE AnalyzeBegins(c)
  <2>1. Becomes(c, "analysing", call[c].p, call[c].offer)
    BY <1>4, <1>a, <1>b, <1>c, BecomesAt DEF AnalyzeBegins, Stages, Begin
  <2>2. StageOK(call'[c])
    BY <1>4, <1>a, <2>1 DEF AnalyzeBegins, StageOK, Working, Becomes, Begin
  <2>3. QuietStep(c) /\ (MayOffer(c)' => MayOffer(c))
    BY <1>4, <2>1, Held, GoesOnQuietly DEF AnalyzeBegins, Stages
  <2> QED BY <2>1, <2>2, <2>3 DEF Becomes, Turns
<1>5. CASE PreviewLoads(c)
  <2>1. Becomes(c, "rendering", call[c].p, call[c].offer)
    BY <1>5, <1>a, <1>b, <1>c, BecomesAt DEF PreviewLoads, Stages, Goes
  <2>2. StageOK(call'[c])
    BY <1>5, <1>a, <2>1 DEF PreviewLoads, StageOK, Working, Becomes, Goes
  <2>3. QuietStep(c) /\ (MayOffer(c)' => MayOffer(c))
    BY <1>5, <2>1, Held, GoesOnQuietly DEF PreviewLoads, Stages
  <2> QED BY <2>1, <2>2, <2>3 DEF Becomes, Turns
<1>6. CASE TemplateBegins(c)
  <2>1. Becomes(c, "asking", project, call[c].offer)
    BY <1>6, <1>a, <1>b, <1>c, BecomesWithProject DEF TemplateBegins, Stages, Begin
  <2>2. StageOK(call'[c])
    BY <1>6, <1>a, <2>1 DEF TemplateBegins, StageOK, Working, Becomes, Begin
  <2>3. QuietStep(c) /\ (MayOffer(c)' => MayOffer(c))
    BY <1>6, <2>1, Held, GoesOnQuietly DEF TemplateBegins, Stages
  <2> QED BY <2>1, <2>2, <2>3 DEF Becomes, Turns
<1>7. CASE TemplateChecks(c)
  <2>1. Becomes(c, "publishing", call[c].p, call[c].offer)
    BY <1>7, <1>a, <1>b, <1>c, BecomesAt DEF TemplateChecks, Stages, Goes
  <2>2. StageOK(call'[c])
    BY <1>7, <1>a, <2>1 DEF TemplateChecks, StageOK, Working, Becomes, Goes
  <2>3. QuietStep(c) /\ (MayOffer(c)' => MayOffer(c))
    BY <1>7, <2>1, Held, GoesOnQuietly DEF TemplateChecks, Stages
  <2> QED BY <2>1, <2>2, <2>3 DEF Becomes, Turns
<1>8. CASE ProposeLoads(c)
  <2>1. Becomes(c, "asking", project, call[c].offer)
    BY <1>8, <1>a, <1>b, <1>c, BecomesWithProject DEF ProposeLoads, Stages, Begin
  <2>2. StageOK(call'[c])
    BY <1>8, <1>a, <2>1 DEF ProposeLoads, StageOK, Working, Becomes, Begin
  <2>3. QuietStep(c) /\ (MayOffer(c)' => MayOffer(c))
    BY <1>8, <2>1, Held, GoesOnQuietly DEF ProposeLoads, Stages
  <2> QED BY <2>1, <2>2, <2>3 DEF Becomes, Turns
<1>9. CASE SpeechLoads(c)
  <2>1. CASE Ends(c)
    BY <1>9, <2>1, EndsQuietly DEF SpeechLoads, Begin
  <2>2. CASE ~Ends(c)
    <3>1. Becomes(c, "asking", project, call[c].offer)
      BY <1>9, <2>2, <1>a, <1>b, <1>c, BecomesWithProject DEF SpeechLoads, Stages, Begin
    <3>2. StageOK(call'[c])
      BY <1>9, <1>a, <2>2, <3>1 DEF SpeechLoads, StageOK, Working, Becomes, Begin
    <3>3. QuietStep(c) /\ (MayOffer(c)' => MayOffer(c))
      BY <1>9, <3>1, <2>2, Held, GoesOnQuietly DEF SpeechLoads, Stages
    <3> QED BY <3>1, <3>2, <3>3 DEF Becomes, Turns
  <2> QED BY <2>1, <2>2
<1>10. CASE SpeechChecks(c)
  <2>1. CASE Ends(c)
    BY <1>10, <2>1, EndsQuietly DEF SpeechChecks, Goes
  <2>2. CASE ~Ends(c)
    <3>1. Becomes(c, "loading", call[c].p, call[c].offer)
      BY <1>10, <2>2, <1>a, <1>b, <1>c, BecomesAt DEF SpeechChecks, Stages, Goes
    <3>2. StageOK(call'[c])
      BY <1>10, <1>a, <2>2, <3>1 DEF SpeechChecks, StageOK, Working, Becomes, Goes
    <3>3. QuietStep(c) /\ (MayOffer(c)' => MayOffer(c))
      BY <1>10, <3>1, <2>2, Held, GoesOnQuietly DEF SpeechChecks, Stages
    <3> QED BY <3>1, <3>2, <3>3 DEF Becomes, Turns
  <2> QED BY <2>1, <2>2
<1>11. CASE SpeechLoadsAgain(c)
  <2>1. CASE Ends(c)
    BY <1>11, <2>1, EndsQuietly DEF SpeechLoadsAgain, Goes
  <2>2. CASE ~Ends(c)
    <3>1. Becomes(c, "publishing", call[c].p, call[c].offer)
      BY <1>11, <2>2, <1>a, <1>b, <1>c, BecomesAt DEF SpeechLoadsAgain, Stages, Goes
    <3>2. StageOK(call'[c])
      BY <1>11, <1>a, <2>2, <3>1 DEF SpeechLoadsAgain, StageOK, Working, Becomes, Goes
    <3>3. QuietStep(c) /\ (MayOffer(c)' => MayOffer(c))
      BY <1>11, <3>1, <2>2, Held, GoesOnQuietly DEF SpeechLoadsAgain, Stages
    <3> QED BY <3>1, <3>2, <3>3 DEF Becomes, Turns
  <2> QED BY <2>1, <2>2
<1>12. CASE AcceptReads(c)
  <2>1. CASE Ends(c)
    BY <1>12, <2>1, EndsQuietly DEF AcceptReads
  <2>2. CASE ~Ends(c)
    <3> DEFINE found == file[call[c].kind]
    <3>1. call[c].kind \in FileKinds
      BY <1>12, <1>a DEF AcceptReads, StageOK
    <3>2. found \in Offers /\ found # None /\ found \in Made
      BY <1>12, <2>2, <3>1, <1>c DEF AcceptReads, Named, Made
    <3>3. call' = [call EXCEPT ![c].at = "accepting", ![c].offer = found]
      BY <1>12, <2>2 DEF AcceptReads
    <3> HIDE DEF found
    <3>4. Becomes(c, "accepting", call[c].p, found)
      BY <3>2, <3>3, BecomesWithOffer DEF Stages
    <3>5. StageOK(call'[c])
      BY <1>12, <1>a, <3>1, <3>2, <3>4 DEF AcceptReads, StageOK, Working, Becomes
    <3>6. QuietStep(c) /\ (MayOffer(c)' => MayOffer(c))
      BY <1>12, <3>2, <3>4, Held, GoesOnQuietly DEF AcceptReads, Stages
    <3> QED BY <3>4, <3>5, <3>6 DEF Becomes, Turns
  <2> QED BY <2>1, <2>2
<1>13. CASE AcceptLoads(c)
  <2>1. CASE Ends(c)
    BY <1>13, <2>1, EndsQuietly DEF AcceptLoads
  <2>2. CASE ~Ends(c)
    <3>1. Becomes(c, "applying", project, call[c].offer)
      BY <1>13, <2>2, <1>a, <1>b, <1>c, BecomesWithProject DEF AcceptLoads, Stages
    <3>2. StageOK(call'[c])
      BY <1>13, <1>a, <2>2, <3>1 DEF AcceptLoads, StageOK, Working, Becomes
    <3>3. QuietStep(c) /\ (MayOffer(c)' => MayOffer(c))
      BY <1>13, <3>1, <2>2, Held, GoesOnQuietly DEF AcceptLoads, Stages
    <3> QED BY <3>1, <3>2, <3>3 DEF Becomes, Turns
  <2> QED BY <2>1, <2>2
<1>14. CASE RejectReads(c)
  <2>1. CASE Ends(c)
    BY <1>14, <2>1, EndsQuietly DEF RejectReads, Goes, Named
  <2>2. CASE ~Ends(c)
    <3>1. Becomes(c, "unlinking", call[c].p, call[c].offer)
      BY <1>14, <2>2, <1>a, <1>b, <1>c, BecomesAt DEF RejectReads, Stages, Goes, Named
    <3>2. StageOK(call'[c])
      BY <1>14, <1>a, <2>2, <3>1 DEF RejectReads, StageOK, Working, Becomes, Goes, Named
    <3>3. QuietStep(c) /\ (MayOffer(c)' => MayOffer(c))
      BY <1>14, <3>1, <2>2, Held, GoesOnQuietly DEF RejectReads, Stages
    <3> QED BY <3>1, <3>2, <3>3 DEF Becomes, Turns
  <2> QED BY <2>1, <2>2
<1>15. CASE ApplyLoads(c)
  <2>1. CASE Ends(c)
    BY <1>15, <2>1, EndsQuietly DEF ApplyLoads
  <2>2. CASE ~Ends(c)
    <3>1. Becomes(c, "applying", project, call[c].offer)
      BY <1>15, <2>2, <1>a, <1>b, <1>c, BecomesWithProject DEF ApplyLoads, Stages
    <3>2. StageOK(call'[c])
      BY <1>15, <1>a, <2>2, <3>1 DEF ApplyLoads, StageOK, Working, Becomes
    <3>3. QuietStep(c) /\ (MayOffer(c)' => MayOffer(c))
      BY <1>15, <3>1, <2>2, Held, GoesOnQuietly DEF ApplyLoads, Stages
    <3> QED BY <3>1, <3>2, <3>3 DEF Becomes, Turns
  <2> QED BY <2>1, <2>2
<1>16. CASE AddLoads(c)
  <2>1. Becomes(c, "adding", project, call[c].offer) \/ Becomes(c, "adding freely", project, call[c].offer)
    BY <1>16, <1>a, BecomesWithProject DEF AddLoads, Loads, Stages
  <2>2. StageOK(call'[c])
    BY <1>16, <1>a, <2>1 DEF AddLoads, Loads, StageOK, Working, Becomes
  <2>3. QuietStep(c) /\ (MayOffer(c)' => MayOffer(c))
    BY <1>16, <2>1, Held, GoesOnQuietly DEF AddLoads, Loads, Stages
  <2> QED BY <2>1, <2>2, <2>3 DEF Becomes, Turns
<1>17. CASE Publish(c) \/ Unlink(c)
  <2>1. Turns(c) /\ call'[c] = Done
    BY <1>17, EndTurns DEF Publish, Unlink
  <2>2. file' \in [FileKinds -> Made \cup {None}]
    <3>1. file \in [FileKinds -> Made \cup {None}] /\ call[c].offer \in Made \cup {None} BY Held
    <3>2. CASE Publish(c)
      <4>1. call[c].do \in FileKinds /\ file' = [file EXCEPT ![call[c].do] = call[c].offer] BY <3>2 DEF Publish
      <4> QED BY <3>1, <4>1
    <3>3. CASE Unlink(c)
      <4>1. file' = file \/ file' = [file EXCEPT ![call[c].kind] = None] BY <3>3 DEF Unlink
      <4> QED BY <3>1, <4>1
    <3> QED BY <1>17, <3>2, <3>3
  <2> QED BY <1>17, <2>1, <2>2 DEF QuietStep, Done, Quiet, Publish, Unlink
<1> QED BY <1>1, <1>2, <1>3, <1>4, <1>5, <1>6, <1>7, <1>8, <1>9, <1>10, <1>11, <1>12, <1>13, <1>14, <1>15, <1>16, <1>17

LEMMA OfferIsAnOffer ==
  ASSUME TypeOK, NEW c \in Call, NEW p \in Projects, NEW uses \in SUBSET p.sources
  PROVE  Offer(c, p, uses) \in Offers
BY DEF Offer, Offers, Projects, Content

LEMMA OfferingActions ==
  ASSUME TypeOK, ProjectInv, CopiesInv, Staged, NEW c \in Call,
         LocalLoads(c) \/ SpeechAnswers(c) \/ TemplateAnswers(c) \/ ProposeAnswers(c)
  PROVE  Turns(c) /\ (QuietStep(c) \/ OfferingStep(c))
<1> USE AssemblyWorkAssumption DEF At
<1>a. /\ call[c] \in Calls /\ StageOK(call[c]) /\ project \in Projects /\ Inside(project)
  BY DEF TypeOK, Staged, ProjectInv
<1>b. ASSUME NEW at \in {"publishing", "checking", "saving"}, NEW p \in Copies \cup {project}, NEW uses \in SUBSET p.sources,
             call' = [call EXCEPT ![c].at = at, ![c].offer = Offer(c, p, uses)],
             call[c].do \in Offering, call[c].at \in {"asked", "asking"}, at # "publishing" => call[c].at = "asking",
             UNCHANGED <<project, photos, file>>
      PROVE  Turns(c) /\ OfferingStep(c)
  <2>1. Offer(c, p, uses) \in Offers /\ Offer(c, p, uses) # None
    BY <1>a, OfferIsAnOffer, Held
  <2>2. Becomes(c, at, call[c].p, Offer(c, p, uses))
    BY <1>b, <2>1, BecomesWithOffer DEF Stages
  <2>3. StageOK(call'[c])
    BY <1>a, <1>b, <2>1, <2>2 DEF StageOK, Working, Becomes, MayOffer, Offering
  <2>4. ~MayOffer(c)'
    BY <2>2, <1>b DEF MayOffer, Becomes
  <2>5. MayOffer(c)
    BY <1>b DEF MayOffer
  <2> QED BY <1>b, <2>2, <2>3, <2>4, <2>5, Held DEF Turns, OfferingStep, Becomes
<1>c. call[c].at = "asking" => call[c].p \in Copies /\ Inside(call[c].p)
  BY <1>a, Held DEF StageOK, Working, CopiesInv
<1>1. CASE LocalLoads(c)
  BY <1>1, <1>a, <1>b DEF LocalLoads, Inside, Offering
<1>2. CASE SpeechAnswers(c)
  BY <1>2, <1>a, <1>b, <1>c DEF SpeechAnswers, Inside, Offering
<1>3. CASE TemplateAnswers(c)
  <2>1. PICK uses \in SUBSET call[c].p.analysed :
          call' = [call EXCEPT ![c].at = "checking", ![c].offer = Offer(c, call[c].p, uses)]
    BY <1>3 DEF TemplateAnswers
  <2>2. call[c].p \in Copies \cup {project} /\ uses \in SUBSET call[c].p.sources
    BY <1>3, <1>c DEF TemplateAnswers, Inside
  <2>3. UNCHANGED <<project, photos, file>> /\ call[c].do = "template" /\ call[c].at = "asking"
    BY <1>3 DEF TemplateAnswers
  <2> QED BY <1>b, <2>1, <2>2, <2>3 DEF Offering
<1>4. CASE ProposeAnswers(c)
  <2>1. CASE Current(c)
    BY <1>4, <2>1, <1>a, <1>b, <1>c DEF ProposeAnswers, Inside, Offering
  <2>2. CASE ~Current(c)
    BY <1>4, <2>2, EndsQuietly DEF ProposeAnswers
  <2> QED BY <2>1, <2>2
<1> QED BY <1>1, <1>2, <1>3, <1>4

LEMMA StartIsQuiet ==
  ASSUME TypeOK, NEW c \in Call, Start(c)
  PROVE  Turns(c) /\ QuietStep(c)
<1> USE AssemblyWorkAssumption
<1>a. call[c].at = "idle" /\ call \in [Call -> Calls] /\ UNCHANGED <<project, photos, file>> /\ MayOffer(c)
  BY DEF Start, TypeOK, MayOffer
<1>b. /\ project \in Projects /\ project.rev \in Nat /\ gen + 1 \in Nat
  BY DEF TypeOK, Projects
<1>c. ASSUME NEW r \in Calls, call' = [call EXCEPT ![c] = r], StageOK(r), r.p = None, r.offer \in Made \cup {None}
      PROVE  Turns(c) /\ QuietStep(c)
  BY <1>a, <1>c, Held DEF Turns, QuietStep
<1> DEFINE Asked(do) == [Quiet EXCEPT !.do = do, !.at = "asked", !.base = project.rev]
<1>1. ASSUME NEW do \in Kinds \ {"apply", "accept", "reject", "preview", "cancel", "remove", "analyze"}, Ask(c, do)
      PROVE  Turns(c) /\ QuietStep(c)
  <2>1. Asked(do) \in Calls /\ StageOK(Asked(do)) /\ Asked(do).p = None /\ Asked(do).offer = None
    BY <1>b DEF Quiet, Calls, Stages, StageOK, Working, Kinds
  <2> QED BY <1>1, <1>c, <2>1 DEF Ask
<1>2. ASSUME NEW do \in {"remove", "analyze"}, NEW s \in project.sources,
             call' = [call EXCEPT ![c] = [Quiet EXCEPT !.do = do, !.at = "asked", !.base = project.rev, !.source = s]]
      PROVE  Turns(c) /\ QuietStep(c)
  <2> DEFINE r == [Quiet EXCEPT !.do = do, !.at = "asked", !.base = project.rev, !.source = s]
  <2>1. r \in Calls /\ StageOK(r) /\ r.p = None /\ r.offer = None
    BY <1>b DEF Quiet, Calls, Stages, StageOK, Working, Kinds, Projects
  <2> QED BY <1>2, <1>c, <2>1
<1>3. ASSUME project.proposal # None,
             call' = [call EXCEPT ![c] = [Quiet EXCEPT !.do = "apply", !.at = "asked", !.base = project.rev, !.offer = project.proposal]]
      PROVE  Turns(c) /\ QuietStep(c)
  <2> DEFINE r == [Quiet EXCEPT !.do = "apply", !.at = "asked", !.base = project.rev, !.offer = project.proposal]
  <2>1. r \in Calls /\ StageOK(r) /\ r.p = None /\ r.offer = project.proposal
    BY <1>b, <1>3 DEF Quiet, Calls, Stages, StageOK, Working, Kinds, Projects
  <2> QED BY <1>3, <1>c, <2>1, Held
<1>4. ASSUME NEW k \in FileKinds, NEW do \in {"accept", "reject"}, file[k] # None,
             call' = [call EXCEPT ![c] = [Quiet EXCEPT !.do = do, !.at = "asked", !.base = project.rev,
                                                       !.kind = k, !.offer = file[k]]]
      PROVE  Turns(c) /\ QuietStep(c)
  <2> DEFINE r == [Quiet EXCEPT !.do = do, !.at = "asked", !.base = project.rev, !.kind = k, !.offer = file[k]]
  <2>1. file[k] \in Offers /\ file[k] \in Made
    BY <1>4, Held DEF TypeOK
  <2>2. r \in Calls /\ StageOK(r) /\ r.p = None /\ r.offer = file[k]
    BY <1>b, <1>4, <2>1 DEF Quiet, Calls, Stages, StageOK, Working, Kinds
  <2> QED BY <1>4, <1>c, <2>1, <2>2
<1>5. ASSUME Ends(c)
      PROVE  Turns(c) /\ QuietStep(c)
  BY <1>a, <1>5, EndsQuietly
<1>6. ASSUME call' = [call EXCEPT ![c] = [Quiet EXCEPT !.do = "preview", !.at = "asked", !.base = project.rev, !.gen = gen + 1]]
      PROVE  Turns(c) /\ QuietStep(c)
  <2> DEFINE r == [Quiet EXCEPT !.do = "preview", !.at = "asked", !.base = project.rev, !.gen = gen + 1]
  <2>1. r \in Calls /\ StageOK(r) /\ r.p = None /\ r.offer = None
    BY <1>b DEF Quiet, Calls, Stages, StageOK, Working, Kinds
  <2> QED BY <1>6, <1>c, <2>1
<1> QED BY <1>1, <1>2, <1>3, <1>4, <1>5, <1>6 DEF Start

-----------------------------------------------------------------------------
\* The steps that write, by what they do to the content.
Carries(c) ==
  /\ project' \in Projects /\ file' = file
  /\ call'[c].p \in Copies \cup {project', None}
  /\ call'[c].offer \in Made \cup {None}
  /\ project'.proposal \in Made \cup {None}

Photographs == project' = project /\ \E p \in Copies : Photograph(p)
Records ==
  /\ \E p \in Copies : p.rev = project.rev /\ Photograph(p)
  /\ project'.rev = project.rev + 1 /\ project'.sources = project.sources /\ Inside(project')
  /\ project'.head = project.rev + 1 /\ project'.steps = Append(Live(project), project.rev)
Restoring ==
  /\ photos' = photos /\ Live(project) # <<>>
  /\ project' = [Bumped(project) EXCEPT !.uses = photos[project.steps[Len(project.steps)]], !.head = project.rev + 1,
                                        !.steps = SubSeq(@, 1, Len(@) - 1)]
Bumping ==
  /\ photos' = photos /\ project'.rev = project.rev + 1 /\ Inside(project')
  /\ project'.head = project.head /\ project'.steps = project.steps
Analysing ==
  /\ photos' = photos /\ project'.rev = project.rev /\ Inside(project')
  /\ project'.sources = project.sources /\ project'.uses = project.uses
  /\ project'.head = project.head /\ project'.steps = project.steps
  /\ project.analysed \subseteq project'.analysed
WritingStep(c) == Carries(c) /\ (Photographs \/ Records \/ Restoring \/ Bumping \/ Analysing)

LEMMA MergedFields ==
  ASSUME project \in Projects, NEW next \in Projects
  PROVE  /\ Merged(next) \in Projects
         /\ Merged(next).analysed = next.analysed \cup project.analysed
         /\ Merged(next).proposal = next.proposal
         /\ next.rev > project.rev =>
              /\ Merged(next).rev = next.rev /\ Merged(next).sources = next.sources
              /\ Merged(next).uses = next.uses
              /\ Merged(next).head = next.head /\ Merged(next).steps = next.steps
         /\ ~(next.rev > project.rev) =>
              /\ Merged(next).rev = project.rev /\ Merged(next).sources = project.sources
              /\ Merged(next).uses = project.uses
              /\ Merged(next).head = project.head /\ Merged(next).steps = project.steps
BY DEF Merged, Projects

LEMMA RecordedFields ==
  ASSUME NEW p \in Projects, NEW uses \in SUBSET Source
  PROVE  /\ Recorded(p, uses) \in Projects
         /\ Recorded(p, uses).rev = p.rev + 1 /\ Recorded(p, uses).sources = p.sources
         /\ Recorded(p, uses).uses = uses /\ Recorded(p, uses).analysed = p.analysed
         /\ Recorded(p, uses).head = p.rev + 1 /\ Recorded(p, uses).steps = Append(Live(p), p.rev)
         /\ Recorded(p, uses).proposal = p.proposal
<1> DEFINE next == p.rev + 1
           steps == Append(Live(p), p.rev)
<1>1. next \in Nat /\ steps \in Seq(Nat)
  BY DEF Live, Projects
<1>2. Recorded(p, uses) = [[p EXCEPT !.rev = next] EXCEPT !.uses = uses, !.head = next, !.steps = steps]
  BY DEF Recorded, Bumped
<1> HIDE DEF next, steps
<1>3. Recorded(p, uses) \in Projects
  BY <1>1, <1>2 DEF Projects
<1>4. /\ Recorded(p, uses).rev = next /\ Recorded(p, uses).sources = p.sources
      /\ Recorded(p, uses).uses = uses /\ Recorded(p, uses).analysed = p.analysed
      /\ Recorded(p, uses).head = next /\ Recorded(p, uses).steps = steps
      /\ Recorded(p, uses).proposal = p.proposal
  BY <1>2 DEF Projects
<1> QED BY <1>3, <1>4 DEF next, steps

LEMMA BumpedFields ==
  ASSUME NEW p \in Projects
  PROVE  /\ Bumped(p) \in Projects
         /\ Bumped(p).rev = p.rev + 1 /\ Bumped(p).sources = p.sources
         /\ Bumped(p).uses = p.uses /\ Bumped(p).analysed = p.analysed
         /\ Bumped(p).head = p.head /\ Bumped(p).steps = p.steps /\ Bumped(p).proposal = p.proposal
<1> DEFINE next == p.rev + 1
<1>1. next \in Nat
  BY DEF Projects
<1>2. Bumped(p) = [p EXCEPT !.rev = next]
  BY DEF Bumped
<1> HIDE DEF next
<1>3. Bumped(p) \in Projects
  BY <1>1, <1>2 DEF Projects
<1>4. /\ Bumped(p).rev = next /\ Bumped(p).sources = p.sources
      /\ Bumped(p).uses = p.uses /\ Bumped(p).analysed = p.analysed
      /\ Bumped(p).head = p.head /\ Bumped(p).steps = p.steps /\ Bumped(p).proposal = p.proposal
  BY <1>2 DEF Projects
<1> QED BY <1>3, <1>4 DEF next

\* Saving what was recorded over a copy, or the project itself, of the revision on disk.
LEMMA SavingRecords ==
  ASSUME TypeOK, ProjectInv, CopiesInv, NEW p \in Copies \cup {project}, p.rev = project.rev,
         NEW uses \in SUBSET project.sources, NEW next \in Projects,
         next.rev = Recorded(p, uses).rev, next.sources = Recorded(p, uses).sources,
         next.uses = uses, next.analysed = p.analysed,
         next.head = Recorded(p, uses).head, next.steps = Recorded(p, uses).steps,
         project' = Merged(next)
  PROVE  /\ project' \in Projects /\ project'.proposal = next.proposal
         /\ project'.rev = project.rev + 1 /\ project'.sources = project.sources /\ Inside(project')
         /\ project'.head = project.rev + 1 /\ project'.steps = Append(Live(project), project.rev)
<1>1. project \in Projects /\ project.rev \in Nat /\ uses \in SUBSET Source
  BY DEF TypeOK, Projects
<1>0. p \in Projects
  BY <1>1 DEF Copies, TypeOK, Calls
<1>2. p.sources = project.sources /\ p.head = project.head /\ p.steps = project.steps /\ Inside(p) /\ Inside(project)
  BY DEF CopiesInv, Agrees, ProjectInv
<1>3. Live(p) = Live(project)
  BY <1>2 DEF Live
<1>4. /\ next.rev = project.rev + 1 /\ next.sources = project.sources
      /\ next.head = project.rev + 1 /\ next.steps = Append(Live(project), project.rev)
  BY <1>0, <1>1, <1>2, <1>3, RecordedFields
<1>5. /\ project' \in Projects /\ project'.proposal = next.proposal
      /\ project'.rev = project.rev + 1 /\ project'.sources = project.sources
      /\ project'.uses = uses /\ project'.analysed = p.analysed \cup project.analysed
      /\ project'.head = project.rev + 1 /\ project'.steps = Append(Live(project), project.rev)
  BY <1>1, <1>4, MergedFields
<1> QED BY <1>2, <1>5 DEF Inside

\* A request that saves, what it loaded, and what it leaves behind when it ends.
LEMMA WritingEnds ==
  ASSUME TypeOK, NEW c \in Call, Ends(c), file' = file,
         project' \in Projects, project'.proposal \in Made \cup {None}
  PROVE  Turns(c) /\ Carries(c)
BY EndTurns, Held DEF Carries, Done, Quiet

LEMMA EditSavesWrites ==
  ASSUME TypeOK, ProjectInv, CopiesInv, Staged, NEW c \in Call, EditSaves(c)
  PROVE  Turns(c) /\ WritingStep(c)
<1> USE AssemblyWorkAssumption
<1> DEFINE p == call[c].p
<1>1. /\ p \in Copies /\ p \in Projects /\ p.rev = call[c].base /\ Inside(p) /\ Agrees(p)
      /\ p.proposal \in Made \cup {None} /\ project \in Projects /\ Ends(c) /\ file' = file /\ Photograph(p)
  <2>1. StageOK(call[c]) /\ call[c].at = "saving"
    BY DEF EditSaves, At, Staged
  <2> QED BY <2>1, Held DEF EditSaves, StageOK, Working, CopiesInv, TypeOK, Refused
<1>2. CASE project' = project
  BY <1>1, <1>2, WritingEnds, Held DEF WritingStep, Photographs
<1>3. CASE project' # project
  <2>1. PICK uses \in SUBSET (p.uses \cup p.analysed) : call[c].base = project.rev /\ project' = Merged(Recorded(p, uses))
    BY <1>3 DEF EditSaves, Saves, Refused
  <2>2. p.rev = project.rev /\ uses \in SUBSET project.sources /\ uses \in SUBSET Source
    BY <1>1, <2>1 DEF Inside, Agrees, Projects
  <2>3. /\ project' \in Projects /\ project'.proposal = p.proposal
        /\ project'.rev = project.rev + 1 /\ project'.sources = project.sources /\ Inside(project')
        /\ project'.head = project.rev + 1 /\ project'.steps = Append(Live(project), project.rev)
    BY <1>1, <2>1, <2>2, RecordedFields, SavingRecords
  <2>4. Turns(c) /\ Carries(c)
    BY <1>1, <2>3, WritingEnds
  <2> QED BY <1>1, <2>2, <2>3, <2>4 DEF WritingStep, Records
<1> QED BY <1>2, <1>3

LEMMA AcceptSavesWrites ==
  ASSUME TypeOK, ProjectInv, CopiesInv, MadeInv, Staged, NEW c \in Call, AcceptSaves(c)
  PROVE  Turns(c) /\ WritingStep(c)
<1> USE AssemblyWorkAssumption
<1> DEFINE own == call[c].p
           p == IF call[c].kind = "template" THEN project ELSE own
           offer == call[c].offer
<1>1. /\ own \in Copies /\ own.rev = call[c].base /\ Inside(own) /\ Agrees(own)
      /\ offer \in Made /\ offer \in Offers /\ OfferOK(offer) /\ call[c].kind \in FileKinds
      /\ project \in Projects /\ file' = file /\ Photograph(own)
      /\ project.proposal \in Made \cup {None} /\ own.proposal \in Made \cup {None}
      /\ call[c].do = "accept"
  <2>1. StageOK(call[c]) /\ At(c, "accept", "applying")
    BY DEF AcceptSaves, Staged
  <2> QED BY <2>1, Held DEF AcceptSaves, At, StageOK, Working, CopiesInv, MadeInv, TypeOK
<1>2. CASE Refused(c)
  BY <1>1, <1>2, WritingEnds, Held DEF WritingStep, Photographs, Refused
<1>3. CASE ~Refused(c)
  <2> DEFINE next == [Recorded(p, offer.uses) EXCEPT !.proposal = IF call[c].kind = "template" THEN offer ELSE @]
  <2>1. offer.base = p.rev /\ call[c].base = project.rev /\ project' = Merged(next) /\ Goes(c, "unlinking")
    BY <1>3 DEF AcceptSaves, Saves
  <2>2. /\ p \in Copies \cup {project} /\ p \in Projects /\ p.rev = project.rev
        /\ p.proposal \in Made \cup {None} /\ own.rev = project.rev
    BY <1>1, <2>1, Held
  <2>3. offer.uses \in SUBSET project.sources /\ offer.uses \in SUBSET Source
    BY <1>1, <2>1, <2>2 DEF OfferOK, Content, Offers
  <2>4. /\ next \in Projects
        /\ next.rev = Recorded(p, offer.uses).rev /\ next.sources = Recorded(p, offer.uses).sources
        /\ next.uses = offer.uses /\ next.analysed = p.analysed
        /\ next.head = Recorded(p, offer.uses).head /\ next.steps = Recorded(p, offer.uses).steps
        /\ next.proposal \in {offer, p.proposal}
    <3> DEFINE r == Recorded(p, offer.uses)
               kept == IF call[c].kind = "template" THEN offer ELSE r.proposal
    <3> HIDE DEF p, offer
    <3>1. r \in Projects /\ r.uses = offer.uses /\ r.analysed = p.analysed /\ r.proposal = p.proposal
      BY <2>2, <2>3, RecordedFields
    <3>2. kept \in Offers \cup {None} /\ kept \in {offer, p.proposal}
      BY <1>1, <3>1 DEF Projects
    <3>3. next = [r EXCEPT !.proposal = kept]
      OBVIOUS
    <3> HIDE DEF r, kept, next, p, offer
    <3>4. /\ next \in Projects /\ next.rev = r.rev /\ next.sources = r.sources
          /\ next.uses = r.uses /\ next.analysed = r.analysed
          /\ next.head = r.head /\ next.steps = r.steps /\ next.proposal = kept
      BY <3>1, <3>2, <3>3 DEF Projects
    <3> QED BY <3>1, <3>2, <3>4 DEF r
  <2>5. /\ project' \in Projects /\ project'.proposal = next.proposal
        /\ project'.rev = project.rev + 1 /\ project'.sources = project.sources /\ Inside(project')
        /\ project'.head = project.rev + 1 /\ project'.steps = Append(Live(project), project.rev)
    <3> HIDE DEF next, p
    <3> QED BY <2>1, <2>2, <2>3, <2>4, SavingRecords
  <2>6. Becomes(c, "unlinking", own, offer)
    <3>1. "unlinking" \in Stages /\ gen \in Nat
      BY DEF Stages, TypeOK
    <3> QED BY <2>1, <3>1, BecomesAt DEF Goes
  <2>7. Turns(c) /\ call'[c].p = own /\ call'[c].offer = offer
    BY <1>1, <2>6 DEF Turns, Becomes, StageOK, Working, MayOffer
  <2>8. Carries(c)
    BY <1>1, <2>2, <2>4, <2>5, <2>7 DEF Carries
  <2> QED BY <1>1, <2>2, <2>5, <2>7, <2>8 DEF WritingStep, Records
<1> QED BY <1>2, <1>3

LEMMA ApplySavesWrites ==
  ASSUME TypeOK, ProjectInv, CopiesInv, MadeInv, Staged, NEW c \in Call, ApplySaves(c)
  PROVE  Turns(c) /\ WritingStep(c)
<1> USE AssemblyWorkAssumption
<1> DEFINE own == call[c].p
<1>1. /\ own \in Copies /\ own.rev = call[c].base /\ project \in Projects /\ Ends(c) /\ file' = file
      /\ Photograph(own) /\ project.proposal \in Made \cup {None} /\ Inside(project)
  <2>1. StageOK(call[c]) /\ At(c, "apply", "applying")
    BY DEF ApplySaves, Staged
  <2> QED BY <2>1, Held DEF ApplySaves, At, StageOK, Working, TypeOK, ProjectInv
<1>2. CASE project' = project
  BY <1>1, <1>2, WritingEnds DEF WritingStep, Photographs
<1>3. CASE project' # project
  <2>1. /\ call[c].base = project.rev /\ project.proposal # None /\ project.proposal.base = project.rev
        /\ project' = Recorded(project, project.proposal.uses)
    BY <1>3 DEF ApplySaves
  <2>2. project.proposal \in Made /\ project.proposal \in Offers /\ OfferOK(project.proposal)
    BY <1>1, <2>1, Held DEF MadeInv
  <2>3. project.proposal.uses \in SUBSET project.sources /\ project.proposal.uses \in SUBSET Source
    BY <2>1, <2>2 DEF OfferOK, Content, Offers
  <2>4. /\ project' \in Projects /\ project'.proposal = project.proposal
        /\ project'.rev = project.rev + 1 /\ project'.sources = project.sources /\ Inside(project')
        /\ project'.head = project.rev + 1 /\ project'.steps = Append(Live(project), project.rev)
    BY <1>1, <2>1, <2>3, RecordedFields DEF Inside
  <2> QED BY <1>1, <2>1, <2>4, WritingEnds DEF WritingStep, Records
<1> QED BY <1>2, <1>3

LEMMA RestoresWrites ==
  ASSUME TypeOK, ProjectInv, CopiesInv, Staged, NEW c \in Call, Restores(c)
  PROVE  Turns(c) /\ WritingStep(c)
<1> USE AssemblyWorkAssumption
<1> DEFINE own == call[c].p
<1>1. /\ own \in Copies /\ own.rev = call[c].base /\ own.head = own.rev /\ own.steps # <<>> /\ Agrees(own)
      /\ project \in Projects /\ Ends(c) /\ file' = file /\ photos' = photos
      /\ project.proposal \in Made \cup {None} /\ Photographed
  <2>1. StageOK(call[c]) /\ At(c, "undo", "restoring")
    BY DEF Restores, Staged
  <2> QED BY <2>1, Held DEF Restores, At, StageOK, Working, TypeOK, CopiesInv, ProjectInv
<1>2. CASE call[c].base # project.rev
  <2>1. project' = project
    BY <1>2 DEF Restores
  <2> QED BY <1>1, <2>1, WritingEnds DEF WritingStep, Analysing, ProjectInv
<1>3. CASE call[c].base = project.rev
  <2>1. own.steps = project.steps /\ Live(project) = project.steps /\ project.steps # <<>> /\ project.steps \in Seq(Nat)
    BY <1>1, <1>3 DEF Agrees, Live, Projects
  <2> DEFINE top == project.steps[Len(project.steps)]
             uses == photos[top]
             rest == SubSeq(project.steps, 1, Len(project.steps) - 1)
  <2>2. Len(project.steps) \in DOMAIN Live(project) /\ rest \in Seq(Nat)
    BY <2>1
  <2>3. uses \in SUBSET Source
    BY <1>1, <2>1, <2>2 DEF Photographed, TypeOK
  <2>4. project' = [Bumped(project) EXCEPT !.uses = uses, !.head = project.rev + 1, !.steps = rest]
    <3>1. Bumped(project).steps = project.steps
      BY <1>1, BumpedFields
    <3> QED BY <1>3, <2>1, <3>1 DEF Restores
  <2>5. project' \in Projects /\ project'.proposal = project.proposal
    <3>1. Bumped(project) \in Projects /\ project.rev + 1 \in Nat /\ Bumped(project).proposal = project.proposal
      BY <1>1, BumpedFields DEF Projects
    <3> HIDE DEF uses, rest
    <3> QED BY <2>2, <2>3, <2>4, <3>1 DEF Projects
  <2>6. Restoring
    <3>1. Bumped(project).steps = project.steps
      BY <1>1, BumpedFields
    <3> QED BY <1>1, <2>1, <2>4, <3>1 DEF Restoring
  <2> QED BY <1>1, <2>5, <2>6, WritingEnds DEF WritingStep
<1> QED BY <1>2, <1>3

\* A step that saves nothing, or only analyses.
LEMMA SameIsAnalysing ==
  ASSUME ProjectInv, project' = project, photos' = photos
  PROVE  Analysing
BY DEF Analysing, ProjectInv

LEMMA AddSavesWrites ==
  ASSUME TypeOK, ProjectInv, CopiesInv, Staged, NEW c \in Call, AddSaves(c)
  PROVE  Turns(c) /\ WritingStep(c)
<1> USE AssemblyWorkAssumption
<1> DEFINE p == call[c].p
<1>1. /\ p \in Copies /\ p \in Projects /\ p.rev = call[c].base /\ Inside(p) /\ Agrees(p)
      /\ p.proposal \in Made \cup {None} /\ project \in Projects /\ Inside(project)
      /\ file' = file /\ photos' = photos /\ project.proposal \in Made \cup {None}
      /\ call[c].at \in {"adding", "adding freely"}
  <2>1. StageOK(call[c]) /\ call[c].at \in {"adding", "adding freely"}
    BY DEF AddSaves, Staged
  <2> QED BY <2>1, Held DEF AddSaves, StageOK, Working, CopiesInv, TypeOK, ProjectInv
<1>2. CASE Refused(c)
  BY <1>1, <1>2, WritingEnds, SameIsAnalysing DEF WritingStep, Refused
<1>3. CASE ~Refused(c)
  <2>1. PICK s \in Source \ p.sources :
          /\ Saves(c, [Bumped(p) EXCEPT !.sources = @ \cup {s}])
          /\ IF call[c].at = "adding" \/ Active THEN Ends(c) /\ Same
             ELSE /\ Begin("queued") /\ UNCHANGED inFlight
                  /\ call' = [call EXCEPT ![c] = [Quiet EXCEPT !.do = "analyze", !.at = "analysing",
                                                               !.source = s, !.gen = gen + 1]]
    BY <1>3 DEF AddSaves
  <2> DEFINE next == [Bumped(p) EXCEPT !.sources = Bumped(p).sources \cup {s}]
  <2>2. /\ next \in Projects /\ next.rev = p.rev + 1 /\ next.sources = p.sources \cup {s}
        /\ next.uses = p.uses /\ next.analysed = p.analysed /\ next.proposal = p.proposal
        /\ next.head = p.head /\ next.steps = p.steps
    <3> DEFINE b == Bumped(p)
               sources == b.sources \cup {s}
    <3>1. /\ b \in Projects /\ b.rev = p.rev + 1 /\ b.sources = p.sources
          /\ b.uses = p.uses /\ b.analysed = p.analysed
          /\ b.head = p.head /\ b.steps = p.steps /\ b.proposal = p.proposal
      BY <1>1, BumpedFields
    <3>2. sources \in SUBSET Source
      BY <1>1, <3>1 DEF Projects
    <3>3. next = [b EXCEPT !.sources = sources]
      OBVIOUS
    <3> HIDE DEF next, b, sources
    <3>4. /\ next \in Projects /\ next.rev = b.rev /\ next.sources = sources
          /\ next.uses = b.uses /\ next.analysed = b.analysed /\ next.proposal = b.proposal
          /\ next.head = b.head /\ next.steps = b.steps
      BY <3>1, <3>2, <3>3 DEF Projects
    <3> QED BY <3>1, <3>4 DEF sources
  <2>3. call[c].base = project.rev /\ project' = Merged(next)
    BY <2>1 DEF Saves
  <2>4. /\ project.rev \in Nat /\ p.rev = project.rev
        /\ p.sources = project.sources /\ p.head = project.head /\ p.steps = project.steps
    BY <1>1, <2>3 DEF Agrees, Projects
  <2>5. /\ project' \in Projects /\ project'.rev = project.rev + 1 /\ project'.sources = project.sources \cup {s}
        /\ project'.uses = p.uses /\ project'.analysed = p.analysed \cup project.analysed
        /\ project'.head = project.head /\ project'.steps = project.steps /\ project'.proposal = p.proposal
    <3> HIDE DEF next, p
    <3>0. next.rev = project.rev + 1
      BY <2>2, <2>4
    <3>1. next.rev > project.rev
      BY <2>4, <3>0
    <3>2. /\ project' \in Projects /\ project'.analysed = next.analysed \cup project.analysed
          /\ project'.rev = next.rev /\ project'.sources = next.sources /\ project'.uses = next.uses
          /\ project'.head = next.head /\ project'.steps = next.steps /\ project'.proposal = next.proposal
      BY <1>1, <2>2, <2>3, <3>1, MergedFields
    <3> QED BY <2>2, <2>4, <3>2
  <2>6. Bumping
    BY <1>1, <2>4, <2>5 DEF Bumping, Inside
  <2>7. CASE Ends(c)
    BY <1>1, <2>5, <2>6, <2>7, WritingEnds DEF WritingStep
  <2>8. CASE ~Ends(c)
    <3> DEFINE next_gen == gen + 1
               r == [Quiet EXCEPT !.do = "analyze", !.at = "analysing", !.source = s, !.gen = next_gen]
    <3>0. next_gen \in Nat /\ s \in Source
      BY DEF TypeOK
    <3>1. r \in Calls /\ StageOK(r) /\ r.p = None /\ r.offer = None /\ r.at = "analysing"
      <4> HIDE DEF next_gen, p, next
      <4> QED BY <3>0 DEF Quiet, Calls, Stages, Kinds, StageOK, Working
    <3>2. call' = [call EXCEPT ![c] = r]
      BY <2>1, <2>8
    <3> HIDE DEF r
    <3>3. Turns(c) /\ call'[c] = r
      BY <3>1, <3>2 DEF Turns, TypeOK, MayOffer
    <3> QED BY <1>1, <2>5, <2>6, <3>1, <3>3 DEF WritingStep, Carries
  <2> QED BY <2>7, <2>8
<1> QED BY <1>2, <1>3

LEMMA RemoveWrites ==
  ASSUME TypeOK, ProjectInv, CopiesInv, Staged, NEW c \in Call, Remove(c)
  PROVE  Turns(c) /\ WritingStep(c)
<1>1. /\ project \in Projects /\ Inside(project) /\ Ends(c)
      /\ file' = file /\ photos' = photos /\ project.proposal \in Made \cup {None}
  BY Held DEF Remove, TypeOK, ProjectInv
<1>2. CASE project' = project
  BY <1>1, <1>2, WritingEnds, SameIsAnalysing DEF WritingStep
<1>3. CASE project' # project
  <2> DEFINE s == call[c].source
             b == Bumped(project)
             sources == b.sources \ {s}
             analysed == b.analysed \ {s}
  <2>1. /\ project' = [b EXCEPT !.sources = sources, !.analysed = analysed, !.proposal = None]
        /\ s \notin project.uses
    BY <1>3 DEF Remove
  <2>2. /\ b \in Projects /\ b.rev = project.rev + 1 /\ b.sources = project.sources
        /\ b.uses = project.uses /\ b.analysed = project.analysed
        /\ b.head = project.head /\ b.steps = project.steps
    BY <1>1, BumpedFields
  <2>3. sources \in SUBSET Source /\ analysed \in SUBSET Source
    BY <2>2 DEF Projects
  <2>4. project.uses \cup analysed \subseteq sources
    BY <1>1, <2>1, <2>2 DEF Inside
  <2> HIDE DEF s, b, sources, analysed
  <2>5. /\ project' \in Projects /\ project'.rev = b.rev /\ project'.sources = sources
        /\ project'.uses = b.uses /\ project'.analysed = analysed /\ project'.proposal = None
        /\ project'.head = b.head /\ project'.steps = b.steps
    BY <2>1, <2>2, <2>3 DEF Projects
  <2>6. Bumping
    BY <1>1, <2>2, <2>4, <2>5 DEF Bumping, Inside
  <2> QED BY <1>1, <2>5, <2>6, WritingEnds DEF WritingStep
<1> QED BY <1>2, <1>3

LEMMA AnalyzeSavesWrites ==
  ASSUME TypeOK, ProjectInv, CopiesInv, Staged, NEW c \in Call, AnalyzeSaves(c)
  PROVE  Turns(c) /\ WritingStep(c)
<1> USE AssemblyWorkAssumption
<1> DEFINE s == call[c].source
           analysed == project.analysed \cup {s}
<1>1. /\ project \in Projects /\ Inside(project) /\ At(c, "analyze", "analysing") /\ Goes(c, "ending")
      /\ file' = file /\ photos' = photos /\ project.proposal \in Made \cup {None}
  BY Held DEF AnalyzeSaves, TypeOK, ProjectInv
<1>2. Becomes(c, "ending", call[c].p, call[c].offer)
  <2>1. "ending" \in Stages /\ gen \in Nat
    BY DEF Stages, TypeOK
  <2> QED BY <1>1, <2>1, BecomesAt DEF Goes
<1>3. Turns(c) /\ call'[c].p = call[c].p /\ call'[c].offer = call[c].offer
  BY <1>1, <1>2 DEF Turns, Becomes, At, StageOK, Working, MayOffer
<1>4. CASE project' = project
  BY <1>1, <1>3, <1>4, Held, SameIsAnalysing DEF WritingStep, Carries
<1>5. CASE project' # project
  <2>1. s \in project.sources /\ project' = [project EXCEPT !.analysed = analysed]
    BY <1>5 DEF AnalyzeSaves, Analysed
  <2>2. analysed \in SUBSET Source /\ analysed \subseteq project.sources /\ project.analysed \subseteq analysed
    BY <1>1, <2>1 DEF Projects, Inside
  <2> HIDE DEF s, analysed
  <2>3. /\ project' \in Projects /\ project'.rev = project.rev /\ project'.sources = project.sources
        /\ project'.uses = project.uses /\ project'.analysed = analysed /\ project'.proposal = project.proposal
        /\ project'.head = project.head /\ project'.steps = project.steps
    BY <1>1, <2>1, <2>2 DEF Projects
  <2>4. Analysing
    BY <1>1, <2>2, <2>3 DEF Analysing, Inside
  <2> QED BY <1>1, <1>3, <2>3, <2>4, Held DEF WritingStep, Carries
<1> QED BY <1>4, <1>5

\* Saving at the revision on disk, with analyses or another proposal.
LEMMA SavingAnalyses ==
  ASSUME project \in Projects, Inside(project), NEW next \in Projects, next.rev = project.rev,
         next.analysed \subseteq project.sources, project' = Merged(next), photos' = photos
  PROVE  Analysing /\ project' \in Projects /\ project'.proposal = next.proposal
<1>1. ~(next.rev > project.rev)
  BY DEF Projects
<1>2. /\ project' \in Projects /\ project'.analysed = next.analysed \cup project.analysed
      /\ project'.rev = project.rev /\ project'.sources = project.sources /\ project'.uses = project.uses
      /\ project'.head = project.head /\ project'.steps = project.steps /\ project'.proposal = next.proposal
  BY <1>1, MergedFields
<1> QED BY <1>2 DEF Analysing, Inside

LEMMA TemplateAnalysesWrites ==
  ASSUME TypeOK, ProjectInv, CopiesInv, Staged, NEW c \in Call, TemplateAnalyses(c)
  PROVE  Turns(c) /\ WritingStep(c)
<1> USE AssemblyWorkAssumption
<1> DEFINE p == call[c].p
<1>1. /\ p \in Copies /\ p \in Projects /\ p.rev = call[c].base /\ Inside(p) /\ Agrees(p)
      /\ p.proposal \in Made \cup {None} /\ project \in Projects /\ Inside(project)
      /\ call[c].do = "template" /\ call[c].at = "asking" /\ call[c].base = project.rev
      /\ file' = file /\ photos' = photos
  <2>1. StageOK(call[c]) /\ At(c, "template", "asking")
    BY DEF TemplateAnalyses, Staged
  <2> QED BY <2>1, Held DEF TemplateAnalyses, At, StageOK, Working, CopiesInv, TypeOK, ProjectInv
<1>2. PICK s \in p.sources \ p.analysed :
        /\ project' = Merged([p EXCEPT !.analysed = @ \cup {s}])
        /\ call' = [call EXCEPT ![c].p = project']
  BY DEF TemplateAnalyses
<1> DEFINE analysed == p.analysed \cup {s}
           next == [p EXCEPT !.analysed = analysed]
<1>3. analysed \in SUBSET Source /\ analysed \subseteq project.sources
  BY <1>1, <1>2 DEF Inside, Agrees, Projects
<1>4. next \in Projects /\ next.rev = project.rev /\ next.analysed = analysed /\ next.proposal = p.proposal
  <2> HIDE DEF p, analysed
  <2> QED BY <1>1, <1>3 DEF Projects
<1>5. Analysing /\ project' \in Projects /\ project'.proposal = p.proposal
  <2> HIDE DEF next
  <2> QED BY <1>1, <1>2, <1>3, <1>4, SavingAnalyses DEF next
<1>6. Becomes(c, "asking", project', call[c].offer)
  <2>1. "asking" \in Stages /\ gen \in Nat
    BY DEF Stages, TypeOK
  <2> QED BY <1>1, <1>2, <1>5, <2>1, BecomesWithProject
<1>7. StageOK(call[c]) /\ project'.rev = project.rev
  BY <1>5 DEF Staged, Analysing
<1>8. Turns(c) /\ call'[c].p = project' /\ call'[c].offer = call[c].offer
  BY <1>1, <1>5, <1>6, <1>7 DEF Turns, Becomes, StageOK, Working, MayOffer, Offering
<1> QED BY <1>1, <1>5, <1>8, Held DEF WritingStep, Carries

LEMMA ProposeSavesWrites ==
  ASSUME TypeOK, ProjectInv, CopiesInv, Staged, NEW c \in Call, ProposeSaves(c)
  PROVE  Turns(c) /\ WritingStep(c)
<1> USE AssemblyWorkAssumption
<1> DEFINE p == call[c].p
           offer == call[c].offer
<1>1. /\ p \in Copies /\ p \in Projects /\ p.rev = call[c].base /\ Inside(p) /\ Agrees(p)
      /\ offer \in Made /\ offer \in Offers /\ project \in Projects /\ Inside(project)
      /\ project.proposal \in Made \cup {None} /\ Ends(c) /\ file' = file /\ photos' = photos
  <2>1. StageOK(call[c]) /\ At(c, "propose", "saving")
    BY DEF ProposeSaves, Staged
  <2> QED BY <2>1, Held DEF ProposeSaves, Refused, At, StageOK, Working, CopiesInv, TypeOK, ProjectInv
<1>2. CASE Refused(c)
  BY <1>1, <1>2, WritingEnds, SameIsAnalysing DEF WritingStep, Refused
<1>3. CASE ~Refused(c)
  <2> DEFINE next == [p EXCEPT !.proposal = offer]
  <2>1. call[c].base = project.rev /\ project' = Merged(next)
    BY <1>3 DEF ProposeSaves, Saves
  <2>2. next \in Projects /\ next.rev = p.rev /\ next.analysed = p.analysed /\ next.proposal = offer
    <3> HIDE DEF p, offer
    <3> QED BY <1>1 DEF Projects
  <2>3. next.rev = project.rev /\ next.analysed \subseteq project.sources
    BY <1>1, <2>1, <2>2 DEF Inside, Agrees
  <2>4. Analysing /\ project' \in Projects /\ project'.proposal = offer
    <3> HIDE DEF next
    <3> QED BY <1>1, <2>1, <2>2, <2>3, SavingAnalyses
  <2> QED BY <1>1, <2>4, WritingEnds DEF WritingStep
<1> QED BY <1>2, <1>3

\* Every step is of one of the three kinds.
LEMMA KindsOfSteps ==
  ASSUME TypeOK, ProjectInv, CopiesInv, MadeInv, Staged, NEW c \in Call, Step(c)
  PROVE  Turns(c) /\ (QuietStep(c) \/ OfferingStep(c) \/ WritingStep(c))
BY StartIsQuiet, QuietActions, OfferingActions, EditSavesWrites, AcceptSavesWrites, ApplySavesWrites,
   RestoresWrites, AddSavesWrites, RemoveWrites, AnalyzeSavesWrites, TemplateAnalysesWrites, ProposeSavesWrites
   DEF Step

-----------------------------------------------------------------------------
\* What each kind of write leaves true of the content: the project and its undo
\* stack, the copies that requests hold, and whether the content is another one.
Moved == project'.rev > project.rev \/ (project'.rev = project.rev /\ Content(project') = Content(project))
PhotosOK == DOMAIN photos \subseteq Nat /\ photos \in [DOMAIN photos -> SUBSET Source]
Keeps ==
  /\ ProjectInv' /\ PhotosOK' /\ Moved
  /\ \A p \in Copies : Agrees(p)' /\ PhotoIs(p)'

LEMMA Numbers ==
  ASSUME TypeOK
  PROVE  /\ project.rev \in Nat /\ project.head \in Nat /\ project.steps \in Seq(Nat) /\ Live(project) \in Seq(Nat)
         /\ project.sources \subseteq Source /\ project \in Projects /\ PhotosOK
         /\ \A p \in Copies : /\ p.rev \in Nat /\ p.uses \subseteq Source /\ p.head \in Nat
                              /\ p.steps \in Seq(Nat) /\ p \in Projects
BY DEF TypeOK, Projects, Live, Copies, Calls, PhotosOK

LEMMA StandingKeeps ==
  ASSUME TypeOK, ProjectInv, CopiesInv, project' = project, photos' = photos
  PROVE  Keeps
BY Numbers DEF Keeps, ProjectInv, CopiesInv, Moved, Photographed, Past, Agrees, PhotoIs, PhotosOK

LEMMA AnalysingKeeps ==
  ASSUME TypeOK, ProjectInv, CopiesInv, Analysing
  PROVE  Keeps
<1>1. Live(project') = Live(project) /\ photos' = photos
  BY DEF Analysing, Live
<1>2. ProjectInv' /\ Moved /\ PhotosOK'
  BY <1>1, Numbers DEF Analysing, ProjectInv, Photographed, Past, PhotosOK, Moved, Content
<1>3. \A p \in Copies : Agrees(p)' /\ PhotoIs(p)'
  BY <1>1 DEF Analysing, CopiesInv, Agrees, PhotoIs
<1> QED BY <1>2, <1>3 DEF Keeps

LEMMA BumpingKeeps ==
  ASSUME TypeOK, ProjectInv, CopiesInv, Bumping
  PROVE  Keeps
<1>1. project.rev \in Nat /\ project.head \in Nat /\ project'.rev = project.rev + 1 /\ project.head <= project.rev
  BY Numbers DEF Bumping, ProjectInv, Past
<1>2. Live(project') = <<>> /\ photos' = photos
  BY <1>1 DEF Bumping, Live
<1>3. Past(project')
  BY <1>1, Numbers DEF Bumping, ProjectInv, Past
<1>4. ProjectInv' /\ Moved /\ PhotosOK'
  BY <1>1, <1>2, <1>3, Numbers DEF Bumping, ProjectInv, Photographed, PhotosOK, Moved
<1>5. \A p \in Copies : Agrees(p)' /\ PhotoIs(p)'
  BY <1>1, <1>2, Numbers DEF CopiesInv, Agrees, PhotoIs
<1> QED BY <1>4, <1>5 DEF Keeps

LEMMA PhotographedPhotos ==
  ASSUME TypeOK, NEW p \in Copies, Photograph(p)
  PROVE  /\ PhotosOK' /\ DOMAIN photos \subseteq DOMAIN photos'
         /\ p.rev \in DOMAIN photos' /\ photos'[p.rev] = p.uses
         /\ \A r \in DOMAIN photos : r # p.rev => photos'[r] = photos[r]
BY Numbers DEF Photograph, PhotosOK

LEMMA PhotographsKeeps ==
  ASSUME TypeOK, ProjectInv, CopiesInv, Photographs
  PROVE  Keeps
<1>1. PICK q \in Copies : Photograph(q) /\ project' = project
  BY DEF Photographs
<1>2. Live(project') = Live(project)
  BY <1>1
<1>3. \A i \in DOMAIN Live(project) :
        Live(project)[i] \in DOMAIN photos' /\ photos'[Live(project)[i]] = photos[Live(project)[i]]
  BY <1>1, PhotographedPhotos DEF ProjectInv, Photographed, CopiesInv, PhotoIs
<1>4. ProjectInv' /\ Moved /\ PhotosOK'
  BY <1>1, <1>2, <1>3, PhotographedPhotos, Numbers DEF ProjectInv, Photographed, Moved
<1>5. \A p \in Copies : Agrees(p)' /\ PhotoIs(p)'
  BY <1>1, <1>2, <1>3 DEF CopiesInv, Agrees, PhotoIs
<1> QED BY <1>4, <1>5 DEF Keeps

LEMMA RecordsKeeps ==
  ASSUME TypeOK, ProjectInv, CopiesInv, Records
  PROVE  Keeps
<1>1. PICK q \in Copies : q.rev = project.rev /\ Photograph(q)
  BY DEF Records
<1> DEFINE live == Live(project)
           n == Len(live)
<1>2. /\ project.rev \in Nat /\ live \in Seq(Nat) /\ project'.rev = project.rev + 1
      /\ Live(project') = Append(live, project.rev) /\ project'.steps = Append(live, project.rev)
      /\ project'.head = project'.rev /\ project'.sources = project.sources /\ Inside(project')
  BY Numbers DEF Records, Live
<1>3. n \in Nat /\ DOMAIN live = 1 .. n /\ DOMAIN Live(project') = 1 .. n + 1
  BY <1>2
<1>4. \A i \in 1 .. n : Live(project')[i] = live[i] /\ live[i] \in Nat /\ live[i] < project.rev
  BY <1>2, <1>3 DEF ProjectInv, Past, Live
<1>5. Live(project')[n + 1] = project.rev
  BY <1>2
<1>6. \A i \in 1 .. n : live[i] \in DOMAIN photos' /\ photos'[live[i]] = photos[live[i]]
                        /\ photos[live[i]] \subseteq project.sources
  <2> SUFFICES ASSUME NEW i \in 1 .. n
               PROVE  live[i] \in DOMAIN photos' /\ photos'[live[i]] = photos[live[i]]
                      /\ photos[live[i]] \subseteq project.sources
    OBVIOUS
  <2>1. live[i] \in DOMAIN photos /\ photos[live[i]] \subseteq project.sources
    BY <1>3 DEF ProjectInv, Photographed
  <2>2. live[i] # q.rev
    BY <1>1, <1>2, <1>4
  <2> QED BY <1>1, <2>1, <2>2, PhotographedPhotos
<1>7. project.rev \in DOMAIN photos' /\ photos'[project.rev] = project.uses /\ project.uses \subseteq project.sources
  BY <1>1, PhotographedPhotos DEF ProjectInv, Inside, CopiesInv, Agrees
<1>8. Past(project')
  BY <1>2, <1>3, <1>4, <1>5 DEF Past
<1>9. Photographed'
  <2> SUFFICES ASSUME NEW i \in 1 .. n + 1
               PROVE  Live(project')[i] \in DOMAIN photos' /\ photos'[Live(project')[i]] \subseteq project.sources
    BY <1>2, <1>3 DEF Photographed
  <2>1. CASE i = n + 1
    BY <2>1, <1>5, <1>7
  <2>2. CASE i # n + 1
    BY <2>2, <1>3, <1>4, <1>6
  <2> QED BY <2>1, <2>2
<1>10. ASSUME NEW p \in Copies
       PROVE  Agrees(p)' /\ PhotoIs(p)'
  <2>1. p.rev \in Nat /\ p.rev <= project.rev /\ (p.rev = project.rev => p.uses = project.uses) /\ PhotoIs(p)
    BY Numbers DEF CopiesInv, Agrees
  <2>2. Agrees(p)'
    BY <1>2, <2>1 DEF Agrees
  <2>3. ASSUME NEW i \in 1 .. n + 1, Live(project')[i] = p.rev
        PROVE  photos'[p.rev] = p.uses
    <3>1. CASE i = n + 1
      BY <2>1, <2>3, <3>1, <1>5, <1>7
    <3>2. CASE i # n + 1
      BY <2>1, <2>3, <3>2, <1>3, <1>4, <1>6 DEF PhotoIs
    <3> QED BY <3>1, <3>2
  <2> QED BY <2>2, <2>3, <1>3 DEF PhotoIs
<1> QED BY <1>1, <1>2, <1>8, <1>9, <1>10, PhotographedPhotos DEF Keeps, ProjectInv, Moved

LEMMA RestoringKeeps ==
  ASSUME TypeOK, ProjectInv, CopiesInv, Restoring
  PROVE  Keeps
<1> DEFINE live == Live(project)
           n == Len(live)
           rest == SubSeq(live, 1, n - 1)
           uses == photos[live[n]]
<1>1. /\ project.rev \in Nat /\ live \in Seq(Nat) /\ live = project.steps /\ live # <<>> /\ photos' = photos
      /\ project \in Projects
  BY Numbers DEF Restoring, Live
<1>2. n \in Nat /\ n >= 1 /\ DOMAIN live = 1 .. n /\ rest \in Seq(Nat) /\ Len(rest) = n - 1
      /\ \A i \in 1 .. n - 1 : rest[i] = live[i]
  BY <1>1
<1>3. uses \subseteq project.sources /\ uses \in SUBSET Source
  BY <1>1, <1>2, Numbers DEF ProjectInv, Photographed
<1>4. /\ project'.rev = project.rev + 1 /\ project'.head = project.rev + 1
      /\ project'.sources = project.sources /\ project'.analysed = project.analysed
      /\ project'.uses = uses /\ project'.steps = rest
  <2> DEFINE b == Bumped(project)
             next == project.rev + 1
  <2>1. b \in Projects /\ b.rev = next /\ b.sources = project.sources /\ b.analysed = project.analysed
        /\ b.steps = project.steps
    BY <1>1, BumpedFields
  <2>2. project' = [b EXCEPT !.uses = uses, !.head = next, !.steps = rest]
    BY <1>1, <2>1 DEF Restoring
  <2> HIDE DEF uses, rest, b, next
  <2>3. /\ project'.rev = b.rev /\ project'.head = next
        /\ project'.sources = b.sources /\ project'.analysed = b.analysed
        /\ project'.uses = uses /\ project'.steps = rest
    BY <2>1, <2>2 DEF Projects
  <2> QED BY <2>1, <2>3 DEF next
<1>5. Live(project') = rest /\ DOMAIN rest = 1 .. n - 1
  BY <1>2, <1>4 DEF Live
<1>6. \A i \in 1 .. n - 1 : i \in 1 .. n /\ rest[i] = live[i] /\ rest[i] \in Nat /\ rest[i] < project.rev
  <2> SUFFICES ASSUME NEW i \in 1 .. n - 1
               PROVE  i \in 1 .. n /\ rest[i] = live[i] /\ rest[i] \in Nat /\ rest[i] < project.rev
    OBVIOUS
  <2> HIDE DEF rest, live
  <2>1. i \in 1 .. n /\ rest[i] = live[i]
    BY <1>2
  <2>2. DOMAIN live = DOMAIN project.steps /\ live[i] = project.steps[i]
    BY <1>1
  <2>3. i \in DOMAIN live /\ live[i] \in Nat
    <3>1. i \in DOMAIN live BY <1>2, <2>1
    <3>2. live \in [DOMAIN live -> Nat] BY <1>1
    <3> QED BY <3>1, <3>2
  <2>4. project.steps[i] < project.rev
    BY <2>2, <2>3 DEF ProjectInv, Past
  <2> QED BY <2>1, <2>2, <2>3, <2>4
<1>7. Past(project') /\ Inside(project')
  <2>1. Inside(project')
    BY <1>3, <1>4 DEF Inside, ProjectInv
  <2>2. project'.head <= project'.rev
    BY <1>1, <1>4
  <2>3. \A i \in DOMAIN project'.steps : project'.steps[i] < project'.rev
    <3> SUFFICES ASSUME NEW i \in 1 .. n - 1
                 PROVE  rest[i] < project'.rev
      BY <1>4, <1>5
    <3> HIDE DEF rest
    <3>1. rest[i] \in Nat /\ rest[i] < project.rev
      BY <1>6
    <3> QED BY <3>1, <1>1, <1>4
  <2> QED BY <2>1, <2>2, <2>3 DEF Past
<1>8. Photographed'
  <2> SUFFICES ASSUME NEW i \in 1 .. n - 1
               PROVE  rest[i] \in DOMAIN photos' /\ photos'[rest[i]] \subseteq project'.sources
    BY <1>5 DEF Photographed
  <2> HIDE DEF rest, uses
  <2> QED BY <1>1, <1>2, <1>4, <1>6 DEF Photographed, ProjectInv
<1>9. ASSUME NEW p \in Copies
      PROVE  Agrees(p)' /\ PhotoIs(p)'
  <2>1. p.rev \in Nat /\ p.rev <= project.rev /\ PhotoIs(p)
    BY Numbers DEF CopiesInv, Agrees
  <2>2. Agrees(p)'
    BY <2>1, <1>1, <1>4 DEF Agrees
  <2>3. ASSUME NEW i \in 1 .. n - 1, rest[i] = p.rev
        PROVE  photos'[p.rev] = p.uses
    BY <2>1, <2>3, <1>1, <1>2, <1>6 DEF PhotoIs
  <2> QED BY <2>2, <2>3, <1>5 DEF PhotoIs
<1>10. PhotosOK' /\ Moved
  BY <1>1, <1>4, Numbers DEF PhotosOK, Moved
<1> QED BY <1>7, <1>8, <1>9, <1>10 DEF Keeps, ProjectInv

LEMMA WritingKeeps ==
  ASSUME TypeOK, ProjectInv, CopiesInv, NEW c \in Call, WritingStep(c)
  PROVE  Keeps
BY PhotographsKeeps, RecordsKeeps, RestoringKeeps, BumpingKeeps, AnalysingKeeps DEF WritingStep

-----------------------------------------------------------------------------
\* What the requests hold after a step.
LEMMA CopiesGrow ==
  ASSUME NEW c \in Call, Turns(c), call'[c].p \in Copies \cup {project', None}
  PROVE  Copies' \subseteq Copies \cup {project'}
BY DEF Turns, Copies

LEMMA MadeGrows ==
  ASSUME NEW c \in Call, Turns(c), call'[c].p \in Copies \cup {project', None},
         file' \in [FileKinds -> Made \cup {None}], project'.proposal \in Made \cup {None}
  PROVE  Made' \subseteq Made \cup {call'[c].offer}
<1> SUFFICES ASSUME NEW o \in Made'
             PROVE  o \in Made \cup {call'[c].offer}
  OBVIOUS
<1>1. CASE o = project'.proposal
  BY <1>1 DEF Made
<1>2. ASSUME NEW k \in FileKinds, o = file'[k]
      PROVE  o \in Made
  BY <1>2 DEF Made
<1>3. ASSUME NEW d \in Call, o = call'[d].offer
      PROVE  o \in Made \cup {call'[c].offer}
  BY <1>3 DEF Made, Turns
<1>4. ASSUME NEW p \in Copies', o = p.proposal
      PROVE  o \in Made
  <2>1. p \in Copies \/ p = project'
    BY CopiesGrow
  <2> QED BY <1>4, <2>1 DEF Made
<1> QED BY <1>1, <1>2, <1>3, <1>4 DEF Made

LEMMA StepKeepsCopies ==
  ASSUME TypeOK, ProjectInv, CopiesInv, NEW c \in Call, Turns(c), Keeps,
         call'[c].p \in Copies \cup {project', None}, project' \in Projects
  PROVE  CopiesInv'
<1>1. Inside(project') /\ Past(project')
  BY DEF Keeps, ProjectInv
<1>2. ASSUME NEW p, p = project'
      PROVE  Agrees(p)'
  BY <1>2 DEF Agrees, Projects
<1>3. \A i \in DOMAIN Live(project') : Live(project')[i] # project'.rev
  <2>1. project'.rev \in Nat /\ project'.steps \in Seq(Nat)
    BY DEF Projects
  <2>2. \A i \in DOMAIN Live(project') : Live(project') = project'.steps /\ project'.steps[i] \in Nat
    BY <2>1 DEF Live
  <2> QED BY <1>1, <2>1, <2>2 DEF Past
<1>4. ASSUME NEW p, p = project'
      PROVE  PhotoIs(p)'
  BY <1>3, <1>4 DEF PhotoIs
<1>5. ASSUME NEW p \in Copies'
      PROVE  Inside(p) /\ Agrees(p)' /\ PhotoIs(p)'
  <2>1. CASE p \in Copies
    BY <2>1 DEF Keeps, CopiesInv
  <2>2. CASE p = project'
    BY <1>1, <1>2, <1>4, <2>2
  <2> QED BY <2>1, <2>2, CopiesGrow
<1> QED BY <1>5 DEF CopiesInv

LEMMA OffersStayRight ==
  ASSUME TypeOK, MadeInv, Moved, project' \in Projects
  PROVE  \A o \in Made : OfferOK(o)'
<1> SUFFICES ASSUME NEW o \in Made
             PROVE  OfferOK(o)'
  OBVIOUS
<1>1. OfferOK(o) /\ o \in Offers /\ o.base \in Nat /\ project.rev \in Nat /\ project'.rev \in Nat
  <2>1. o \in Offers
    BY DEF Made, Copies, TypeOK, Projects, Calls
  <2> QED BY <2>1 DEF MadeInv, TypeOK, Projects, Offers
<1> QED BY <1>1 DEF OfferOK, Moved

LEMMA StepKeepsMade ==
  ASSUME TypeOK, MadeInv, Fresh, NEW c \in Call, Turns(c), Moved, project' \in Projects,
         Made' \subseteq Made
  PROVE  MadeInv' /\ Fresh'
<1>1. MadeInv'
  BY OffersStayRight DEF MadeInv
<1>2. \A d \in Call : MayOffer(d)' => MayOffer(d)
  BY DEF Turns, MayOffer
<1>3. Fresh'
  BY <1>2 DEF Fresh
<1> QED BY <1>1, <1>3

LEMMA OfferingKeepsMade ==
  ASSUME TypeOK, CopiesInv, MadeInv, Fresh, ProjectInv, NEW c \in Call, Turns(c), OfferingStep(c)
  PROVE  MadeInv' /\ Fresh'
<1> USE AssemblyWorkAssumption
<1>0. PICK o : o = call'[c].offer
  OBVIOUS
<1>1. PICK p \in Copies \cup {project} : \E uses \in SUBSET p.sources : o = Offer(c, p, uses)
  BY <1>0 DEF OfferingStep
<1>2. PICK uses \in SUBSET p.sources : o = Offer(c, p, uses)
  BY <1>1
<1>3. o.id = c /\ o.base = p.rev /\ o.of = Content(p) /\ o.uses = uses /\ o.of.sources = p.sources
  BY <1>2 DEF Offer, Content
<1>4. Agrees(p)
  BY Numbers DEF CopiesInv, Agrees
<1>5. OfferOK(o)'
  BY <1>3, <1>4 DEF OfferOK, Agrees, Content, OfferingStep
<1>6. Made' \subseteq Made \cup {o}
  <2>1. /\ call'[c].p \in Copies \cup {project', None} /\ file' \in [FileKinds -> Made \cup {None}]
        /\ project'.proposal \in Made \cup {None}
    BY Held DEF OfferingStep
  <2> QED BY <1>0, <2>1, MadeGrows
<1>7. \A q \in Made : q.id # c
  BY DEF Fresh, OfferingStep
<1>8. \A q \in Made : OfferOK(q)'
  BY DEF OfferingStep, MadeInv, OfferOK
<1>9. MadeInv'
  BY <1>3, <1>5, <1>6, <1>7, <1>8 DEF MadeInv
<1>10. \A d \in Call : MayOffer(d)' => MayOffer(d) /\ d # c
  BY DEF Turns, MayOffer, OfferingStep
<1>11. Fresh'
  BY <1>3, <1>6, <1>10 DEF Fresh
<1> QED BY <1>9, <1>11

LEMMA GenStays ==
  ASSUME TypeOK, NEW c \in Call, Step(c)
  PROVE  gen' \in Nat
<1>1. gen' = gen \/ gen' = gen + 1
  BY DEF Step, Start, Stale, EditLoads, EditSaves, Undo, NothingToUndo, Restores, AddLoads, AddSaves, Remove,
         AnalyzeBegins, AnalyzeSaves, AnalyzeEnds, PreviewLoads, PreviewEnds, LocalLoads, SpeechLoads,
         SpeechAnswers, SpeechFails, SpeechChecks, SpeechLoadsAgain, TemplateBegins, TemplateAnalyses,
         TemplateAnswers, TemplateFails, TemplateChecks, Publish, ProposeLoads, ProposeAnswers, ProposeFails,
         ProposeSaves, AcceptReads, AcceptLoads, AcceptSaves, RejectReads, Unlink, ApplyLoads, ApplySaves,
         Begin, Same, OnlyShown, memory
<1> QED BY <1>1 DEF TypeOK

-----------------------------------------------------------------------------

LEMMA InitHasIInv == Init => IInv
<1> SUFFICES ASSUME Init PROVE IInv
  OBVIOUS
<1> USE AssemblyWorkAssumption
<1> DEFINE Oldest(s, analysed, uses) ==
             /\ project = [rev |-> 1, sources |-> {s}, analysed |-> analysed, uses |-> uses,
                           proposal |-> None, head |-> 1, steps |-> <<0>>]
             /\ photos = [r \in {0} |-> analysed]
             /\ \E k \in {"template", "local"}, kept \in {None, Offer(None, project, analysed)} :
                  file = [x \in FileKinds |-> IF x = k THEN kept ELSE None]
<1>a. PICK s \in Source : \E analysed \in SUBSET {s} : \E uses \in SUBSET analysed : Oldest(s, analysed, uses)
  BY DEF Init
<1>b. PICK analysed \in SUBSET {s} : \E uses \in SUBSET analysed : Oldest(s, analysed, uses)
  BY <1>a
<1>c. PICK uses \in SUBSET analysed : Oldest(s, analysed, uses)
  BY <1>b
<1>1. PICK k \in {"template", "local"}, kept \in {None, Offer(None, project, analysed)} :
        /\ project = [rev |-> 1, sources |-> {s}, analysed |-> analysed, uses |-> uses,
                      proposal |-> None, head |-> 1, steps |-> <<0>>]
        /\ photos = [r \in {0} |-> analysed]
        /\ file = [x \in FileKinds |-> IF x = k THEN kept ELSE None]
  BY <1>c
<1>2. call = [c \in Call |-> Quiet] /\ gen = 0
  BY DEF Init
<1>3. <<0>> \in Seq(Nat) /\ Len(<<0>>) = 1 /\ <<0>>[1] = 0
  OBVIOUS
<1>4. /\ project.rev = 1 /\ project.sources = {s} /\ project.analysed = analysed /\ project.uses = uses
      /\ project.proposal = None /\ project.head = 1 /\ project.steps = <<0>>
  BY <1>1
<1>5. project \in Projects
  BY <1>1, <1>3 DEF Projects
<1>6. kept # None => kept \in Offers /\ kept.id = None /\ kept.uses = analysed /\ kept.base = 1 /\ kept.of = Content(project)
  BY <1>4 DEF Offer, Offers, Content
<1>7. TypeOK
  <2>1. call \in [Call -> Calls]
    BY <1>2, DoneIsACall
  <2>2. DOMAIN photos \subseteq Nat /\ photos \in [DOMAIN photos -> SUBSET Source]
    BY <1>1
  <2>3. file \in [FileKinds -> Offers \cup {None}]
    BY <1>1, <1>6
  <2> QED BY <1>2, <1>5, <2>1, <2>2, <2>3 DEF TypeOK
<1>8. \A c \in Call : call[c].p = None /\ call[c].offer = None /\ StageOK(call[c])
  BY <1>2, DoneIsACall DEF Quiet
<1>9. Copies = {} /\ \A o \in Made : o = kept /\ o # None
  BY <1>1, <1>4, <1>8 DEF Copies, Made
<1>10. Live(project) = <<0>> /\ DOMAIN Live(project) = {1}
  BY <1>3, <1>4 DEF Live
<1>11. ProjectInv
  <2>1. Inside(project)
    BY <1>4 DEF Inside
  <2>2. Past(project)
    BY <1>3, <1>4, <1>10 DEF Past, Live
  <2>3. Photographed
    BY <1>1, <1>3, <1>4, <1>10 DEF Photographed
  <2> QED BY <2>1, <2>2, <2>3 DEF ProjectInv
<1>12. MadeInv
  BY <1>4, <1>6, <1>9 DEF MadeInv, OfferOK, Content
<1>13. Fresh
  BY <1>6, <1>9 DEF Fresh
<1> QED BY <1>7, <1>8, <1>9, <1>11, <1>12, <1>13 DEF IInv, CopiesInv, Staged

LEMMA StepKeepsIInv ==
  ASSUME IInv, NEW c \in Call, Step(c)
  PROVE  IInv'
<1> USE DEF IInv
<1>1. Turns(c) /\ (QuietStep(c) \/ OfferingStep(c) \/ WritingStep(c))
  BY KindsOfSteps
<1>2. gen' \in Nat /\ Made \subseteq Offers
  BY GenStays, Held
<1>3. Staged'
  BY <1>1 DEF Staged, Turns
<1>4. CASE QuietStep(c)
  <2>1. project' \in Projects /\ project'.proposal \in Made \cup {None} /\ Keeps
    BY <1>4, StandingKeeps, Held DEF QuietStep, TypeOK
  <2>2. call'[c].p \in Copies \cup {project', None} /\ file' \in [FileKinds -> Made \cup {None}]
        /\ call'[c].offer \in Made \cup {None}
    BY <1>4 DEF QuietStep
  <2>3. Made' \subseteq Made
    BY <1>1, <2>1, <2>2, MadeGrows DEF Made
  <2>4. TypeOK'
    BY <1>1, <1>2, <2>1, <2>2 DEF TypeOK, Turns, Keeps, PhotosOK
  <2> QED BY <1>1, <1>3, <2>1, <2>2, <2>3, <2>4, StepKeepsCopies, StepKeepsMade DEF Keeps
<1>5. CASE OfferingStep(c)
  <2>1. project' \in Projects /\ Keeps /\ call'[c].p \in Copies \cup {project', None}
    BY <1>5, StandingKeeps DEF OfferingStep, TypeOK
  <2>2. TypeOK'
    BY <1>1, <1>2, <1>5, <2>1 DEF TypeOK, Turns, Keeps, PhotosOK, OfferingStep
  <2> QED BY <1>1, <1>3, <1>5, <2>1, <2>2, StepKeepsCopies, OfferingKeepsMade DEF Keeps
<1>6. CASE WritingStep(c)
  <2>1. Keeps
    BY <1>6, WritingKeeps
  <2>2. /\ project' \in Projects /\ project'.proposal \in Made \cup {None} /\ file' = file
        /\ call'[c].p \in Copies \cup {project', None} /\ call'[c].offer \in Made \cup {None}
        /\ file' \in [FileKinds -> Made \cup {None}]
    BY <1>6, Held DEF WritingStep, Carries
  <2>3. Made' \subseteq Made
    BY <1>1, <2>2, MadeGrows DEF Made
  <2>4. TypeOK'
    BY <1>1, <1>2, <2>1, <2>2 DEF TypeOK, Turns, Keeps, PhotosOK
  <2> QED BY <1>1, <1>3, <2>1, <2>2, <2>3, <2>4, StepKeepsCopies, StepKeepsMade DEF Keeps
<1> QED BY <1>1, <1>4, <1>5, <1>6

LEMMA IInvStands == IInv /\ UNCHANGED vars => IInv'
<1> SUFFICES ASSUME IInv, UNCHANGED vars PROVE IInv'
  OBVIOUS
<1>1. /\ project' = project /\ photos' = photos /\ file' = file /\ call' = call /\ gen' = gen
  BY DEF vars, memory
<1>2. Copies' = Copies /\ Made' = Made
  BY <1>1 DEF Copies, Made
<1>3. TypeOK' /\ Staged' /\ Fresh'
  BY <1>1, <1>2 DEF IInv, TypeOK, Staged, Fresh, MayOffer
<1>4. ProjectInv' /\ CopiesInv'
  BY <1>1, <1>2 DEF IInv, ProjectInv, Photographed, CopiesInv, Agrees, PhotoIs
<1>5. MadeInv'
  BY <1>1, <1>2 DEF IInv, MadeInv, OfferOK
<1> QED BY <1>3, <1>4, <1>5 DEF IInv

THEOREM Invariance == Spec => []IInv
<1>1. IInv /\ [Next]_vars => IInv'
  BY StepKeepsIInv, IInvStands DEF Next
<1> QED BY <1>1, InitHasIInv, PTL DEF Spec

\* Every variable keeps its type, for any number of requests and sources.
THEOREM TypeCorrectness == Spec => []TypeOK
<1>1. IInv => TypeOK
  BY DEF IInv
<1> QED BY <1>1, Invariance, PTL

\* Nothing in a project, nor in a step that can be undone, refers to a source that
\* was removed, whatever requests of whatever pages interleave.
THEOREM NothingRemovedIsReferredTo == Spec => []NothingRefersToRemoved
<1>1. IInv => NothingRefersToRemoved
  BY DEF IInv, ProjectInv, Inside, Photographed, NothingRefersToRemoved
<1> QED BY <1>1, Invariance, PTL

-----------------------------------------------------------------------------
(* Acceptance                                                              *)

LEMMA WhoApplies ==
  ASSUME NEW c \in Call, Step(c), call[c].at = "applying", project' # project
  PROVE  AcceptSaves(c) \/ ApplySaves(c)
BY DEF Step, Start, Stale, EditLoads, EditSaves, Undo, NothingToUndo, Restores, AddLoads, AddSaves, Remove,
       AnalyzeBegins, AnalyzeSaves, AnalyzeEnds, PreviewLoads, PreviewEnds, LocalLoads, SpeechLoads,
       SpeechAnswers, SpeechFails, SpeechChecks, SpeechLoadsAgain, TemplateBegins, TemplateAnalyses,
       TemplateAnswers, TemplateFails, TemplateChecks, Publish, ProposeLoads, ProposeAnswers, ProposeFails,
       ProposeSaves, AcceptReads, AcceptLoads, RejectReads, Unlink, ApplyLoads, At, Loads

LEMMA AppliedRightly ==
  ASSUME IInv, NEW c \in Call, Step(c), call[c].at = "applying", project' # project
  PROVE  call[c].offer.of = Content(project)
<1> DEFINE offer == call[c].offer
<1>1. TypeOK /\ StageOK(call[c]) /\ MadeInv
  BY DEF IInv, Staged
<1>2. call[c].p # None /\ call[c].p.rev = call[c].base /\ offer # None /\ offer \in Made /\ OfferOK(offer)
  BY <1>1, Held DEF StageOK, Working, MadeInv
<1>3. CASE AcceptSaves(c)
  <2>1. call[c].base = project.rev /\ offer.base = project.rev
    BY <1>2, <1>3 DEF AcceptSaves, Saves, Refused
  <2> QED BY <1>2, <2>1 DEF OfferOK
<1>4. CASE ApplySaves(c)
  <2>1. project.proposal # None /\ project.proposal.id = offer.id /\ project.proposal.base = project.rev
    BY <1>4 DEF ApplySaves
  <2>2. project.proposal \in Made /\ OfferOK(project.proposal) /\ project.proposal = offer
    BY <1>1, <1>2, <2>1, Held DEF MadeInv
  <2> QED BY <2>1, <2>2 DEF OfferOK
<1> QED BY <1>3, <1>4, WhoApplies

\* A proposal is applied only to the content it was made for.
THEOREM ProposalsFit == Spec => AppliedToWhatItWasMadeFor
<1> DEFINE A == \A c \in Call : call[c].at = "applying" /\ call[c] # call'[c] /\ project' # project
                                  => call[c].offer.of = Content(project)
<1>1. ASSUME IInv, NEW d \in Call, Step(d)
      PROVE  A
  <2>1. Turns(d)
    BY <1>1, KindsOfSteps DEF IInv
  <2> QED BY <1>1, <2>1, AppliedRightly DEF Turns
<1>2. IInv /\ [Next]_vars => [A]_vars
  BY <1>1 DEF Next
<1> QED BY <1>2, Invariance, PTL DEF Spec, AppliedToWhatItWasMadeFor

-----------------------------------------------------------------------------
(* One take: the cells of words and of the pauses between them.            *)

LEMMA LeastIsThere ==
  ASSUME NEW S \in SUBSET Nat, S # {}
  PROVE  T!Least(S) \in S /\ \A y \in S : T!Least(S) <= y
<1> DEFINE R == OpToRel(<, Nat)
<1>1. \E x \in S : \A y \in S : <<y, x>> \notin R
  <2>1. IsWellFoundedOn(R, Nat) BY NatLessThanWellFounded
  <2> HIDE DEF R
  <2> QED BY <2>1, WFMin, Zenon
<1>2. ASSUME NEW y \in Nat, NEW x \in Nat, y < x PROVE <<y, x>> \in R
  <2>1. \A q \in Nat \X Nat : q[1] < q[2] => q \in R
    BY Zenon DEF OpToRel
  <2>2. <<y, x>> \in Nat \X Nat /\ <<y, x>>[1] = y /\ <<y, x>>[2] = x OBVIOUS
  <2> HIDE DEF R
  <2> QED BY <2>1, <2>2, <1>2
<1> HIDE DEF R
<1>3. \E x \in S : \A y \in S : x <= y
  <2>1. PICK x \in S : \A y \in S : <<y, x>> \notin R BY <1>1
  <2>2. \A y \in S : x <= y
    <3> SUFFICES ASSUME NEW y \in S, y < x PROVE FALSE OBVIOUS
    <3> QED BY <2>1, <1>2
  <2> QED BY <2>2
<1> QED BY <1>3 DEF T!Least

LEMMA MostIsThere ==
  ASSUME NEW n \in Nat, NEW S \in SUBSET (0 .. n), S # {}
  PROVE  T!Most(S) \in S /\ \A y \in S : y <= T!Most(S)
<1> DEFINE U == {n - y : y \in S}
<1>1. U \in SUBSET Nat /\ U # {}
  <2>1. \A y \in S : n - y \in Nat OBVIOUS
  <2> QED BY <2>1
<1>2. T!Least(U) \in U /\ \A y \in U : T!Least(U) <= y
  <2> HIDE DEF U
  <2> QED BY <1>1, LeastIsThere
<1>3. PICK x \in S : T!Least(U) = n - x BY <1>2
<1>4. \A y \in S : y <= x
  <2> SUFFICES ASSUME NEW y \in S PROVE y <= x OBVIOUS
  <2>1. n - y \in U OBVIOUS
  <2> HIDE DEF U
  <2>2. n - x <= n - y BY <2>1, <1>2, <1>3
  <2> QED BY <2>2
<1> QED BY <1>4 DEF T!Most

LEMMA TakeOfWords ==
  /\ Length \in Nat /\ Words \in Nat /\ T!Cell \subseteq Nat /\ T!Word \subseteq Nat
  /\ \A w \in T!Word : WordCells[w] \subseteq CutCells[w] /\ CutCells[w] \subseteq T!Cell /\ CutCells[w] # {}
  /\ \A f \in Fillers : f \subseteq T!Word /\ \A range \in FillerRanges[f] : range \subseteq T!Cell
<1> USE WorkPartsAssumption DEF T!TakesAssumption
<1>1. Length \in Nat /\ Words \in Nat OBVIOUS
<1>2. T!Cell \subseteq Nat /\ T!Word \subseteq Nat BY <1>1 DEF T!Cell, T!Word
<1>3. ASSUME NEW w \in T!Word
      PROVE  WordCells[w] \subseteq CutCells[w] /\ CutCells[w] \subseteq T!Cell /\ CutCells[w] # {}
  <2>1. PICK i, j, k, l \in T!Cell :
          i <= k /\ k <= l /\ l <= j /\ CutCells[w] = i .. j /\ WordCells[w] = k .. l
    OBVIOUS
  <2>2. i \in Nat /\ j \in Nat /\ k \in Nat /\ l \in Nat BY <1>2, <2>1
  <2>3. WordCells[w] \subseteq CutCells[w] BY ONLY <2>1, <2>2
  <2>4. k \in CutCells[w] BY ONLY <2>1, <2>2
  <2>5. CutCells[w] \subseteq T!Cell BY ONLY <1>1, <2>1 DEF T!Cell
  <2> QED BY <2>3, <2>4, <2>5
<1>4. \A f \in Fillers : f \subseteq T!Word /\ \A range \in FillerRanges[f] : range \subseteq T!Cell
  OBVIOUS
<1> QED BY <1>1, <1>2, <1>3, <1>4

\* Where cuts begin and end.
LEMMA EndsOfCuts ==
  ASSUME NEW w \in T!Word
  PROVE  /\ T!Least(CutCells[w]) \in CutCells[w] /\ \A y \in CutCells[w] : T!Least(CutCells[w]) <= y
         /\ T!Most(CutCells[w]) \in CutCells[w] /\ \A y \in CutCells[w] : y <= T!Most(CutCells[w])
<1>1. CutCells[w] \in SUBSET T!Cell /\ CutCells[w] # {} /\ Length \in Nat BY TakeOfWords
<1>2. CutCells[w] \in SUBSET Nat /\ CutCells[w] \in SUBSET (0 .. Length)
  BY <1>1 DEF T!Cell
<1> QED BY <1>1, <1>2, LeastIsThere, MostIsThere

\* Of a word that overlaps no other, the cuts before it have the earlier cells.
LEMMA AloneInOrder ==
  ASSUME NEW w \in T!Word, T!Alone(w), NEW v \in T!Word, w # v, NEW x \in WordCells[w], NEW y \in CutCells[v]
  PROVE  IF v < w THEN y < x ELSE x < y
BY DEF T!Alone

\* What rhythm takes lies between the cuts of words.
LEMMA RhythmIsBetween ==
  ASSUME NEW profile \in DOMAIN RhythmCells
  PROVE  /\ RhythmCells[profile] \subseteq T!Cell
         /\ \A w \in T!Word : T!Alone(w) => WordCells[w] \cap RhythmCells[profile] = {}
<1>1. RhythmCells[profile] \subseteq UNION {T!Pause(w) : w \in {v \in T!Word : v + 1 \in T!Word}}
  BY WorkPartsAssumption DEF T!TakesAssumption, T!Profiles
<1>2. RhythmCells[profile] \subseteq T!Cell
  BY <1>1 DEF T!Pause, T!From
<1>3. ASSUME NEW w \in T!Word, T!Alone(w), NEW x \in WordCells[w], x \in RhythmCells[profile] PROVE FALSE
  <2>1. PICK v \in T!Word : v + 1 \in T!Word /\ x \in T!Pause(v) BY <1>1, <1>3
  <2>2. T!Most(CutCells[v]) < x /\ x < T!Least(CutCells[v + 1]) BY <2>1 DEF T!Pause, T!From
  <2>3. /\ T!Most(CutCells[v]) \in CutCells[v] /\ \A y \in CutCells[v] : y <= T!Most(CutCells[v])
        /\ T!Least(CutCells[v + 1]) \in CutCells[v + 1] /\ \A y \in CutCells[v + 1] : T!Least(CutCells[v + 1]) <= y
    BY <2>1, EndsOfCuts
  <2>4. /\ w \in Nat /\ v \in Nat /\ x \in CutCells[w] /\ x \in Nat
        /\ T!Most(CutCells[v]) \in Nat /\ T!Least(CutCells[v + 1]) \in Nat
    BY <2>1, <2>3, TakeOfWords
  <2> DEFINE most == T!Most(CutCells[v])
             least == T!Least(CutCells[v + 1])
  <2>5. w # v => IF v < w THEN most < x ELSE x < most BY <1>3, <2>3, AloneInOrder
  <2>6. w # v + 1 => IF v + 1 < w THEN least < x ELSE x < least BY <1>3, <2>1, <2>3, AloneInOrder
  <2>7. w = v => x <= most BY <2>3, <2>4
  <2>8. w = v + 1 => least <= x BY <2>3, <2>4
  <2>9. most < x /\ x < least /\ most \in Nat /\ least \in Nat BY <2>2, <2>4
  <2> HIDE DEF most, least
  <2> QED BY <2>4, <2>5, <2>6, <2>7, <2>8, <2>9
<1> QED BY <1>2, <1>3

\* A word that is named is in a row of such words.
LEMMA InItsRow ==
  ASSUME NEW ws \in SUBSET T!Word, NEW w \in ws
  PROVE  \E f, l \in ws : <<f, l>> \in T!Rows(ws) /\ f <= w /\ w <= l
<1> DEFINE B == {u \in ws : u <= w /\ u .. w \subseteq ws}
           A == {u \in ws : w <= u /\ w .. u \subseteq ws}
<1>1. Words \in Nat /\ w \in Nat /\ ws \subseteq 1 .. Words BY TakeOfWords DEF T!Word
<1>2. w \in A /\ w \in B
  <2>1. w .. w = {w} BY <1>1
  <2> QED BY <1>1, <2>1
<1>3. A \in SUBSET (0 .. Words) /\ B \in SUBSET Nat
  <2>1. \A u \in ws : u \in 0 .. Words /\ u \in Nat BY <1>1
  <2> QED BY <2>1
<1> DEFINE f == T!Least(B)
           l == T!Most(A)
<1>4. f \in B /\ \A y \in B : f <= y
  <2> HIDE DEF B
  <2> QED BY <1>2, <1>3, LeastIsThere
<1>5. l \in A /\ \A y \in A : y <= l
  <2> HIDE DEF A
  <2> QED BY <1>1, <1>2, <1>3, MostIsThere
<1> HIDE DEF f, l
<1>6. f \in Nat /\ l \in Nat /\ f <= w /\ w <= l /\ f \in ws /\ l \in ws BY <1>1, <1>4, <1>5
<1>7. f .. l \subseteq ws
  <2> SUFFICES ASSUME NEW y \in f .. l PROVE y \in ws OBVIOUS
  <2>1. y \in f .. w \/ y \in w .. l BY <1>1, <1>6
  <2> QED BY <1>4, <1>5, <2>1
<1>8. f - 1 \notin ws
  <2> SUFFICES ASSUME f - 1 \in ws PROVE FALSE OBVIOUS
  <2>1. \A y \in (f - 1) .. w : y = f - 1 \/ y \in f .. w BY <1>1, <1>6
  <2>2. f - 1 \in B BY <1>1, <1>4, <1>6, <2>1
  <2> QED BY <1>4, <1>6, <2>2
<1>9. l + 1 \notin ws
  <2> SUFFICES ASSUME l + 1 \in ws PROVE FALSE OBVIOUS
  <2>1. \A y \in w .. (l + 1) : y = l + 1 \/ y \in w .. l BY <1>1, <1>6
  <2>2. l + 1 \in A BY <1>1, <1>5, <1>6, <2>1
  <2> QED BY <1>5, <1>6, <2>2
<1>10. <<f, l>> \in T!Rows(ws)
  <2>1. <<f, l>> \in ws \X ws /\ <<f, l>>[1] = f /\ <<f, l>>[2] = l BY <1>6
  <2>2. f <= l BY <1>1, <1>6
  <2> QED BY <1>7, <1>8, <1>9, <2>1, <2>2 DEF T!Rows
<1> QED BY <1>6, <1>10

\* What removing words takes: cells of the take, and of other words that overlap none nothing.
LEMMA IntervalsOfWords ==
  ASSUME NEW ws \in SUBSET T!Word
  PROVE  /\ T!Intervals(ws) \subseteq T!Cell /\ T!SpeechIntervals(ws) \subseteq T!Cell
         /\ \A w \in ws : T!Alone(w) => WordCells[w] \subseteq T!Intervals(ws)
         /\ \A w \in T!Word \ ws : T!Alone(w) => WordCells[w] \cap T!Intervals(ws) = {}
         /\ \A w \in T!Word \ ws : T!Alone(w) => WordCells[w] \cap T!SpeechIntervals(ws) = {}
<1> DEFINE Starts(r) == T!Least(CutCells[r[1]])
           Stops(r) == T!Most(CutCells[r[2]])
<1>1. ASSUME NEW r \in T!Rows(ws)
      PROVE  /\ r[1] \in ws /\ r[2] \in ws /\ r[1] .. r[2] \subseteq ws
             /\ Starts(r) \in CutCells[r[1]] /\ \A y \in CutCells[r[1]] : Starts(r) <= y
             /\ Stops(r) \in CutCells[r[2]] /\ \A y \in CutCells[r[2]] : y <= Stops(r)
             /\ Starts(r) \in T!Cell /\ Stops(r) \in T!Cell
  <2>1. r[1] \in ws /\ r[2] \in ws /\ r[1] .. r[2] \subseteq ws BY DEF T!Rows
  <2>2. Starts(r) \in CutCells[r[1]] /\ \A y \in CutCells[r[1]] : Starts(r) <= y BY <2>1, EndsOfCuts
  <2>3. Stops(r) \in CutCells[r[2]] /\ \A y \in CutCells[r[2]] : y <= Stops(r) BY <2>1, EndsOfCuts
  <2> HIDE DEF Starts, Stops
  <2> QED BY <2>1, <2>2, <2>3, TakeOfWords
<1>2. T!Intervals(ws) = UNION {Starts(r) .. Stops(r) : r \in T!Rows(ws)} BY DEF T!Intervals
<1> HIDE DEF Starts, Stops
<1>3. T!Intervals(ws) \subseteq T!Cell
  <2>1. ASSUME NEW r \in T!Rows(ws) PROVE Starts(r) .. Stops(r) \subseteq T!Cell
    <3>1. Starts(r) \in 1 .. Length /\ Stops(r) \in 1 .. Length /\ Length \in Nat BY <1>1, TakeOfWords DEF T!Cell
    <3> QED BY <3>1 DEF T!Cell
  <2> QED BY <1>2, <2>1
<1>4. T!SpeechIntervals(ws) \subseteq T!Cell
  <2>1. \A w \in ws : CutCells[w] \subseteq T!Cell BY TakeOfWords
  <2>2. \A w \in ws : T!PauseAfter(ws, w) \subseteq T!Cell BY DEF T!PauseAfter, T!From
  <2> QED BY <2>1, <2>2 DEF T!SpeechIntervals
<1>5. ASSUME NEW w \in ws, T!Alone(w), NEW x \in WordCells[w] PROVE x \in T!Intervals(ws)
  <2>1. PICK f, l \in ws : <<f, l>> \in T!Rows(ws) /\ f <= w /\ w <= l BY InItsRow
  <2> DEFINE r == <<f, l>>
  <2>2. r \in T!Rows(ws) /\ r[1] = f /\ r[2] = l BY <2>1
  <2> HIDE DEF r
  <2>3. /\ w \in Nat /\ f \in Nat /\ l \in Nat /\ x \in Nat /\ x \in CutCells[w]
        /\ Starts(r) \in Nat /\ Stops(r) \in Nat
    BY <1>1, <2>1, <2>2, TakeOfWords
  <2>4. Starts(r) <= x
    <3>1. f # w => Starts(r) < x
      <4>1. Starts(r) \in CutCells[f] BY <1>1, <2>2
      <4>2. f # w => f < w BY <2>1, <2>3
      <4> QED BY <1>5, <4>1, <4>2, AloneInOrder
    <3>2. f = w => Starts(r) <= x BY <1>1, <2>2, <2>3
    <3> QED BY <2>3, <3>1, <3>2
  <2>5. x <= Stops(r)
    <3>1. l # w => x < Stops(r)
      <4>1. Stops(r) \in CutCells[l] BY <1>1, <2>2
      <4>2. l # w => ~(l < w) BY <2>1, <2>3
      <4> QED BY <1>5, <4>1, <4>2, AloneInOrder
    <3>2. l = w => x <= Stops(r) BY <1>1, <2>2, <2>3
    <3> QED BY <2>3, <3>1, <3>2
  <2>6. x \in Starts(r) .. Stops(r) BY <2>3, <2>4, <2>5
  <2> QED BY <1>2, <2>2, <2>6
<1>6. ASSUME NEW w \in T!Word \ ws, T!Alone(w), NEW x \in WordCells[w], x \in T!Intervals(ws) PROVE FALSE
  <2>1. PICK r \in T!Rows(ws) : x \in Starts(r) .. Stops(r) BY <1>2, <1>6
  <2>2. r[1] \in T!Word /\ r[2] \in T!Word /\ r[1] # w /\ r[2] # w /\ w \notin r[1] .. r[2] BY <1>1
  <2>3. Starts(r) \in CutCells[r[1]] /\ Stops(r) \in CutCells[r[2]] BY <1>1
  <2>4. IF r[1] < w THEN Starts(r) < x ELSE x < Starts(r) BY <1>6, <2>2, <2>3, AloneInOrder
  <2>5. IF r[2] < w THEN Stops(r) < x ELSE x < Stops(r) BY <1>6, <2>2, <2>3, AloneInOrder
  <2>6. /\ w \in Nat /\ x \in Nat /\ Starts(r) \in Nat /\ Stops(r) \in Nat /\ r[1] \in Nat /\ r[2] \in Nat
    BY <1>1, <2>2, TakeOfWords
  <2>7. Starts(r) <= x /\ x <= Stops(r) BY <2>1, <2>6
  <2>8. r[1] < w /\ ~(r[2] < w) BY <2>4, <2>5, <2>6, <2>7
  <2>9. w \in r[1] .. r[2] BY <2>6, <2>8
  <2> QED BY <2>2, <2>9
<1>7. ASSUME NEW w \in T!Word \ ws, T!Alone(w), NEW x \in WordCells[w], x \in T!SpeechIntervals(ws) PROVE FALSE
  <2>1. ASSUME NEW v \in ws, x \in CutCells[v] PROVE FALSE
    <3>1. IF v < w THEN x < x ELSE x < x BY <1>7, <2>1, AloneInOrder
    <3>2. x \in Nat BY TakeOfWords
    <3> QED BY <3>1, <3>2
  <2>2. ASSUME NEW v \in ws, v + 1 \in ws, x \in T!PauseAfter(ws, v) PROVE FALSE
    <3> DEFINE U == UNION {CutCells[u] : u \in {u \in ws : u <= v /\ u .. v \subseteq ws}}
    <3>1. T!Reached(ws, v) < x /\ x < T!Least(CutCells[v + 1]) /\ T!Reached(ws, v) = T!Most(U)
      BY <2>2 DEF T!PauseAfter, T!From, T!Reached
    <3>2. v \in Nat /\ w \in Nat /\ x \in Nat /\ Length \in Nat BY TakeOfWords
    <3>3. CutCells[v] \subseteq U
      <4>1. v .. v = {v} /\ v <= v BY <3>2
      <4> QED BY <4>1
    <3>4. U \in SUBSET (0 .. Length) /\ U # {}
      <4>1. \A u \in ws : CutCells[u] \subseteq 0 .. Length BY <3>2, TakeOfWords DEF T!Cell
      <4>2. CutCells[v] # {} BY TakeOfWords
      <4> QED BY <3>3, <4>1, <4>2
    <3> HIDE DEF U
    <3>5. T!Most(U) \in U /\ \A y \in U : y <= T!Most(U) BY <3>2, <3>4, MostIsThere
    <3> DEFINE most == T!Most(CutCells[v])
               least == T!Least(CutCells[v + 1])
    <3>6. most \in CutCells[v] /\ least \in CutCells[v + 1] BY <2>2, EndsOfCuts
    <3>7. most <= T!Most(U) /\ T!Most(U) < x /\ x < least BY <3>1, <3>3, <3>5, <3>6
    <3>8. most \in Nat /\ least \in Nat /\ T!Most(U) \in Nat
      <4>1. CutCells[v] \subseteq Nat /\ CutCells[v + 1] \subseteq Nat BY <2>2, TakeOfWords
      <4>2. T!Most(U) \in 0 .. Length BY <3>4, <3>5
      <4> HIDE DEF most, least
      <4> QED BY <3>2, <3>6, <4>1, <4>2
    <3> HIDE DEF most, least
    <3>9. v # w /\ v + 1 # w BY <2>2
    <3>10. IF v < w THEN most < x ELSE x < most BY <1>7, <3>6, <3>9, AloneInOrder
    <3>11. IF v + 1 < w THEN least < x ELSE x < least BY <1>7, <2>2, <3>6, <3>9, AloneInOrder
    <3> QED BY <3>2, <3>7, <3>8, <3>9, <3>10, <3>11
  <2> QED BY <1>7, <2>1, <2>2 DEF T!SpeechIntervals
<1> QED BY <1>3, <1>4, <1>5, <1>6, <1>7

\* A cell lies in the gap around it.
LEMMA InItsGap ==
  ASSUME NEW cut \in SUBSET T!Cell, NEW x \in T!Cell
  PROVE  x \in T!Gap(cut, x)
<1> DEFINE B == {0} \cup {y \in cut : y < x}
           A == {Length + 1} \cup {y \in cut : y > x}
<1>1. Length \in Nat /\ x \in 1 .. Length /\ \A y \in cut : y \in 1 .. Length
  BY TakeOfWords DEF T!Cell
<1>2. B \in SUBSET (0 .. Length) /\ B # {} /\ \A y \in B : y < x
  <2>1. \A y \in B : y \in 0 .. Length /\ y < x BY <1>1
  <2>2. 0 \in B OBVIOUS
  <2> QED BY <2>1, <2>2
<1>3. A \in SUBSET Nat /\ A # {} /\ \A y \in A : x < y
  <2>1. \A y \in A : y \in Nat /\ x < y BY <1>1
  <2>2. Length + 1 \in A OBVIOUS
  <2> QED BY <2>1, <2>2
<1>4. T!Gap(cut, x) = T!From(T!Most(B), T!Least(A))
  BY DEF T!Gap
<1> HIDE DEF A, B
<1>5. T!Most(B) < x BY <1>1, <1>2, MostIsThere
<1>6. x < T!Least(A) BY <1>3, LeastIsThere
<1> QED BY <1>4, <1>5, <1>6 DEF T!From

\* What goes with a new cut is silent and not protected.
LEMMA BridgesAreSilent ==
  ASSUME removed \subseteq T!Cell, NEW added \in SUBSET T!Cell
  PROVE  /\ removed \cup added \subseteq T!MergeRemoved(added) /\ T!MergeRemoved(added) \subseteq T!Cell
         /\ (T!MergeRemoved(added) \ (removed \cup added)) \cap (T!Speech \cup protected) = {}
<1> DEFINE cut == removed \cup added
           bridges == T!Bridges(cut)
<1>1. cut \in SUBSET T!Cell OBVIOUS
<1>2. bridges \subseteq T!Cell /\ bridges \cap (T!Speech \cup protected) = {}
  <2> HIDE DEF cut
  <2>1. ASSUME NEW x \in bridges PROVE x \in T!Cell /\ x \notin T!Speech \cup protected
    <3>1. x \in T!Cell /\ T!Mergeable(T!Gap(cut, x)) BY DEF T!Bridges
    <3>2. x \in T!Gap(cut, x) BY <1>1, <3>1, InItsGap
    <3> QED BY <3>1, <3>2 DEF T!Mergeable
  <2> QED BY <2>1
<1>3. cut \subseteq T!MergeRemoved(added) /\ T!MergeRemoved(added) \subseteq cut \cup bridges
  <2> HIDE DEF bridges
  <2> QED BY DEF T!MergeRemoved, bridges
<1> HIDE DEF bridges
<1> QED BY <1>1, <1>2, <1>3

-----------------------------------------------------------------------------
(* The requests on the take.                                               *)

Cuts == [words : SUBSET T!Word, effective : SUBSET T!Cell]

\* What the record of a filler's cut has of its words is all of those that overlap no other.
HasItsWords(c) == \A w \in c.words : T!Alone(w) => WordCells[w] \subseteq c.effective
TakeInv ==
  /\ removed \subseteq T!Cell
  /\ fillers \subseteq Cuts
  /\ \A c \in fillers : HasItsWords(c)

\* What no request does, whatever it does to the records.
Asked(ws) == T!Intervals(ws) \cup T!SpeechIntervals(ws)
OnlyNamed ==
  /\ (removed' \ removed) \cap protected = {}
  /\ \A x \in (removed' \ removed) \cap T!Speech : x \in Asked(named') \cup rhythm'.removed
  /\ \A w \in T!Word \ named' : T!Alone(w) => (removed' \ removed) \cap WordCells[w] = {}

\* New cuts of the ranges that were asked for, and what goes with them.
LEMMA MergingKeeps ==
  ASSUME TakeInv, NEW ws \in SUBSET T!Word, NEW added \in SUBSET Asked(ws), added \cap protected = {},
         removed' = T!MergeRemoved(added), named' = ws
  PROVE  removed' \subseteq T!Cell /\ OnlyNamed
<1>1. added \subseteq T!Cell /\ \A w \in T!Word \ ws : T!Alone(w) => WordCells[w] \cap added = {}
  BY IntervalsOfWords DEF Asked
<1>2. /\ removed \cup added \subseteq T!MergeRemoved(added) /\ T!MergeRemoved(added) \subseteq T!Cell
      /\ (T!MergeRemoved(added) \ (removed \cup added)) \cap (T!Speech \cup protected) = {}
  BY <1>1, BridgesAreSilent DEF TakeInv
<1>3. (removed' \ removed) \cap (T!Speech \cup protected) \subseteq added
  BY <1>2
<1>4. \A w \in T!Word : WordCells[w] \subseteq T!Speech
  BY DEF T!Speech
<1>5. ASSUME NEW w \in T!Word \ ws, T!Alone(w) PROVE (removed' \ removed) \cap WordCells[w] = {}
  BY <1>1, <1>3, <1>4, <1>5
<1>6. \A x \in (removed' \ removed) \cap T!Speech : x \in Asked(named') \cup rhythm'.removed
  BY <1>3
<1> QED BY <1>2, <1>3, <1>5, <1>6 DEF OnlyNamed

LEMMA RemoveKeeps ==
  ASSUME TakeInv, NEW ws \in SUBSET T!Word, T!Remove(ws)
  PROVE  TakeInv' /\ T!RestoredIsHeard' /\ OnlyNamed
<1>1. /\ removed' = T!MergeRemoved(T!Intervals(ws)) /\ named' = ws /\ restored' = FALSE /\ fillers' \subseteq fillers
      /\ T!Intervals(ws) \cap protected = {}
  BY DEF T!Remove, T!Asks
<1>2. T!Intervals(ws) \in SUBSET Asked(ws) BY DEF Asked
<1>3. removed' \subseteq T!Cell /\ OnlyNamed BY <1>1, <1>2, MergingKeeps
<1> QED BY <1>1, <1>3 DEF TakeInv, T!RestoredIsHeard

LEMMA RestoreKeeps ==
  ASSUME TakeInv, NEW ws \in SUBSET T!Word, T!Restore(ws)
  PROVE  TakeInv' /\ T!RestoredIsHeard' /\ OnlyNamed
<1> DEFINE cuts == {c \in fillers : c.words \cap ws # {}}
           rest == ws \ UNION {c.words : c \in cuts}
           intervals == T!Intervals(rest)
<1>1. /\ removed' = T!Without(cuts) \ intervals /\ named' = ws /\ restored' = TRUE
      /\ fillers' = {c \in {[d EXCEPT !.effective = @ \ intervals] : d \in fillers \ cuts} : c.effective # {}}
  BY DEF T!Restore
<1>2. /\ \A w \in rest : T!Alone(w) => WordCells[w] \subseteq intervals
      /\ \A w \in T!Word \ rest : T!Alone(w) => WordCells[w] \cap intervals = {}
  BY IntervalsOfWords
<1>3. removed' \subseteq removed /\ removed' \cap intervals = {}
      /\ \A c \in cuts : removed' \cap c.effective = {}
  BY <1>1 DEF T!Without
<1>4. ASSUME NEW c \in fillers' PROVE c \in Cuts /\ HasItsWords(c)
  <2>1. PICK d \in fillers \ cuts : c = [d EXCEPT !.effective = @ \ intervals] BY <1>1
  <2>2. d \in Cuts /\ HasItsWords(d) BY DEF TakeInv
  <2>3. c \in Cuts /\ c.words = d.words /\ c.effective = d.effective \ intervals
    <3> HIDE DEF intervals
    <3> QED BY <2>1, <2>2 DEF Cuts
  <2>4. d.words \subseteq T!Word /\ d.words \cap rest = {} BY <2>2 DEF Cuts
  <2>5. \A w \in d.words : T!Alone(w) => WordCells[w] \cap intervals = {} BY <1>2, <2>4
  <2> HIDE DEF intervals, rest, cuts
  <2> QED BY <2>2, <2>3, <2>5 DEF HasItsWords
<1>5. ASSUME NEW w \in ws, T!Alone(w) PROVE WordCells[w] \cap removed' = {}
  <2>1. CASE w \in rest BY <1>2, <1>3, <1>5, <2>1
  <2>2. CASE w \notin rest
    <3>1. PICK c \in cuts : w \in c.words BY <2>2
    <3>2. WordCells[w] \subseteq c.effective BY <1>5, <3>1 DEF TakeInv, HasItsWords
    <3> QED BY <1>3, <3>1, <3>2
  <2> QED BY <2>1, <2>2
<1> HIDE DEF cuts, rest, intervals
<1>6. TakeInv' BY <1>3, <1>4 DEF TakeInv, HasItsWords
<1>7. OnlyNamed BY <1>3 DEF OnlyNamed
<1>8. T!RestoredIsHeard' BY <1>1, <1>5 DEF T!RestoredIsHeard
<1> QED BY <1>6, <1>7, <1>8

LEMMA AcceptSpeechKeeps ==
  ASSUME TakeInv, NEW ws \in SUBSET T!Word, T!AcceptSpeech(ws)
  PROVE  TakeInv' /\ T!RestoredIsHeard' /\ OnlyNamed
<1> DEFINE added == (T!SpeechIntervals(ws) \ protected) \ removed
<1>1. removed' = T!MergeRemoved(added) /\ named' = ws /\ restored' = FALSE /\ fillers' = fillers
  BY DEF T!AcceptSpeech, T!Asks
<1>2. added \in SUBSET Asked(ws) /\ added \cap protected = {} BY DEF Asked
<1> HIDE DEF added
<1>3. removed' \subseteq T!Cell /\ OnlyNamed BY <1>1, <1>2, MergingKeeps
<1> QED BY <1>1, <1>3 DEF TakeInv, T!RestoredIsHeard

LEMMA CutFillerKeeps ==
  ASSUME TakeInv, NEW f \in Fillers, NEW range \in FillerRanges[f], NEW origin, T!CutFiller(f, range, origin)
  PROVE  TakeInv' /\ T!RestoredIsHeard' /\ OnlyNamed
<1> DEFINE after == T!MergeRemoved(range)
           c == [words |-> f, effective |-> after \ removed]
<1>1. /\ range \cap protected = {} /\ T!CellsOf(f) \subseteq range /\ T!CellsOf(f) \cap removed = {}
      /\ \A w \in T!Word \ f : WordCells[w] \subseteq removed \/ (after \ removed) \cap WordCells[w] = {}
      /\ removed' = after /\ fillers' = fillers \cup {c} /\ named' = f /\ restored' = FALSE
  BY DEF T!CutFiller, T!Asks
<1>2. range \subseteq T!Cell /\ f \subseteq T!Word BY TakeOfWords
<1>3. /\ removed \cup range \subseteq after /\ after \subseteq T!Cell
      /\ (after \ (removed \cup range)) \cap (T!Speech \cup protected) = {}
  BY <1>2, BridgesAreSilent DEF TakeInv
<1> HIDE DEF after
<1>4. c \in Cuts /\ HasItsWords(c)
  <2>1. c \in Cuts /\ c.words = f /\ c.effective = after \ removed BY <1>2, <1>3 DEF Cuts
  <2>2. \A w \in f : WordCells[w] \subseteq after \ removed BY <1>1, <1>3 DEF T!CellsOf
  <2> QED BY <2>1, <2>2 DEF HasItsWords
<1> HIDE DEF c
<1>5. TakeInv'
  BY <1>1, <1>3, <1>4 DEF TakeInv, HasItsWords
<1>6. (removed' \ removed) \cap protected = {}
  BY <1>1, <1>3
<1>7. ASSUME NEW w \in T!Word \ f PROVE (removed' \ removed) \cap WordCells[w] = {}
  BY <1>1
<1>8. ASSUME NEW x \in (removed' \ removed) \cap T!Speech PROVE x \in Asked(f)
  <2>1. PICK w \in T!Word : x \in WordCells[w] BY DEF T!Speech
  <2>2. w \in f /\ x \in CutCells[w] BY <1>7, <1>8, <2>1, TakeOfWords
  <2> QED BY <2>2 DEF Asked, T!SpeechIntervals
<1>9. OnlyNamed
  BY <1>1, <1>6, <1>7, <1>8 DEF OnlyNamed
<1> QED BY <1>1, <1>5, <1>9 DEF T!RestoredIsHeard

LEMMA RestoreFillerKeeps ==
  ASSUME TakeInv, NEW c \in fillers, T!RestoreFiller(c)
  PROVE  TakeInv' /\ T!RestoredIsHeard' /\ OnlyNamed
<1>1. removed' = removed \ c.effective /\ fillers' = fillers \ {c} /\ named' = c.words
  BY DEF T!RestoreFiller, T!Without
<1>2. TakeInv' BY <1>1 DEF TakeInv
<1>3. OnlyNamed BY <1>1 DEF OnlyNamed
<1>4. \A w \in c.words : T!Alone(w) => WordCells[w] \cap removed' = {} BY <1>1 DEF TakeInv, HasItsWords
<1> QED BY <1>1, <1>2, <1>3, <1>4 DEF T!RestoredIsHeard

LEMMA AcceptRhythmKeeps ==
  ASSUME TakeInv, NEW profile \in DOMAIN RhythmCells, T!AcceptRhythm(profile)
  PROVE  TakeInv' /\ T!RestoredIsHeard' /\ OnlyNamed
<1> DEFINE base == removed \ rhythm.removed
           allowed == (RhythmCells[profile] \ protected) \ base
<1>1. /\ removed' = base \cup allowed /\ restored' = FALSE /\ fillers' = fillers /\ named' = {}
      /\ rhythm' = [profile |-> profile, removed |-> allowed]
  BY DEF T!AcceptRhythm, T!Asks
<1>2. /\ RhythmCells[profile] \subseteq T!Cell
      /\ \A w \in T!Word : T!Alone(w) => WordCells[w] \cap RhythmCells[profile] = {}
  BY RhythmIsBetween
<1>3. TakeInv' BY <1>1, <1>2 DEF TakeInv
<1>4. removed' \ removed \subseteq allowed /\ allowed \cap protected = {} /\ rhythm'.removed = allowed
      /\ allowed \subseteq RhythmCells[profile]
  BY <1>1
<1> HIDE DEF allowed
<1>5. OnlyNamed BY <1>2, <1>4 DEF OnlyNamed
<1> QED BY <1>1, <1>3, <1>5 DEF T!RestoredIsHeard

LEMMA TakeStep ==
  ASSUME TakeInv, T!Next
  PROVE  TakeInv' /\ T!RestoredIsHeard' /\ OnlyNamed
<1>1. ASSUME NEW ws \in SUBSET T!Word, T!Protect(ws) \/ T!Unprotect(ws)
      PROVE  TakeInv' /\ T!RestoredIsHeard' /\ OnlyNamed
  <2>1. UNCHANGED <<removed, fillers>> /\ restored' = FALSE
    BY <1>1 DEF T!Protect, T!Unprotect, T!Asks
  <2> QED BY <2>1 DEF TakeInv, T!RestoredIsHeard, OnlyNamed
<1>2. CASE \E ws \in (SUBSET T!Word) \ {{}} :
             T!Remove(ws) \/ T!Restore(ws) \/ T!Protect(ws) \/ T!Unprotect(ws) \/ T!AcceptSpeech(ws)
  <2>1. PICK ws \in SUBSET T!Word :
          T!Remove(ws) \/ T!Restore(ws) \/ T!Protect(ws) \/ T!Unprotect(ws) \/ T!AcceptSpeech(ws)
    BY <1>2
  <2> QED BY <1>1, <2>1, RemoveKeeps, RestoreKeeps, AcceptSpeechKeeps
<1>3. CASE \E f \in Fillers : \E range \in FillerRanges[f], origin \in {"auto", "user"} : T!CutFiller(f, range, origin)
  BY <1>3, CutFillerKeeps
<1>4. CASE \E c \in fillers : T!RestoreFiller(c)
  BY <1>4, RestoreFillerKeeps
<1>5. CASE \E profile \in DOMAIN RhythmCells : T!AcceptRhythm(profile)
  BY <1>5, AcceptRhythmKeeps
<1> QED BY <1>2, <1>3, <1>4, <1>5 DEF T!Next, T!Profiles

LEMMA TakeBegins == T!Init => TakeInv /\ T!RestoredIsHeard
  BY DEF T!Init, TakeInv, T!RestoredIsHeard

\* Words that are restored are heard unless they overlap others, whichever layer or hand had
\* removed them and however the cuts had grown together (applyRemoveRestore, withoutFillerCuts).
THEOREM RestoredWordsAreHeard == WorkSpec => []RestoredIsHeard
<1>1. WorkInit => TakeInv /\ T!RestoredIsHeard
  BY TakeBegins DEF WorkInit
<1>2. TakeInv /\ T!RestoredIsHeard /\ UNCHANGED tVars => TakeInv' /\ T!RestoredIsHeard'
  BY DEF tVars, TakeInv, T!RestoredIsHeard
<1>3. TakeInv /\ T!RestoredIsHeard /\ [WorkNext]_<<part, vars, tVars, dVars>> => TakeInv' /\ T!RestoredIsHeard'
  BY <1>2, TakeStep DEF WorkNext
<1> QED BY <1>1, <1>3, PTL DEF WorkSpec, RestoredIsHeard

\* No request takes what is protected, speech outside the ranges that it asks for, or any of a word
\* that it does not name and that overlaps no other (mergeRemoved, applySpeechCuts,
\* cutFillerOccurrence, applyRhythmCuts).
THEOREM NothingElseGoes == WorkSpec => OnlyTheNamedGoes
<1>1. WorkInit => TakeInv
  BY TakeBegins DEF WorkInit
<1>2. TakeInv /\ UNCHANGED tVars => TakeInv'
  BY DEF tVars, TakeInv
<1>3. TakeInv /\ [WorkNext]_<<part, vars, tVars, dVars>> => TakeInv'
  BY <1>2, TakeStep DEF WorkNext
<1>4. TakeInv /\ [WorkNext]_<<part, vars, tVars, dVars>>
        => [OnlyNamed]_(T!vars)
  BY TakeStep DEF WorkNext, tVars, T!vars, T!take
<1> QED BY <1>1, <1>3, <1>4, PTL DEF WorkSpec, OnlyTheNamedGoes, T!OnlyTheNamedGoes, OnlyNamed, Asked

-----------------------------------------------------------------------------
(* The delivery.                                                           *)

Videos == {First, Second}
Asking == {"open", "copy", "drp"}
Confirming == {"confirms", "publishes", "publishes manifest"}
Exporting == {"locks", "locks again", "looks", "clears", "signs", "compares", "packs", "copies", "validates",
              "removes", "renames", "unlocks"}
Between == {"checks", "records"} \cup Exporting
Serving == {"listens", "reads", "records", "waits", "confirmed", "catches", "leaves"}
Steps == {"loads", "done"} \cup Between \cup Confirming \cup Serving

Ready == D!Ready
Busy == D!Busy
Contents == Ready \cup Busy
Requests == [kind : {"export", "confirm"} \cup Asking, at : Steps, artifact : Videos \cup {None}, sha : Videos \cup {None},
             tmp : Videos \cup {None}, failed : BOOLEAN, previous : Contents \cup {None},
             record : Contents \cup {None}, saves : Seq(Contents), closed : BOOLEAN]
Folders == [reference : Videos \cup {None}, manifest : Videos \cup {None},
            confirmed : Videos \cup {None, "pending"}, package : BOOLEAN]

DeliveryType ==
  /\ approved \in [artifact : Videos, over : BOOLEAN] /\ reference \in Videos /\ recorded \in SUBSET Videos
  /\ dest \in Folders /\ record \in Contents \cup {None} /\ pid \in Nat
  /\ request \in [Deliveries -> Requests] /\ bridge = [r \in Deliveries |-> bridge[r]]

\* What a request carries towards exports/ was recorded: what it checked is what it copies.
CarriesVideos(q, videos) ==
  /\ q.artifact \in videos \cup {None}
  /\ q.at \in Exporting => q.sha \in videos
  /\ q.at \in {"removes", "renames"} => q.tmp = q.sha
  /\ q.at \in Confirming => q.kind = "confirm"

VideosInv ==
  /\ approved.artifact \in recorded
  /\ dest.reference \in recorded \cup {None}
  /\ (\A r \in Deliveries : request[r].kind # "confirm") => D!Together(dest)
  /\ \A r \in Deliveries : CarriesVideos(request[r], recorded)

\* The copy in Resolve that a record names, whoever reads it.
CopyOf(rec) ==
  IF rec = None THEN None
  ELSE IF rec.status = "ready" THEN rec.name ELSE IF rec.status = "running" /\ rec.ready # None THEN rec.ready.name ELSE None

SameOf(q) == IF q.previous # None /\ q.previous.status = "ready" /\ q.kind # "copy" THEN q.previous ELSE None
NameOf(r, q) == IF SameOf(q) = None THEN r ELSE SameOf(q).name

\* A record of a delivery under way.
Mine(r, q, rec) ==
  rec # None /\ rec.op = r /\ rec.status = "running" /\ rec.ready = SameOf(q) /\ rec.name = NameOf(r, q)

\* What holds of a request, given who has the port, the record on disk and its bridge: a
\* delivery past its beginning has the port, the record on disk and those still to be written
\* are its own once it has recorded, and before that what it read is what is there.
Fits(r, q, p, rec, b) ==
  /\ q.at \in Serving => q.kind \in Asking
  /\ q.kind \in Asking /\ q.at \notin {"loads", "listens", "done"} => p = r
  /\ q.record # None => q.at \in {"waits", "confirmed", "catches", "leaves", "done"}
  /\ q.saves # <<>> => q.at \in {"waits", "confirmed", "catches"} /\ q.record # None
  /\ b # "none" => q.at = "waits" \/ q.closed
  /\ q.closed => q.at \in {"catches", "leaves", "done"}
  /\ q.at \in {"waits", "confirmed"} => q.record # None
  /\ q.at \in {"waits", "confirmed", "catches"} /\ q.record # None =>
       Mine(r, q, q.record) /\ Mine(r, q, rec) /\ \A i \in DOMAIN q.saves : Mine(r, q, q.saves[i])
  /\ q.kind \in Asking /\ q.at \in Between /\ CopyOf(rec) # None =>
       q.previous # None /\ q.previous.status = "ready" /\ q.previous.name = CopyOf(rec)

RecordsInv == \A r \in Deliveries : Fits(r, request[r], port, record, bridge[r])

DeliveryInv == DeliveryType /\ VideosInv /\ RecordsInv

NoneIsNone == None \notin Deliveries \cup Videos \cup {"pending"} \cup Contents

LEMMA NoneOfThem == NoneIsNone
  BY WorkPartsAssumption DEF D!DeliveryAssumption, NoneIsNone, Videos, Contents, Ready, Busy

LEMMA NoneIsNoRecord == \A rec \in Contents : rec # None
  BY NoneOfThem DEF NoneIsNone

-----------------------------------------------------------------------------
(* Requests and their steps.                                               *)

\* What a request keeps of its delivery.
SameDelivery(q, o) ==
  /\ q.kind = o.kind /\ q.previous = o.previous /\ q.record = o.record
  /\ q.saves = o.saves /\ q.closed = o.closed
SameVideos(q, o) == q.artifact = o.artifact /\ q.sha = o.sha /\ q.tmp = o.tmp

LEMMA Walked ==
  ASSUME NEW o \in Requests, NEW step \in Steps
  PROVE  /\ [o EXCEPT !.at = step] \in Requests /\ [o EXCEPT !.at = step].at = step
         /\ SameDelivery([o EXCEPT !.at = step], o) /\ SameVideos([o EXCEPT !.at = step], o)
  BY DEF Requests, SameDelivery, SameVideos

LEMMA Marked ==
  ASSUME NEW o \in Requests, NEW step \in Steps, NEW failed \in BOOLEAN
  PROVE  [o EXCEPT !.at = step, !.failed = failed] \in Requests
<1> DEFINE n == [o EXCEPT !.at = step]
<1>1. n \in Requests BY Walked
<1>2. [o EXCEPT !.at = step, !.failed = failed] = [n EXCEPT !.failed = failed] OBVIOUS
<1> HIDE DEF n
<1>3. [n EXCEPT !.failed = TRUE] \in Requests BY <1>1 DEF Requests
<1>4. [n EXCEPT !.failed = FALSE] \in Requests BY <1>1 DEF Requests
<1>5. CASE failed = TRUE BY <1>2, <1>3, <1>5
<1>6. CASE failed = FALSE BY <1>2, <1>4, <1>6
<1> QED BY <1>5, <1>6

LEMMA Closed ==
  ASSUME NEW o \in Requests, NEW step \in Steps
  PROVE  LET q == [o EXCEPT !.at = step, !.closed = TRUE] IN
         /\ q \in Requests /\ q.at = step /\ q.closed /\ SameVideos(q, o)
         /\ q.kind = o.kind /\ q.previous = o.previous /\ q.record = o.record /\ q.saves = o.saves
<1> DEFINE n == [o EXCEPT !.at = step]
           q == [o EXCEPT !.at = step, !.closed = TRUE]
<1>1. n \in Requests BY Walked
<1>2. q = [n EXCEPT !.closed = TRUE] OBVIOUS
<1> HIDE DEF n
<1>3. q \in Requests BY <1>1, <1>2 DEF Requests
<1> QED BY <1>3 DEF Requests, SameVideos

LEMMA RequestIs ==
  ASSUME DeliveryType, NEW r \in Deliveries, NEW q \in Requests, D!Is(r, q)
  PROVE  /\ request' \in [Deliveries -> Requests] /\ request'[r] = q
         /\ \A s \in Deliveries : s # r => request'[s] = request[s]
  BY DEF DeliveryType, D!Is

\* What a step of a request does to the videos and to what stands in exports/.
LEMMA VideosStay ==
  ASSUME DeliveryInv, NEW r \in Deliveries, NEW q \in Requests, D!Is(r, q), q.kind = request[r].kind,
         CarriesVideos(q, recorded), UNCHANGED <<approved, reference, recorded>>,
         \/ UNCHANGED dest
         \/ /\ dest'.reference \in recorded \cup {None}
            /\ q.kind = "confirm" \/ D!Together(dest')
  PROVE  VideosInv'
<1>1. /\ request'[r] = q /\ \A s \in Deliveries : s # r => request'[s] = request[s]
  BY RequestIs DEF DeliveryInv
<1>2. \A s \in Deliveries : request'[s].kind = request[s].kind /\ CarriesVideos(request'[s], recorded)
  BY <1>1 DEF DeliveryInv, VideosInv
<1>3. approved'.artifact \in recorded' /\ dest'.reference \in recorded' \cup {None}
  BY DEF DeliveryInv, VideosInv
<1>4. ASSUME \A s \in Deliveries : request'[s].kind # "confirm" PROVE D!Together(dest')
  BY <1>1, <1>2, <1>4 DEF DeliveryInv, VideosInv, D!Together
<1> QED BY <1>2, <1>3, <1>4 DEF VideosInv, D!Together

\* The requests that do not step are not concerned: nothing that they go by changes, or
\* the port tells that they do not deliver.
LEMMA OthersFit ==
  ASSUME RecordsInv, NEW r \in Deliveries, NEW s \in Deliveries, s # r,
         \/ port \in {r, None}
         \/ UNCHANGED <<port, record>>,
         bridge'[s] = bridge[s]
  PROVE  Fits(s, request[s], port', record', bridge'[s])
<1>1. Fits(s, request[s], port, record, bridge[s]) BY DEF RecordsInv
<1>2. CASE UNCHANGED <<port, record>> BY <1>1, <1>2
<1>3. CASE port \in {r, None}
  <2>1. port # s BY <1>3, NoneOfThem DEF NoneIsNone
  <2>2. request[s].kind \in Asking => request[s].at \in {"loads", "listens", "done"} BY <1>1, <2>1 DEF Fits
  <2>3. request[s].at \notin {"waits", "confirmed", "catches"} BY <1>1, <2>2 DEF Fits, Serving
  <2>4. request[s].kind \in Asking => request[s].at \notin Between BY <2>2 DEF Between, Exporting
  <2> QED BY <1>1, <2>2, <2>3, <2>4 DEF Fits
<1> QED BY <1>2, <1>3

LEMMA RecordsStay ==
  ASSUME DeliveryInv, NEW r \in Deliveries, NEW q \in Requests, D!Is(r, q),
         \/ port \in {r, None}
         \/ UNCHANGED <<port, record>>,
         NEW b, bridge' = [bridge EXCEPT ![r] = b], Fits(r, q, port', record', b)
  PROVE  RecordsInv' /\ bridge' = [s \in Deliveries |-> bridge'[s]]
<1>1. /\ request'[r] = q /\ \A s \in Deliveries : s # r => request'[s] = request[s]
  BY RequestIs DEF DeliveryInv
<1>2. bridge'[r] = b /\ \A s \in Deliveries : s # r => bridge'[s] = bridge[s]
  BY DEF DeliveryInv, DeliveryType
<1>3. \A s \in Deliveries : s # r => Fits(s, request'[s], port', record', bridge'[s])
  BY <1>1, <1>2, OthersFit DEF DeliveryInv
<1>4. bridge' = [s \in Deliveries |-> bridge'[s]]
  BY DEF DeliveryInv, DeliveryType
<1> QED BY <1>1, <1>2, <1>3, <1>4 DEF RecordsInv

\* A bridge that is left alone.
LEMMA RecordsStayQuietly ==
  ASSUME DeliveryInv, NEW r \in Deliveries, NEW q \in Requests, D!Is(r, q),
         \/ port \in {r, None}
         \/ UNCHANGED <<port, record>>,
         UNCHANGED bridge, Fits(r, q, port', record', bridge[r])
  PROVE  RecordsInv' /\ bridge' = [s \in Deliveries |-> bridge'[s]]
<1>1. bridge' = [bridge EXCEPT ![r] = bridge[r]]
  BY DEF DeliveryInv, DeliveryType
<1> QED BY <1>1, RecordsStay

\* An export goes on, or ends: for the delivery it stays the same.
LEMMA WalkFits ==
  ASSUME NEW r \in Deliveries, NEW o, NEW q, NEW p, NEW rec, NEW b, Fits(r, o, p, rec, b), SameDelivery(q, o),
         o.at \in Between \ {"records"},
         IF o.kind \in Asking THEN q.at \in Between \cup {"catches"} ELSE q.at \in (Between \ {"records"}) \cup {"done"}
  PROVE  Fits(r, q, p, rec, b)
<1>1. o.record = None /\ o.saves = <<>> /\ b = "none" /\ ~o.closed /\ (o.kind \in Asking => p = r)
  BY DEF Fits, Between, Exporting
<1>2. q.kind = o.kind /\ q.record = None /\ q.saves = <<>> /\ ~q.closed
  BY <1>1 DEF SameDelivery
<1>3. q.at \in Serving => q.kind \in Asking
  BY <1>2 DEF Between, Exporting, Serving
<1>4. q.at \notin {"waits", "confirmed"}
  BY DEF Between, Exporting
<1>5. q.kind \in Asking /\ q.at \in Between /\ CopyOf(rec) # None =>
       q.previous # None /\ q.previous.status = "ready" /\ q.previous.name = CopyOf(rec)
  BY <1>2 DEF Fits, SameDelivery
<1>6. q.kind \in Asking => p = r
  BY <1>1, <1>2
<1> QED BY <1>1, <1>2, <1>3, <1>4, <1>5, <1>6 DEF Fits

LEMMA WalkKeeps ==
  ASSUME DeliveryInv, NEW r \in Deliveries, NEW q \in Requests, D!Is(r, q), SameDelivery(q, request[r]),
         request[r].at \in Between \ {"records"},
         IF request[r].kind \in Asking THEN q.at \in Between \cup {"catches"} ELSE q.at \in (Between \ {"records"}) \cup {"done"},
         CarriesVideos(q, recorded), UNCHANGED <<approved, reference, recorded, record, pid, port, bridge>>,
         \/ UNCHANGED dest
         \/ /\ dest' \in Folders /\ dest'.reference \in recorded \cup {None}
            /\ q.kind = "confirm" \/ D!Together(dest')
  PROVE  DeliveryInv'
<1>1. Fits(r, request[r], port, record, bridge[r]) BY DEF DeliveryInv, RecordsInv
<1>2. Fits(r, q, port, record, bridge[r]) BY <1>1, WalkFits
<1>3. RecordsInv' /\ bridge' = [s \in Deliveries |-> bridge'[s]] BY <1>2, RecordsStayQuietly
<1>4. VideosInv' BY VideosStay DEF SameDelivery
<1>5. DeliveryType' BY <1>3, RequestIs DEF DeliveryInv, DeliveryType
<1> QED BY <1>3, <1>4, <1>5 DEF DeliveryInv

-----------------------------------------------------------------------------
(* Export.                                                                 *)
LEMMA SignsKeeps ==
  ASSUME DeliveryInv, NEW r \in Deliveries, D!Signs(r)
  PROVE  DeliveryInv'
<1> DEFINE step == "compares"
           q == [request[r] EXCEPT !.at = step]
<1>1. /\ request[r] \in Requests /\ request[r].at \in {"signs"} /\ D!Is(r, q)
      /\ UNCHANGED <<approved, reference, recorded, record, pid, port, bridge>>
  BY DEF D!Signs, D!Goes, D!files, DeliveryInv, DeliveryType
<1>2. CarriesVideos(request[r], recorded) BY DEF DeliveryInv, VideosInv
<1>3. /\ step \in Steps /\ step \notin Confirming
      /\ IF request[r].kind \in Asking THEN step \in Between \cup {"catches"} ELSE step \in (Between \ {"records"}) \cup {"done"}
      /\ request[r].at \in Between \ {"records"}
      /\ request[r].at \in Exporting
      /\ step \in {"removes", "renames"} => request[r].tmp = request[r].sha
  BY <1>1, <1>2 DEF Steps, Between, Exporting, Serving, Confirming, Asking, CarriesVideos
<1>4. UNCHANGED dest
  BY DEF D!Signs, D!files
<1> HIDE DEF step
<1>5. q \in Requests /\ q.at = step /\ SameDelivery(q, request[r]) /\ SameVideos(q, request[r])
  BY <1>1, <1>3, Walked
<1> HIDE DEF q
<1>6. CarriesVideos(q, recorded)
  BY <1>2, <1>3, <1>5 DEF CarriesVideos, SameVideos
<1> QED BY <1>1, <1>3, <1>4, <1>5, <1>6, WalkKeeps

LEMMA LooksKeeps ==
  ASSUME DeliveryInv, NEW r \in Deliveries, D!Looks(r)
  PROVE  DeliveryInv'
<1> DEFINE step == IF D!Alive(lock) THEN D!Fails(r) ELSE "clears"
           q == [request[r] EXCEPT !.at = step]
<1>1. /\ request[r] \in Requests /\ request[r].at \in {"looks"} /\ D!Is(r, q)
      /\ UNCHANGED <<approved, reference, recorded, record, pid, port, bridge>>
  BY DEF D!Looks, D!Goes, D!files, DeliveryInv, DeliveryType
<1>2. CarriesVideos(request[r], recorded) BY DEF DeliveryInv, VideosInv
<1>3. /\ step \in Steps /\ step \notin Confirming
      /\ IF request[r].kind \in Asking THEN step \in Between \cup {"catches"} ELSE step \in (Between \ {"records"}) \cup {"done"}
      /\ request[r].at \in Between \ {"records"}
      /\ request[r].at \in Exporting
      /\ step \in {"removes", "renames"} => request[r].tmp = request[r].sha
  BY <1>1, <1>2 DEF D!Fails, D!Delivers, Steps, Between, Exporting, Serving, Confirming, Asking, CarriesVideos
<1>4. UNCHANGED dest
  BY DEF D!Looks, D!files
<1> HIDE DEF step
<1>5. q \in Requests /\ q.at = step /\ SameDelivery(q, request[r]) /\ SameVideos(q, request[r])
  BY <1>1, <1>3, Walked
<1> HIDE DEF q
<1>6. CarriesVideos(q, recorded)
  BY <1>2, <1>3, <1>5 DEF CarriesVideos, SameVideos
<1> QED BY <1>1, <1>3, <1>4, <1>5, <1>6, WalkKeeps

LEMMA ClearsKeeps ==
  ASSUME DeliveryInv, NEW r \in Deliveries, D!Clears(r)
  PROVE  DeliveryInv'
<1> DEFINE step == "locks again"
           q == [request[r] EXCEPT !.at = step]
<1>1. /\ request[r] \in Requests /\ request[r].at \in {"clears"} /\ D!Is(r, q)
      /\ UNCHANGED <<approved, reference, recorded, record, pid, port, bridge>>
  BY DEF D!Clears, D!Goes, D!files, DeliveryInv, DeliveryType
<1>2. CarriesVideos(request[r], recorded) BY DEF DeliveryInv, VideosInv
<1>3. /\ step \in Steps /\ step \notin Confirming
      /\ IF request[r].kind \in Asking THEN step \in Between \cup {"catches"} ELSE step \in (Between \ {"records"}) \cup {"done"}
      /\ request[r].at \in Between \ {"records"}
      /\ request[r].at \in Exporting
      /\ step \in {"removes", "renames"} => request[r].tmp = request[r].sha
  BY <1>1, <1>2 DEF Steps, Between, Exporting, Serving, Confirming, Asking, CarriesVideos
<1>4. UNCHANGED dest
  BY DEF D!Clears, D!files
<1> HIDE DEF step
<1>5. q \in Requests /\ q.at = step /\ SameDelivery(q, request[r]) /\ SameVideos(q, request[r])
  BY <1>1, <1>3, Walked
<1> HIDE DEF q
<1>6. CarriesVideos(q, recorded)
  BY <1>2, <1>3, <1>5 DEF CarriesVideos, SameVideos
<1> QED BY <1>1, <1>3, <1>4, <1>5, <1>6, WalkKeeps

LEMMA LocksKeeps ==
  ASSUME DeliveryInv, NEW r \in Deliveries, D!Locks(r)
  PROVE  DeliveryInv'
<1> DEFINE step == IF lock = None THEN "signs" ELSE IF request[r].at = "locks" THEN "looks" ELSE D!Fails(r)
           q == [request[r] EXCEPT !.at = step]
<1>1. /\ request[r] \in Requests /\ request[r].at \in {"locks", "locks again"} /\ D!Is(r, q)
      /\ UNCHANGED <<approved, reference, recorded, record, pid, port, bridge>>
  BY DEF D!Locks, D!Goes, D!files, DeliveryInv, DeliveryType
<1>2. CarriesVideos(request[r], recorded) BY DEF DeliveryInv, VideosInv
<1>3. /\ step \in Steps /\ step \notin Confirming
      /\ IF request[r].kind \in Asking THEN step \in Between \cup {"catches"} ELSE step \in (Between \ {"records"}) \cup {"done"}
      /\ request[r].at \in Between \ {"records"}
      /\ request[r].at \in Exporting
      /\ step \in {"removes", "renames"} => request[r].tmp = request[r].sha
  BY <1>1, <1>2 DEF D!Fails, D!Delivers, Steps, Between, Exporting, Serving, Confirming, Asking, CarriesVideos
<1>4. UNCHANGED dest
  BY DEF D!Locks, D!files
<1> HIDE DEF step
<1>5. q \in Requests /\ q.at = step /\ SameDelivery(q, request[r]) /\ SameVideos(q, request[r])
  BY <1>1, <1>3, Walked
<1> HIDE DEF q
<1>6. CarriesVideos(q, recorded)
  BY <1>2, <1>3, <1>5 DEF CarriesVideos, SameVideos
<1> QED BY <1>1, <1>3, <1>4, <1>5, <1>6, WalkKeeps

LEMMA ComparesKeeps ==
  ASSUME DeliveryInv, NEW r \in Deliveries, D!Compares(r)
  PROVE  DeliveryInv'
<1> DEFINE step == CASE D!Whole(dest) /\ dest.manifest = request[r].sha /\ dest.package -> "unlocks"
                     [] D!Whole(dest) /\ dest.manifest = request[r].sha -> "packs"
                     [] OTHER -> "copies"
           q == [request[r] EXCEPT !.at = step]
<1>1. /\ request[r] \in Requests /\ request[r].at \in {"compares"} /\ D!Is(r, q)
      /\ UNCHANGED <<approved, reference, recorded, record, pid, port, bridge>>
  BY DEF D!Compares, D!Goes, D!files, DeliveryInv, DeliveryType
<1>2. CarriesVideos(request[r], recorded) BY DEF DeliveryInv, VideosInv
<1>3. /\ step \in Steps /\ step \notin Confirming
      /\ IF request[r].kind \in Asking THEN step \in Between \cup {"catches"} ELSE step \in (Between \ {"records"}) \cup {"done"}
      /\ request[r].at \in Between \ {"records"}
      /\ request[r].at \in Exporting
      /\ step \in {"removes", "renames"} => request[r].tmp = request[r].sha
  BY <1>1, <1>2 DEF Steps, Between, Exporting, Serving, Confirming, Asking, CarriesVideos
<1>4. UNCHANGED dest
  BY DEF D!Compares, D!files
<1> HIDE DEF step
<1>5. q \in Requests /\ q.at = step /\ SameDelivery(q, request[r]) /\ SameVideos(q, request[r])
  BY <1>1, <1>3, Walked
<1> HIDE DEF q
<1>6. CarriesVideos(q, recorded)
  BY <1>2, <1>3, <1>5 DEF CarriesVideos, SameVideos
<1> QED BY <1>1, <1>3, <1>4, <1>5, <1>6, WalkKeeps

\* An export that fails behind its lock gives the lock back first.
LEMMA GivesUp ==
  ASSUME DeliveryInv, NEW r \in Deliveries, NEW failed \in BOOLEAN,
         request[r].at \in {"packs", "validates", "removes", "renames"},
         D!Is(r, [request[r] EXCEPT !.at = "unlocks", !.failed = failed]),
         UNCHANGED <<approved, reference, recorded, record, pid, port, bridge>>,
         \/ UNCHANGED dest
         \/ /\ dest' \in Folders /\ dest'.reference \in recorded \cup {None}
            /\ request[r].kind = "confirm" \/ D!Together(dest')
  PROVE  DeliveryInv'
<1> DEFINE q == [request[r] EXCEPT !.at = "unlocks", !.failed = failed]
<1>1. request[r] \in Requests /\ D!Is(r, q)
  BY DEF DeliveryInv, DeliveryType
<1>2. CarriesVideos(request[r], recorded) BY DEF DeliveryInv, VideosInv
<1>3. q \in Requests /\ q.at = "unlocks" /\ SameDelivery(q, request[r]) /\ SameVideos(q, request[r])
  <2>1. q \in Requests BY <1>1, Marked DEF Steps, Between, Exporting
  <2>2. q.at = "unlocks" /\ SameDelivery(q, request[r]) /\ SameVideos(q, request[r])
    BY <1>1 DEF Requests, SameDelivery, SameVideos
  <2> QED BY <2>1, <2>2
<1> HIDE DEF q
<1>4. CarriesVideos(q, recorded)
  BY <1>2, <1>3 DEF CarriesVideos, SameVideos, Exporting, Confirming
<1>5. q.kind = request[r].kind BY <1>3 DEF SameDelivery
<1> QED BY <1>1, <1>3, <1>4, <1>5, WalkKeeps DEF Between, Exporting

\* Removing takes pieces away, never puts any there.
LEMMA PiecesGo ==
  ASSUME NEW d \in Folders, NEW e \in D!Without(d)
  PROVE  /\ e \in Folders /\ e.reference \in {d.reference, None} /\ e.manifest \in {d.manifest, None}
<1>1. CASE e = [d EXCEPT !.reference = None] BY <1>1 DEF Folders
<1>2. CASE e = [d EXCEPT !.manifest = None] BY <1>2 DEF Folders
<1>3. CASE e = [d EXCEPT !.confirmed = None] BY <1>3 DEF Folders
<1>4. CASE e = [d EXCEPT !.package = FALSE] BY <1>4 DEF Folders
<1> QED BY <1>1, <1>2, <1>3, <1>4 DEF D!Without

LEMMA RemovesKeeps ==
  ASSUME DeliveryInv, NEW r \in Deliveries, D!Removes(r)
  PROVE  DeliveryInv'
<1>1. /\ request[r] \in Requests /\ request[r].at = "removes" /\ dest \in Folders
      /\ UNCHANGED <<approved, reference, recorded, lock, record, pid, port, bridge>>
  BY DEF D!Removes, DeliveryInv, DeliveryType
<1>2. CASE dest' \in D!Without(dest) /\ UNCHANGED request
  <2>1. dest' \in Folders /\ dest'.reference \in {dest.reference, None} /\ dest'.manifest \in {dest.manifest, None}
    BY <1>1, <1>2, PiecesGo
  <2>2. VideosInv'
    BY <1>1, <1>2, <2>1 DEF DeliveryInv, VideosInv, D!Together
  <2>3. DeliveryType' /\ RecordsInv'
    BY <1>1, <1>2, <2>1 DEF DeliveryInv, DeliveryType, RecordsInv
  <2> QED BY <2>2, <2>3 DEF DeliveryInv
<1>3. CASE UNCHANGED dest /\ D!Is(r, [request[r] EXCEPT !.at = "unlocks", !.failed = TRUE])
  BY <1>1, <1>3, GivesUp
<1>4. CASE UNCHANGED dest /\ D!Goes(r, "renames")
  <2> DEFINE q == [request[r] EXCEPT !.at = "renames"]
  <2>1. D!Is(r, q)
    BY <1>4 DEF D!Goes
  <2>2. q \in Requests /\ q.at = "renames" /\ SameDelivery(q, request[r]) /\ SameVideos(q, request[r])
    BY <1>1, Walked DEF Steps, Between, Exporting
  <2>3. CarriesVideos(request[r], recorded) BY DEF DeliveryInv, VideosInv
  <2> HIDE DEF q
  <2>4. CarriesVideos(q, recorded)
    BY <1>1, <2>2, <2>3 DEF CarriesVideos, SameVideos, Exporting, Confirming
  <2> QED BY <1>1, <1>4, <2>1, <2>2, <2>4, WalkKeeps DEF Between, Exporting
<1> QED BY <1>2, <1>3, <1>4 DEF D!Removes

LEMMA UnlocksKeeps ==
  ASSUME DeliveryInv, NEW r \in Deliveries, D!Unlocks(r)
  PROVE  DeliveryInv'
<1> DEFINE step == IF request[r].failed THEN D!Fails(r) ELSE D!After(r)
           q == [request[r] EXCEPT !.at = step]
<1>1. /\ request[r] \in Requests /\ request[r].at \in {"unlocks"} /\ D!Is(r, q)
      /\ UNCHANGED <<approved, reference, recorded, record, pid, port, bridge>>
  BY DEF D!Unlocks, D!Goes, D!files, DeliveryInv, DeliveryType
<1>2. CarriesVideos(request[r], recorded) BY DEF DeliveryInv, VideosInv
<1>3. /\ step \in Steps /\ step \notin Confirming
      /\ IF request[r].kind \in Asking THEN step \in Between \cup {"catches"} ELSE step \in (Between \ {"records"}) \cup {"done"}
      /\ request[r].at \in Between \ {"records"}
      /\ request[r].at \in Exporting
      /\ step \in {"removes", "renames"} => request[r].tmp = request[r].sha
  BY <1>1, <1>2 DEF D!Fails, D!Delivers, D!After, Steps, Between, Exporting, Serving, Confirming, Asking, CarriesVideos
<1>4. UNCHANGED dest
  BY DEF D!Unlocks, D!files
<1> HIDE DEF step
<1>5. q \in Requests /\ q.at = step /\ SameDelivery(q, request[r]) /\ SameVideos(q, request[r])
  BY <1>1, <1>3, Walked
<1> HIDE DEF q
<1>6. CarriesVideos(q, recorded)
  BY <1>2, <1>3, <1>5 DEF CarriesVideos, SameVideos
<1> QED BY <1>1, <1>3, <1>4, <1>5, <1>6, WalkKeeps

\* What is checked is what the project has recorded.
LEMMA ChecksKeeps ==
  ASSUME DeliveryInv, NEW r \in Deliveries, D!Checks(r)
  PROVE  DeliveryInv'
<1> DEFINE step == IF D!Exportable(r) THEN "locks" ELSE D!Fails(r)
           q == [request[r] EXCEPT !.at = step, !.sha = reference]
<1>1. /\ request[r] \in Requests /\ request[r].at = "checks" /\ D!Is(r, q) /\ reference \in Videos
      /\ UNCHANGED <<approved, reference, recorded, dest, record, pid, port, bridge>>
  BY DEF D!Checks, D!files, DeliveryInv, DeliveryType
<1>2. CarriesVideos(request[r], recorded) BY DEF DeliveryInv, VideosInv
<1>3. /\ step \in {"locks", "catches", "done"}
      /\ IF request[r].kind \in Asking THEN step \in {"locks", "catches"} ELSE step \in {"locks", "done"}
  BY DEF D!Fails, D!Delivers, Asking
<1>4. step = "locks" => reference \in recorded
  BY <1>1, <1>2, <1>3, NoneOfThem DEF D!Exportable, D!Fails, CarriesVideos, NoneIsNone
<1> HIDE DEF step
<1>5. q \in Requests /\ q.at = step /\ SameDelivery(q, request[r]) /\ q.sha = reference
      /\ q.artifact = request[r].artifact
  <2>1. step \in Steps BY <1>3 DEF Steps, Between, Exporting, Serving
  <2> QED BY <1>1, <2>1 DEF Requests, SameDelivery
<1> HIDE DEF q
<1>6. CarriesVideos(q, recorded)
  BY <1>2, <1>3, <1>4, <1>5 DEF CarriesVideos, Exporting, Confirming
<1> QED BY <1>1, <1>3, <1>5, <1>6, WalkKeeps DEF Between, Exporting

LEMMA CopiesKeeps ==
  ASSUME DeliveryInv, NEW r \in Deliveries, D!Copies(r)
  PROVE  DeliveryInv'
<1> DEFINE q == [request[r] EXCEPT !.at = "validates", !.tmp = reference]
<1>1. /\ request[r] \in Requests /\ request[r].at = "copies" /\ D!Is(r, q) /\ reference \in Videos
      /\ UNCHANGED <<approved, reference, recorded, dest, record, pid, port, bridge>>
  BY DEF D!Copies, D!files, DeliveryInv, DeliveryType
<1>2. CarriesVideos(request[r], recorded) BY DEF DeliveryInv, VideosInv
<1>3. q \in Requests /\ q.at = "validates" /\ SameDelivery(q, request[r]) /\ q.sha = request[r].sha
      /\ q.artifact = request[r].artifact
  BY <1>1 DEF Requests, SameDelivery, Steps, Between, Exporting
<1> HIDE DEF q
<1>4. CarriesVideos(q, recorded)
  BY <1>1, <1>2, <1>3 DEF CarriesVideos, Exporting, Confirming
<1> QED BY <1>1, <1>3, <1>4, WalkKeeps DEF Between, Exporting

LEMMA PacksKeeps ==
  ASSUME DeliveryInv, NEW r \in Deliveries, D!Packs(r)
  PROVE  DeliveryInv'
<1>1. /\ request[r] \in Requests /\ request[r].at = "packs" /\ dest \in Folders
      /\ UNCHANGED <<approved, reference, recorded, record, pid, port, bridge>>
  BY DEF D!Packs, DeliveryInv, DeliveryType
<1>2. CASE dest = D!Nowhere
  <2>1. UNCHANGED dest /\ D!Is(r, [request[r] EXCEPT !.at = "unlocks", !.failed = TRUE])
    BY <1>2 DEF D!Packs
  <2> QED BY <1>1, <2>1, GivesUp
<1>3. CASE dest # D!Nowhere
  <2> DEFINE q == [request[r] EXCEPT !.at = "unlocks"]
  <2>1. dest' = [dest EXCEPT !.package = TRUE] /\ D!Is(r, q)
    BY <1>3 DEF D!Packs, D!Goes
  <2>2. /\ dest' \in Folders /\ dest'.reference \in recorded \cup {None}
    BY <1>1, <2>1 DEF Folders, DeliveryInv, VideosInv
  <2>3. (\A s \in Deliveries : request[s].kind # "confirm") => D!Together(dest')
    BY <1>1, <2>1 DEF Folders, DeliveryInv, VideosInv, D!Together
  <2>4. q \in Requests /\ q.at = "unlocks" /\ SameDelivery(q, request[r]) /\ SameVideos(q, request[r])
    BY <1>1, Walked DEF Steps, Between, Exporting
  <2>5. CarriesVideos(request[r], recorded) BY DEF DeliveryInv, VideosInv
  <2> HIDE DEF q
  <2>6. CarriesVideos(q, recorded)
    BY <1>1, <2>4, <2>5 DEF CarriesVideos, SameVideos, Exporting, Confirming
  <2>7. Fits(r, q, port, record, bridge[r])
    BY <1>1, <2>4, WalkFits DEF DeliveryInv, RecordsInv, Between, Exporting
  <2>8. RecordsInv' /\ bridge' = [s \in Deliveries |-> bridge'[s]]
    BY <1>1, <2>1, <2>4, <2>7, RecordsStayQuietly
  <2>9. /\ request' \in [Deliveries -> Requests] /\ request'[r] = q
        /\ \A s \in Deliveries : s # r => request'[s] = request[s]
    BY <2>1, <2>4, RequestIs DEF DeliveryInv
  <2>10. \A s \in Deliveries : request'[s].kind = request[s].kind /\ CarriesVideos(request'[s], recorded)
    BY <2>4, <2>6, <2>9 DEF DeliveryInv, VideosInv, SameDelivery
  <2>11. VideosInv'
    BY <1>1, <2>2, <2>3, <2>10 DEF DeliveryInv, VideosInv, D!Together
  <2> QED BY <1>1, <2>2, <2>8, <2>9, <2>11 DEF DeliveryInv, DeliveryType
<1> QED BY <1>2, <1>3

LEMMA ValidatesKeeps ==
  ASSUME DeliveryInv, NEW r \in Deliveries, D!Validates(r)
  PROVE  DeliveryInv'
<1>1. /\ request[r] \in Requests /\ request[r].at = "validates"
      /\ UNCHANGED <<approved, reference, recorded, dest, record, pid, port, bridge>>
  BY DEF D!Validates, D!files, DeliveryInv, DeliveryType
<1>2. CASE ~D!Valid(r)
  <2>1. D!Is(r, [request[r] EXCEPT !.at = "unlocks", !.failed = TRUE])
    BY <1>2 DEF D!Validates
  <2> QED BY <1>1, <2>1, GivesUp
<1>3. CASE D!Valid(r)
  <2> DEFINE q == [request[r] EXCEPT !.at = "removes"]
  <2>1. D!Is(r, q) /\ request[r].tmp = request[r].sha
    BY <1>3 DEF D!Validates, D!Goes, D!Valid
  <2>2. q \in Requests /\ q.at = "removes" /\ SameDelivery(q, request[r]) /\ SameVideos(q, request[r])
    BY <1>1, Walked DEF Steps, Between, Exporting
  <2>3. CarriesVideos(request[r], recorded) BY DEF DeliveryInv, VideosInv
  <2> HIDE DEF q
  <2>4. CarriesVideos(q, recorded)
    BY <1>1, <2>1, <2>2, <2>3 DEF CarriesVideos, SameVideos, Exporting, Confirming
  <2> QED BY <1>1, <2>1, <2>2, <2>4, WalkKeeps DEF Between, Exporting
<1> QED BY <1>2, <1>3

\* What is put into exports/ is what was checked and validated.
LEMMA RenamesKeeps ==
  ASSUME DeliveryInv, NEW r \in Deliveries, D!Renames(r)
  PROVE  DeliveryInv'
<1> DEFINE failed == ~(D!Whole(dest') /\ dest'.manifest = request[r].sha /\ dest'.package)
           new == [reference |-> request[r].tmp, manifest |-> request[r].sha, confirmed |-> "pending", package |-> TRUE]
<1>1. /\ request[r] \in Requests /\ request[r].at = "renames" /\ failed \in BOOLEAN
      /\ D!Is(r, [request[r] EXCEPT !.at = "unlocks", !.failed = failed])
      /\ dest' = IF dest # D!Nowhere THEN dest ELSE new
      /\ UNCHANGED <<approved, reference, recorded, record, pid, port, bridge>>
  BY DEF D!Renames, DeliveryInv, DeliveryType
<1>2. request[r].tmp = request[r].sha /\ request[r].sha \in recorded
  BY <1>1 DEF DeliveryInv, VideosInv, CarriesVideos, Exporting
<1>3. request[r].sha \in Videos /\ request[r].sha # None /\ "pending" # None
  BY <1>2, NoneOfThem DEF DeliveryInv, DeliveryType, NoneIsNone
<1>4. new \in Folders /\ new.reference \in recorded /\ D!Together(new)
  BY <1>2, <1>3 DEF Folders, D!Together
<1> HIDE DEF failed, new
<1> QED BY <1>1, <1>4, GivesUp

-----------------------------------------------------------------------------
(* The confirmation of an import.                                          *)

\* A request that asks for no delivery does not fit more or less than before.
LEMMA NoDeliveryFits ==
  ASSUME NEW r \in Deliveries, NEW o, NEW q, NEW p, NEW rec, NEW b, Fits(r, o, p, rec, b), SameDelivery(q, o),
         o.kind \notin Asking, q.at \notin Serving, o.at \notin {"waits", "catches", "leaves", "done", "confirmed"}
  PROVE  Fits(r, q, p, rec, b)
<1>1. o.record = None /\ o.saves = <<>> /\ b = "none" /\ ~o.closed
  BY DEF Fits
<1> QED BY <1>1 DEF Fits, SameDelivery, Serving

LEMMA ConfirmsKeeps ==
  ASSUME DeliveryInv, NEW r \in Deliveries, D!Confirms(r)
  PROVE  DeliveryInv'
<1> DEFINE step == IF D!Whole(dest) THEN "publishes" ELSE "done"
           q == [request[r] EXCEPT !.at = step, !.sha = dest.manifest]
<1>1. /\ request[r] \in Requests /\ request[r].at = "confirms" /\ D!Is(r, q) /\ dest.manifest \in Videos \cup {None}
      /\ UNCHANGED <<approved, reference, recorded, dest, record, pid, port, bridge>>
  BY DEF D!Confirms, D!files, DeliveryInv, DeliveryType, Folders
<1>2. CarriesVideos(request[r], recorded) BY DEF DeliveryInv, VideosInv
<1>3. step \in {"publishes", "done"} OBVIOUS
<1> HIDE DEF step
<1>4. q \in Requests /\ q.at = step /\ SameDelivery(q, request[r]) /\ q.artifact = request[r].artifact
  <2>1. step \in Steps BY <1>3 DEF Steps, Confirming
  <2> QED BY <1>1, <2>1 DEF Requests, SameDelivery
<1> HIDE DEF q
<1>5. request[r].kind = "confirm" /\ q.kind = "confirm"
  BY <1>1, <1>2, <1>4 DEF CarriesVideos, Confirming, SameDelivery
<1>6. CarriesVideos(q, recorded)
  BY <1>2, <1>3, <1>4, <1>5 DEF CarriesVideos, Exporting, Confirming
<1>7. Fits(r, q, port, record, bridge[r])
  BY <1>1, <1>3, <1>4, <1>5, NoDeliveryFits DEF DeliveryInv, RecordsInv, Serving, Asking
<1>8. RecordsInv' /\ bridge' = [s \in Deliveries |-> bridge'[s]] BY <1>1, <1>4, <1>7, RecordsStayQuietly
<1>9. VideosInv' BY <1>1, <1>4, <1>5, <1>6, VideosStay
<1>10. DeliveryType' BY <1>1, <1>4, <1>8, RequestIs DEF DeliveryInv, DeliveryType
<1> QED BY <1>8, <1>9, <1>10 DEF DeliveryInv

LEMMA PublishesKeeps ==
  ASSUME DeliveryInv, NEW r \in Deliveries, D!Publishes(r)
  PROVE  DeliveryInv'
<1>1. PICK step \in {"publishes manifest", "done"} :
        /\ request[r].at \in {"publishes", "publishes manifest"}
        /\ D!Is(r, [request[r] EXCEPT !.at = step])
        /\ \/ dest' = [dest EXCEPT !.confirmed = request[r].sha]
           \/ dest' = [dest EXCEPT !.manifest = request[r].sha]
        /\ UNCHANGED <<approved, reference, recorded, record, pid, port, bridge>>
  BY DEF D!Publishes, D!Goes
<1> DEFINE q == [request[r] EXCEPT !.at = step]
<1>2. request[r] \in Requests /\ D!Is(r, q) /\ request[r].sha \in Videos \cup {None}
  BY <1>1 DEF DeliveryInv, DeliveryType, Requests
<1>3. CarriesVideos(request[r], recorded) BY DEF DeliveryInv, VideosInv
<1>4. q \in Requests /\ q.at = step /\ SameDelivery(q, request[r]) /\ SameVideos(q, request[r])
  BY <1>2, Walked DEF Steps, Confirming
<1> HIDE DEF q
<1>5. request[r].kind = "confirm" /\ q.kind = "confirm"
  BY <1>1, <1>3, <1>4 DEF CarriesVideos, Confirming, SameDelivery
<1>6. CarriesVideos(q, recorded)
  BY <1>3, <1>4, <1>5 DEF CarriesVideos, SameVideos, Exporting
<1>7. Fits(r, q, port, record, bridge[r])
  BY <1>1, <1>4, <1>5, NoDeliveryFits DEF DeliveryInv, RecordsInv, Serving, Asking
<1>8. RecordsInv' /\ bridge' = [s \in Deliveries |-> bridge'[s]] BY <1>1, <1>2, <1>4, <1>7, RecordsStayQuietly
<1>9. dest' \in Folders /\ dest'.reference = dest.reference
  BY <1>1, <1>2 DEF DeliveryInv, DeliveryType, Folders
<1>10. VideosInv' BY <1>1, <1>2, <1>4, <1>5, <1>6, <1>9, VideosStay DEF DeliveryInv, VideosInv
<1>11. DeliveryType' BY <1>1, <1>2, <1>4, <1>8, <1>9, RequestIs DEF DeliveryInv, DeliveryType
<1> QED BY <1>8, <1>10, <1>11 DEF DeliveryInv

-----------------------------------------------------------------------------
(* The delivery to Resolve.                                                *)

LEMMA RecordIs ==
  ASSUME NEW rec \in Contents
  PROVE  /\ rec.status \in {"running", "ready", "error"}
         /\ rec.status = "ready" => rec \in Ready
         /\ rec.status # "ready" => rec \in Busy
         /\ rec.name \in Deliveries \cup {"earlier"} /\ rec.ready \in Ready \cup {None}
<1>1. CASE rec \in Ready BY <1>1 DEF Ready, D!Ready, D!RecordsWith
<1>2. CASE rec \in Busy BY <1>2 DEF Busy, D!Busy, D!Ready, Ready, D!RecordsWith
<1> QED BY <1>1, <1>2 DEF Contents

\* What a request of these reads is not under way, or it names the copy there is.
LEMMA ReadIs ==
  ASSUME DeliveryType
  PROVE  /\ D!Read(record) \in Contents \cup {None}
         /\ CopyOf(record) # None =>
              /\ D!Read(record) # None
              /\ \/ D!Read(record).status = "running"
                 \/ D!Read(record).status = "ready" /\ D!Read(record).name = CopyOf(record)
<1>1. CASE record = None BY <1>1 DEF D!Read, CopyOf
<1>2. CASE record # None /\ record.status # "running"
  BY <1>2 DEF D!Read, CopyOf, DeliveryType
<1>3. CASE record # None /\ record.status = "running"
  <2>1. record \in Busy /\ record.ready \in Ready \cup {None}
    BY <1>3, RecordIs DEF DeliveryType
  <2>2. [record EXCEPT !.status = "error"] \in Contents
    BY <2>1 DEF Contents, Busy, D!Busy, D!Ready, Ready, D!RecordsWith
  <2>3. record.ready # None => record.ready \in Contents /\ record.ready.status = "ready"
    BY <2>1 DEF Contents, Ready, D!Ready, D!RecordsWith
  <2> QED BY <1>3, <2>1, <2>2, <2>3 DEF D!Read, CopyOf, Contents
<1> QED BY <1>1, <1>2, <1>3

\* A step of a delivery that touches no export.
LEMMA ServeKeeps ==
  ASSUME DeliveryInv, NEW r \in Deliveries, NEW q \in Requests, D!Is(r, q),
         q.kind = request[r].kind, SameVideos(q, request[r]), q.at \notin Exporting \cup Confirming,
         UNCHANGED <<approved, reference, recorded, dest, pid>>, record' \in Contents \cup {None},
         \/ port \in {r, None}
         \/ UNCHANGED <<port, record>>,
         NEW b, bridge' = [bridge EXCEPT ![r] = b], Fits(r, q, port', record', b)
  PROVE  DeliveryInv'
<1>1. RecordsInv' /\ bridge' = [s \in Deliveries |-> bridge'[s]] BY RecordsStay
<1>2. CarriesVideos(q, recorded)
  BY DEF CarriesVideos, SameVideos, DeliveryInv, VideosInv, Exporting
<1>3. VideosInv' BY <1>2, VideosStay
<1>4. DeliveryType' BY <1>1, RequestIs DEF DeliveryInv, DeliveryType
<1> QED BY <1>1, <1>3, <1>4 DEF DeliveryInv

LEMMA ServeKeepsQuietly ==
  ASSUME DeliveryInv, NEW r \in Deliveries, NEW q \in Requests, D!Is(r, q),
         q.kind = request[r].kind, SameVideos(q, request[r]), q.at \notin Exporting \cup Confirming,
         UNCHANGED <<approved, reference, recorded, dest, pid, bridge>>, record' \in Contents \cup {None},
         \/ port \in {r, None}
         \/ UNCHANGED <<port, record>>,
         Fits(r, q, port', record', bridge[r])
  PROVE  DeliveryInv'
<1>1. bridge' = [bridge EXCEPT ![r] = bridge[r]]
  BY DEF DeliveryInv, DeliveryType
<1> QED BY <1>1, ServeKeeps

LEMMA LoadsKeeps ==
  ASSUME DeliveryInv, NEW r \in Deliveries, D!Loads(r)
  PROVE  DeliveryInv'
<1> DEFINE step == CASE D!Delivers(r) -> "listens" [] request[r].kind = "confirm" -> "confirms" [] OTHER -> "checks"
           q == [request[r] EXCEPT !.artifact = approved.artifact, !.at = step]
<1>1. /\ request[r] \in Requests /\ request[r].at = "loads" /\ D!Is(r, q) /\ approved.artifact \in recorded
      /\ approved.artifact \in Videos
      /\ UNCHANGED <<approved, reference, recorded, dest, record, pid, port, bridge>>
  BY DEF D!Loads, D!files, DeliveryInv, DeliveryType, VideosInv
<1>2. /\ step \in {"listens", "confirms", "checks"}
      /\ request[r].kind \in Asking <=> step = "listens"
      /\ step = "confirms" => request[r].kind = "confirm"
  BY DEF D!Delivers, Asking
<1> HIDE DEF step
<1>3. q \in Requests /\ q.at = step /\ SameDelivery(q, request[r]) /\ q.artifact = approved.artifact
  BY <1>1, <1>2 DEF Requests, SameDelivery, Steps, Between, Confirming, Serving
<1> HIDE DEF q
<1>4. q.kind = request[r].kind BY <1>3 DEF SameDelivery
<1>5. CarriesVideos(q, recorded)
  BY <1>1, <1>2, <1>3, <1>4 DEF CarriesVideos, Exporting, Confirming
<1>6. Fits(r, request[r], port, record, bridge[r]) BY DEF DeliveryInv, RecordsInv
<1>7. request[r].record = None /\ request[r].saves = <<>> /\ bridge[r] = "none" /\ ~request[r].closed
  BY <1>1, <1>6 DEF Fits
<1>8. Fits(r, q, port, record, bridge[r])
  BY <1>2, <1>3, <1>4, <1>7 DEF Fits, SameDelivery, Serving, Between, Exporting
<1>9. RecordsInv' /\ bridge' = [s \in Deliveries |-> bridge'[s]] BY <1>1, <1>3, <1>8, RecordsStayQuietly
<1>10. VideosInv' BY <1>1, <1>3, <1>4, <1>5, VideosStay
<1>11. DeliveryType' BY <1>1, <1>3, <1>9, RequestIs DEF DeliveryInv, DeliveryType
<1> QED BY <1>9, <1>10, <1>11 DEF DeliveryInv

LEMMA ListensKeeps ==
  ASSUME DeliveryInv, NEW r \in Deliveries, D!Listens(r)
  PROVE  DeliveryInv'
<1>0. Fits(r, request[r], port, record, bridge[r]) BY DEF DeliveryInv, RecordsInv
<1>1. PICK step \in {"reads", "done"} :
        /\ request[r].at = "listens" /\ D!Is(r, [request[r] EXCEPT !.at = step])
        /\ step = "reads" => port = None /\ port' = r
        /\ step = "done" => UNCHANGED port
        /\ UNCHANGED <<approved, reference, recorded, dest, record, pid, bridge>>
  BY DEF D!Listens, D!Goes, D!files
<1> DEFINE q == [request[r] EXCEPT !.at = step]
<1>2. request[r] \in Requests /\ D!Is(r, q) /\ record' \in Contents \cup {None}
  BY <1>1 DEF DeliveryInv, DeliveryType
<1>3. q \in Requests /\ q.at = step /\ SameDelivery(q, request[r]) /\ SameVideos(q, request[r])
  BY <1>2, Walked DEF Steps, Serving
<1> HIDE DEF q
<1>4. /\ request[r].record = None /\ request[r].saves = <<>> /\ bridge[r] = "none" /\ ~request[r].closed
      /\ request[r].kind \in Asking
  BY <1>0, <1>1 DEF Fits, Serving
<1>5. Fits(r, q, port', record', bridge[r])
  BY <1>1, <1>3, <1>4 DEF Fits, SameDelivery, Between, Exporting
<1>6. q.at \notin Exporting \cup Confirming BY <1>3 DEF Exporting, Confirming
<1> QED BY <1>1, <1>2, <1>3, <1>5, <1>6, ServeKeepsQuietly DEF SameDelivery

\* Who delivers has the port, and what it has read stays what is there.
LEMMA ReadsKeeps ==
  ASSUME DeliveryInv, NEW r \in Deliveries, D!Reads(r)
  PROVE  DeliveryInv'
<1> DEFINE previous == D!Read(record)
           step == IF D!Refused(r, previous) THEN "catches" ELSE "checks"
           q == [request[r] EXCEPT !.at = step, !.previous = previous]
<1>0. Fits(r, request[r], port, record, bridge[r]) BY DEF DeliveryInv, RecordsInv
<1>1. /\ request[r] \in Requests /\ request[r].at = "reads" /\ D!Is(r, q) /\ record' \in Contents \cup {None}
      /\ UNCHANGED <<approved, reference, recorded, dest, record, pid, port, bridge>>
  BY DEF D!Reads, D!files, DeliveryInv, DeliveryType
<1>2. /\ request[r].record = None /\ request[r].saves = <<>> /\ bridge[r] = "none" /\ ~request[r].closed
      /\ request[r].kind \in Asking /\ port = r
  BY <1>0, <1>1 DEF Fits, Serving
<1>3. previous \in Contents \cup {None} BY ReadIs DEF DeliveryInv
<1>4. step \in {"catches", "checks"} OBVIOUS
<1>5. step = "checks" /\ CopyOf(record) # None =>
        previous # None /\ previous.status = "ready" /\ previous.name = CopyOf(record)
  BY ReadIs DEF D!Refused, DeliveryInv
<1> HIDE DEF previous, step
<1>6. /\ q \in Requests /\ q.at = step /\ SameVideos(q, request[r]) /\ q.previous = previous
      /\ q.kind = request[r].kind /\ q.record = request[r].record /\ q.saves = request[r].saves
      /\ q.closed = request[r].closed
  <2>1. step \in Steps BY <1>4 DEF Steps, Between, Serving
  <2>2. q \in Requests BY <1>1, <1>3, <2>1 DEF Requests
  <2> QED BY <1>1, <2>2 DEF Requests, SameVideos
<1> HIDE DEF q
<1>7. Fits(r, q, port', record', bridge[r])
  BY <1>1, <1>2, <1>4, <1>5, <1>6 DEF Fits, Between, Exporting
<1>8. q.at \notin Exporting \cup Confirming BY <1>4, <1>6 DEF Exporting, Confirming
<1> QED BY <1>1, <1>6, <1>7, <1>8, ServeKeepsQuietly

\* The steps that write the record leave the copy that it names, unless they are of another.
CopyKept(r) == request[r].kind # "copy" /\ CopyOf(record) # None => CopyOf(record') = CopyOf(record)

\* The copies that the records of a delivery name.
LEMMA MineIs ==
  ASSUME NEW r \in Deliveries, NEW q \in Requests, NEW rec, Mine(r, q, rec)
  PROVE  CopyOf(rec) = IF SameOf(q) = None THEN None ELSE SameOf(q).name
  BY DEF Mine, CopyOf

LEMMA SameIs ==
  ASSUME NEW q \in Requests
  PROVE  SameOf(q) \in Ready \cup {None} /\ \A r \in Deliveries : NameOf(r, q) \in Deliveries \cup {"earlier"}
<1>1. q.previous \in Contents \cup {None} BY DEF Requests
<1>2. SameOf(q) \in Ready \cup {None} BY <1>1, RecordIs DEF SameOf
<1> QED BY <1>2, RecordIs DEF NameOf, Contents

LEMMA RecordsStepKeeps ==
  ASSUME DeliveryInv, NEW r \in Deliveries, D!Records(r)
  PROVE  DeliveryInv' /\ CopyKept(r)
<1> DEFINE rec == [op |-> r, name |-> IF D!Same(r) = None THEN r ELSE D!Same(r).name, status |-> "running",
                   created |-> FALSE, pid |-> pid, ready |-> D!Same(r)]
           q == [request[r] EXCEPT !.at = "waits", !.record = rec]
<1>0. Fits(r, request[r], port, record, bridge[r]) BY DEF DeliveryInv, RecordsInv
<1>1. /\ request[r] \in Requests /\ request[r].at = "records" /\ D!Is(r, q) /\ record' = rec
      /\ bridge' = [bridge EXCEPT ![r] = "running"]
      /\ UNCHANGED <<approved, reference, recorded, dest, pid, port>>
  BY DEF D!Records, DeliveryInv, DeliveryType
<1>2. D!Same(r) = SameOf(request[r]) BY DEF D!Same, SameOf
<1>3. /\ SameOf(request[r]) \in Ready \cup {None} /\ NameOf(r, request[r]) \in Deliveries \cup {"earlier"}
      /\ pid \in Nat
  BY <1>1, SameIs DEF DeliveryInv, DeliveryType
<1>4. rec = [op |-> r, name |-> NameOf(r, request[r]), status |-> "running", created |-> FALSE, pid |-> pid,
             ready |-> SameOf(request[r])]
  BY <1>2 DEF NameOf
<1> HIDE DEF rec
<1>5. /\ rec \in Contents /\ rec.op = r /\ rec.name = NameOf(r, request[r]) /\ rec.status = "running"
      /\ rec.ready = SameOf(request[r])
  BY <1>3, <1>4 DEF Contents, Busy, D!Busy, D!Ready, Ready, D!RecordsWith
<1>6. rec # None
  BY <1>5, NoneIsNoRecord
<1>7. /\ q \in Requests /\ q.at = "waits" /\ q.record = rec /\ q.kind = request[r].kind
      /\ q.previous = request[r].previous /\ q.saves = request[r].saves /\ q.closed = request[r].closed
      /\ SameVideos(q, request[r])
  <2>1. "waits" \in Steps BY DEF Steps, Serving
  <2>2. q \in Requests BY <1>1, <1>5, <2>1 DEF Requests
  <2> QED BY <1>1, <2>2 DEF Requests, SameVideos
<1> HIDE DEF q
<1>8. SameOf(q) = SameOf(request[r]) /\ NameOf(r, q) = NameOf(r, request[r])
  BY <1>7 DEF SameOf, NameOf
<1>9. Mine(r, q, rec) BY <1>5, <1>6, <1>8 DEF Mine
<1>10. /\ request[r].saves = <<>> /\ ~request[r].closed /\ request[r].kind \in Asking /\ port = r
  BY <1>0, <1>1 DEF Fits, Serving
<1>11. Fits(r, q, port', record', "running")
  BY <1>1, <1>6, <1>7, <1>9, <1>10 DEF Fits, Between, Exporting
<1>12. DeliveryInv'
  BY <1>1, <1>5, <1>7, <1>10, <1>11, ServeKeeps DEF Exporting, Confirming
<1>13. CopyKept(r)
  <2> SUFFICES ASSUME request[r].kind # "copy", CopyOf(record) # None PROVE CopyOf(record') = CopyOf(record)
    BY DEF CopyKept
  <2>1. /\ request[r].previous # None /\ request[r].previous.status = "ready"
        /\ request[r].previous.name = CopyOf(record)
    BY <1>0, <1>1, <1>10 DEF Fits, Between
  <2>2. SameOf(q) # None /\ SameOf(q).name = CopyOf(record) BY <1>8, <2>1 DEF SameOf
  <2> QED BY <1>1, <1>7, <1>9, <2>2, MineIs
<1> QED BY <1>12, <1>13

\* A line of the bridge is heard only while the delivery waits for it.
LEMMA EventKeeps ==
  ASSUME DeliveryInv, NEW r \in Deliveries, D!Event(r)
  PROVE  DeliveryInv' /\ UNCHANGED record
<1> DEFINE rec == [request[r].record EXCEPT !.created = @ \/ request[r].record.ready = None]
           q == [request[r] EXCEPT !.record = rec, !.saves = Append(@, rec)]
<1>0. Fits(r, request[r], port, record, bridge[r]) BY DEF DeliveryInv, RecordsInv
<1>1. /\ request[r] \in Requests /\ bridge[r] = "running" /\ request[r].record # None
      /\ bridge' = [bridge EXCEPT ![r] = "told"] /\ record \in Contents \cup {None}
      /\ IF ~request[r].closed THEN D!Is(r, q) ELSE UNCHANGED request
      /\ UNCHANGED <<approved, reference, recorded, dest, record, pid, port>>
  BY DEF D!Event, D!Heard, D!files, DeliveryInv, DeliveryType
<1>2. CASE request[r].closed
  <2>1. D!Is(r, request[r]) BY <1>1, <1>2 DEF D!Is, DeliveryInv, DeliveryType
  <2>2. Fits(r, request[r], port', record', "told") BY <1>0, <1>1, <1>2 DEF Fits
  <2>3. request[r].at \notin Exporting \cup Confirming BY <1>0, <1>2 DEF Fits, Exporting, Confirming
  <2> QED BY <1>1, <2>1, <2>2, <2>3, ServeKeeps DEF SameVideos
<1>3. CASE ~request[r].closed
  <2>1. request[r].at = "waits" /\ request[r].kind \in Asking /\ port = r BY <1>0, <1>1, <1>3 DEF Fits, Serving
  <2>2. Mine(r, request[r], request[r].record) /\ Mine(r, request[r], record)
        /\ \A i \in DOMAIN request[r].saves : Mine(r, request[r], request[r].saves[i])
    BY <1>0, <1>1, <2>1 DEF Fits
  <2>3. request[r].record \in Busy
    BY <1>1, <2>2, RecordIs DEF Mine, Requests
  <2>4. /\ rec \in Busy /\ rec.op = request[r].record.op /\ rec.name = request[r].record.name
        /\ rec.status = request[r].record.status /\ rec.ready = request[r].record.ready
    <3> DEFINE old == request[r].record
               created == old.created \/ old.ready = None
    <3>1. created \in BOOLEAN OBVIOUS
    <3>2. rec = [old EXCEPT !.created = created] OBVIOUS
    <3> HIDE DEF created, old
    <3>3. old \in Busy BY <2>3 DEF old
    <3>4. [old EXCEPT !.created = TRUE] \in Busy /\ [old EXCEPT !.created = FALSE] \in Busy
      BY <3>3 DEF Busy, D!Busy, D!Ready, Ready, D!RecordsWith
    <3>5. rec \in Busy BY <3>1, <3>2, <3>4
    <3>6. rec.op = old.op /\ rec.name = old.name /\ rec.status = old.status /\ rec.ready = old.ready
      BY <3>2, <3>3 DEF Busy, D!Busy, D!Ready, Ready, D!RecordsWith
    <3> QED BY <3>5, <3>6 DEF old
  <2> HIDE DEF rec
  <2>5. rec \in Contents /\ rec # None BY <2>4, NoneIsNoRecord DEF Contents
  <2>6. request[r].saves \in Seq(Contents) BY <1>1 DEF Requests
  <2>7. /\ q \in Requests /\ q.at = "waits" /\ q.record = rec /\ q.kind = request[r].kind
        /\ q.previous = request[r].previous /\ q.saves = Append(request[r].saves, rec) /\ q.closed = request[r].closed
        /\ SameVideos(q, request[r])
    <3>1. Append(request[r].saves, rec) \in Seq(Contents) BY <2>5, <2>6
    <3>2. q \in Requests BY <1>1, <2>5, <3>1 DEF Requests
    <3> QED BY <1>1, <2>1, <3>2 DEF Requests, SameVideos
  <2> HIDE DEF q
  <2>8. SameOf(q) = SameOf(request[r]) /\ NameOf(r, q) = NameOf(r, request[r])
    BY <2>7 DEF SameOf, NameOf
  <2>9. Mine(r, q, rec) /\ Mine(r, q, record) BY <2>2, <2>4, <2>5, <2>8 DEF Mine
  <2>10. \A i \in DOMAIN q.saves : Mine(r, q, q.saves[i])
    <3>1. \A i \in DOMAIN request[r].saves : Mine(r, q, request[r].saves[i]) BY <2>2, <2>8 DEF Mine
    <3> QED BY <2>5, <2>6, <2>7, <2>9, <3>1
  <2>11. Fits(r, q, port', record', "told")
    BY <1>1, <1>3, <2>1, <2>5, <2>7, <2>9, <2>10 DEF Fits, Between, Exporting
  <2> QED BY <1>1, <1>3, <2>1, <2>7, <2>11, ServeKeeps DEF Exporting, Confirming
<1> QED BY <1>1, <1>2, <1>3

LEMMA SavesKeeps ==
  ASSUME DeliveryInv, NEW r \in Deliveries, D!Saves(r)
  PROVE  DeliveryInv' /\ CopyKept(r)
<1> DEFINE q == [request[r] EXCEPT !.saves = Tail(@)]
<1>0. Fits(r, request[r], port, record, bridge[r]) BY DEF DeliveryInv, RecordsInv
<1>1. /\ request[r] \in Requests /\ request[r].saves # <<>> /\ record' = Head(request[r].saves) /\ D!Is(r, q)
      /\ UNCHANGED <<approved, reference, recorded, dest, pid, port, bridge>>
  BY DEF D!Saves, DeliveryInv, DeliveryType
<1>2. request[r].saves \in Seq(Contents) BY <1>1 DEF Requests
<1>3. /\ Head(request[r].saves) = request[r].saves[1] /\ 1 \in DOMAIN request[r].saves
      /\ Head(request[r].saves) \in Contents /\ Tail(request[r].saves) \in Seq(Contents)
      /\ \A i \in DOMAIN Tail(request[r].saves) :
           i + 1 \in DOMAIN request[r].saves /\ Tail(request[r].saves)[i] = request[r].saves[i + 1]
  BY <1>1, <1>2
<1>4. /\ q \in Requests /\ q.at = request[r].at /\ q.record = request[r].record /\ q.kind = request[r].kind
      /\ q.previous = request[r].previous /\ q.saves = Tail(request[r].saves) /\ q.closed = request[r].closed
      /\ SameVideos(q, request[r])
  <2>1. q \in Requests BY <1>1, <1>3 DEF Requests
  <2> QED BY <1>1, <2>1 DEF Requests, SameVideos
<1> HIDE DEF q
<1>5. /\ request[r].at \in {"waits", "confirmed", "catches"} /\ request[r].record # None
      /\ request[r].kind \in Asking /\ port = r
  BY <1>0, <1>1 DEF Fits, Serving
<1>6. /\ Mine(r, request[r], request[r].record) /\ Mine(r, request[r], record)
      /\ \A i \in DOMAIN request[r].saves : Mine(r, request[r], request[r].saves[i])
  BY <1>0, <1>5 DEF Fits
<1>7. SameOf(q) = SameOf(request[r]) /\ NameOf(r, q) = NameOf(r, request[r])
  BY <1>4 DEF SameOf, NameOf
<1>8. /\ Mine(r, q, q.record) /\ Mine(r, q, record')
      /\ \A i \in DOMAIN q.saves : Mine(r, q, q.saves[i])
  BY <1>1, <1>3, <1>4, <1>6, <1>7 DEF Mine
<1>9. Fits(r, q, port', record', bridge[r])
  BY <1>0, <1>1, <1>4, <1>5, <1>8 DEF Fits, Between, Exporting
<1>10. DeliveryInv'
  BY <1>1, <1>3, <1>4, <1>5, <1>9, ServeKeepsQuietly DEF Exporting, Confirming
<1>11. Mine(r, request[r], record') BY <1>1, <1>3, <1>6
<1>12. CopyKept(r)
  BY <1>1, <1>6, <1>11, MineIs DEF CopyKept
<1> QED BY <1>10, <1>12

\* What is so of a delivery that waits for its bridge, or for its records to be written.
LEMMA WaitingIs ==
  ASSUME DeliveryInv, NEW r \in Deliveries, request[r].at \in {"waits", "confirmed"}
  PROVE  /\ request[r].kind \in Asking /\ port = r /\ request[r].record # None
         /\ Mine(r, request[r], request[r].record) /\ Mine(r, request[r], record)
         /\ \A i \in DOMAIN request[r].saves : Mine(r, request[r], request[r].saves[i])
         /\ ~request[r].closed /\ (request[r].at = "confirmed" => bridge[r] = "none")
<1>0. Fits(r, request[r], port, record, bridge[r]) BY DEF DeliveryInv, RecordsInv
<1> QED BY <1>0 DEF Fits, Serving

LEMMA EndsKeeps ==
  ASSUME DeliveryInv, NEW r \in Deliveries, D!Ends(r)
  PROVE  DeliveryInv' /\ UNCHANGED record
<1>1. PICK step \in {"confirmed", "catches"} :
        /\ request[r].at = "waits" /\ D!Is(r, [request[r] EXCEPT !.at = step])
        /\ bridge' = [bridge EXCEPT ![r] = "none"]
        /\ UNCHANGED <<approved, reference, recorded, dest, record, pid, port>>
  BY DEF D!Ends, D!Goes, D!files
<1> DEFINE q == [request[r] EXCEPT !.at = step]
<1>2. request[r] \in Requests /\ D!Is(r, q) /\ record' \in Contents \cup {None}
  BY <1>1 DEF DeliveryInv, DeliveryType
<1>3. q \in Requests /\ q.at = step /\ SameDelivery(q, request[r]) /\ SameVideos(q, request[r])
  BY <1>2, Walked DEF Steps, Serving
<1> HIDE DEF q
<1>4. SameOf(q) = SameOf(request[r]) /\ NameOf(r, q) = NameOf(r, request[r])
  BY <1>3 DEF SameOf, NameOf, SameDelivery
<1>5. Fits(r, q, port', record', "none")
  <2>1. /\ request[r].kind \in Asking /\ port = r /\ request[r].record # None /\ ~request[r].closed
        /\ Mine(r, request[r], request[r].record) /\ Mine(r, request[r], record)
        /\ \A i \in DOMAIN request[r].saves : Mine(r, request[r], request[r].saves[i])
    BY <1>1, WaitingIs
  <2>2. /\ Mine(r, q, q.record) /\ Mine(r, q, record')
        /\ \A i \in DOMAIN q.saves : Mine(r, q, q.saves[i])
    BY <1>1, <1>3, <1>4, <2>1 DEF SameDelivery, Mine
  <2>3. q.at \in {"confirmed", "catches"} /\ q.kind \in Asking /\ q.record # None /\ ~q.closed /\ port' = r
    BY <1>1, <1>3, <2>1 DEF SameDelivery
  <2> QED BY <2>2, <2>3 DEF Fits, Between, Exporting
<1>6. q.at \notin Exporting \cup Confirming BY <1>3 DEF Exporting, Confirming
<1> QED BY <1>1, <1>2, <1>3, <1>5, <1>6, ServeKeeps DEF SameDelivery

LEMMA TimesOutKeeps ==
  ASSUME DeliveryInv, NEW r \in Deliveries, D!TimesOut(r)
  PROVE  DeliveryInv' /\ UNCHANGED record
<1> DEFINE q == [request[r] EXCEPT !.at = "catches", !.closed = TRUE]
<1>1. /\ request[r] \in Requests /\ request[r].at = "waits" /\ D!Is(r, q) /\ record' \in Contents \cup {None}
      /\ UNCHANGED <<approved, reference, recorded, dest, record, pid, port, bridge>>
  BY DEF D!TimesOut, D!files, DeliveryInv, DeliveryType
<1>2. /\ q \in Requests /\ q.at = "catches" /\ SameVideos(q, request[r]) /\ q.closed
      /\ q.kind = request[r].kind /\ q.previous = request[r].previous /\ q.record = request[r].record
      /\ q.saves = request[r].saves
  BY <1>1, Closed DEF Steps, Serving
<1> HIDE DEF q
<1>3. SameOf(q) = SameOf(request[r]) /\ NameOf(r, q) = NameOf(r, request[r])
  BY <1>2 DEF SameOf, NameOf
<1>4. Fits(r, q, port', record', bridge[r])
  BY <1>1, <1>2, <1>3, WaitingIs DEF Fits, Mine, Between, Exporting
<1>5. q.at \notin Exporting \cup Confirming BY <1>2 DEF Exporting, Confirming
<1> QED BY <1>1, <1>2, <1>4, <1>5, ServeKeepsQuietly

LEMMA FinishesKeeps ==
  ASSUME DeliveryInv, NEW r \in Deliveries, D!Finishes(r)
  PROVE  DeliveryInv' /\ CopyKept(r)
<1> DEFINE rec == [request[r].record EXCEPT !.status = "ready", !.ready = None]
           done == [request[r] EXCEPT !.record = rec, !.at = "leaves"]
<1>1. /\ request[r] \in Requests /\ request[r].at = "confirmed" /\ request[r].saves = <<>>
      /\ record \in Contents \cup {None}
      /\ D!Is(r, done) /\ (record' = rec \/ UNCHANGED record)
      /\ UNCHANGED <<approved, reference, recorded, dest, pid, port, bridge>>
  BY DEF D!Finishes, DeliveryInv, DeliveryType
<1>2. /\ request[r].kind \in Asking /\ port = r /\ request[r].record # None
      /\ Mine(r, request[r], request[r].record) /\ Mine(r, request[r], record)
      /\ ~request[r].closed /\ bridge[r] = "none"
  BY <1>1, WaitingIs
<1>3. request[r].record \in Busy BY <1>1, <1>2, RecordIs DEF Mine, Requests
<1>4. rec \in Ready /\ rec.status = "ready" /\ rec.name = request[r].record.name
  BY <1>3 DEF Ready, Busy, D!Ready, D!Busy, D!RecordsWith
<1> HIDE DEF rec
<1>5. rec \in Contents /\ rec # None BY <1>4, NoneIsNoRecord DEF Contents
<1>6. /\ done \in Requests /\ done.at = "leaves" /\ done.record = rec /\ done.kind = request[r].kind
      /\ done.previous = request[r].previous /\ done.saves = request[r].saves /\ done.closed = request[r].closed
      /\ SameVideos(done, request[r])
  <2>1. "leaves" \in Steps BY DEF Steps, Serving
  <2>2. done \in Requests BY <1>1, <1>5, <2>1 DEF Requests
  <2> QED BY <1>1, <2>2 DEF Requests, SameVideos
<1> HIDE DEF done
<1>7. Fits(r, done, port', record', bridge[r])
  BY <1>1, <1>2, <1>6 DEF Fits, Between, Exporting
<1>8. done.at \notin Exporting \cup Confirming BY <1>6 DEF Exporting, Confirming
<1>9. record' \in Contents \cup {None} BY <1>1, <1>5
<1>10. DeliveryInv' BY <1>1, <1>2, <1>6, <1>7, <1>8, <1>9, ServeKeepsQuietly
<1>11. CopyKept(r)
  <2>1. CASE UNCHANGED record BY <2>1 DEF CopyKept
  <2>2. CASE record' = rec
    <3>1. CopyOf(record') = rec.name BY <1>4, <1>5, <2>2 DEF CopyOf
    <3>2. CopyOf(record) = IF SameOf(request[r]) = None THEN None ELSE SameOf(request[r]).name BY <1>1, <1>2, MineIs
    <3>3. rec.name = NameOf(r, request[r]) BY <1>2, <1>4 DEF Mine
    <3> QED BY <3>1, <3>2, <3>3 DEF CopyKept, NameOf
  <2> QED BY <1>1, <2>1, <2>2
<1> QED BY <1>10, <1>11

\* A delivery that fails leaves the record of what was ready before, if that was not to be another.
LEMMA CatchesKeeps ==
  ASSUME DeliveryInv, NEW r \in Deliveries, D!Catches(r)
  PROVE  DeliveryInv' /\ CopyKept(r)
<1>0. Fits(r, request[r], port, record, bridge[r]) BY DEF DeliveryInv, RecordsInv
<1>1. /\ request[r] \in Requests /\ request[r].at = "catches" /\ request[r].saves = <<>>
      /\ record \in Contents \cup {None}
      /\ UNCHANGED <<approved, reference, recorded, dest, pid, port, bridge>>
  BY DEF D!Catches, DeliveryInv, DeliveryType
<1>2. request[r].kind \in Asking /\ port = r
  BY <1>0, <1>1 DEF Fits, Serving
<1>3. CASE request[r].record = None
  <2> DEFINE q == [request[r] EXCEPT !.at = "leaves"]
  <2>1. D!Is(r, q) /\ UNCHANGED record BY <1>3 DEF D!Catches, D!Goes
  <2>2. q \in Requests /\ q.at = "leaves" /\ SameDelivery(q, request[r]) /\ SameVideos(q, request[r])
    BY <1>1, Walked DEF Steps, Serving
  <2> HIDE DEF q
  <2>3. Fits(r, q, port', record', bridge[r])
    BY <1>0, <1>1, <1>2, <2>1, <2>2 DEF Fits, SameDelivery, Between, Exporting
  <2>4. q.at \notin Exporting \cup Confirming BY <2>2 DEF Exporting, Confirming
  <2>5. DeliveryInv' BY <1>1, <2>1, <2>2, <2>3, <2>4, ServeKeepsQuietly DEF SameDelivery
  <2> QED BY <2>1, <2>5 DEF CopyKept
<1>4. CASE request[r].record # None
  <2> DEFINE q == [request[r] EXCEPT !.at = "leaves", !.closed = TRUE]
  <2>1. D!Is(r, q) /\ (record' = D!Restored(r) \/ UNCHANGED record) BY <1>4 DEF D!Catches
  <2>2. /\ q \in Requests /\ q.at = "leaves" /\ SameVideos(q, request[r]) /\ q.closed
        /\ q.kind = request[r].kind /\ q.previous = request[r].previous /\ q.record = request[r].record
        /\ q.saves = request[r].saves
    BY <1>1, Closed DEF Steps, Serving
  <2> HIDE DEF q
  <2>3. Mine(r, request[r], request[r].record) /\ Mine(r, request[r], record)
    BY <1>0, <1>1, <1>4 DEF Fits
  <2>4. request[r].record \in Busy BY <1>1, <2>3, RecordIs DEF Mine, Requests
  <2>5. /\ D!Restored(r) \in Contents
        /\ SameOf(request[r]) # None => D!Restored(r) = SameOf(request[r])
    <3>1. D!Same(r) = SameOf(request[r]) /\ SameOf(request[r]) \in Ready \cup {None}
      BY <1>1, SameIs DEF D!Same, SameOf
    <3>2. [request[r].record EXCEPT !.status = "error"] \in Busy
      BY <2>4 DEF Busy, D!Busy, D!RecordsWith
    <3> QED BY <3>1, <3>2 DEF D!Restored, Contents
  <2>6. record' \in Contents \cup {None} BY <1>1, <2>1, <2>5
  <2>7. Fits(r, q, port', record', bridge[r])
    BY <1>0, <1>1, <1>2, <2>2 DEF Fits, Between, Exporting
  <2>8. q.at \notin Exporting \cup Confirming BY <2>2 DEF Exporting, Confirming
  <2>9. DeliveryInv' BY <1>1, <1>2, <2>1, <2>2, <2>6, <2>7, <2>8, ServeKeepsQuietly
  <2>10. CopyOf(record) = IF SameOf(request[r]) = None THEN None ELSE SameOf(request[r]).name BY <1>1, <2>3, MineIs
  <2>11. SameOf(request[r]) # None => CopyOf(SameOf(request[r])) = SameOf(request[r]).name
    <3>1. SameOf(request[r]) # None => SameOf(request[r]).status = "ready" BY DEF SameOf
    <3> QED BY <3>1 DEF CopyOf
  <2>12. CopyKept(r) BY <2>1, <2>5, <2>10, <2>11 DEF CopyKept
  <2> QED BY <2>9, <2>12
<1> QED BY <1>3, <1>4

LEMMA LeavesKeeps ==
  ASSUME DeliveryInv, NEW r \in Deliveries, D!Leaves(r)
  PROVE  DeliveryInv' /\ UNCHANGED record
<1> DEFINE q == [request[r] EXCEPT !.at = "done"]
<1>0. Fits(r, request[r], port, record, bridge[r]) BY DEF DeliveryInv, RecordsInv
<1>1. /\ request[r] \in Requests /\ request[r].at = "leaves" /\ D!Is(r, q) /\ record' \in Contents \cup {None}
      /\ UNCHANGED <<approved, reference, recorded, dest, record, pid, bridge>>
  BY DEF D!Leaves, D!Goes, D!files, DeliveryInv, DeliveryType
<1>2. request[r].kind \in Asking /\ port = r
  BY <1>0, <1>1 DEF Fits, Serving
<1>3. q \in Requests /\ q.at = "done" /\ SameDelivery(q, request[r]) /\ SameVideos(q, request[r])
  BY <1>1, Walked DEF Steps
<1> HIDE DEF q
<1>4. Fits(r, q, port', record', bridge[r])
  BY <1>0, <1>1, <1>3 DEF Fits, SameDelivery, Serving, Between, Exporting
<1>5. q.at \notin Exporting \cup Confirming BY <1>3 DEF Exporting, Confirming
<1> QED BY <1>1, <1>2, <1>3, <1>4, <1>5, ServeKeepsQuietly DEF SameDelivery

-----------------------------------------------------------------------------
(* The project, a crash, and the theorems.                                 *)

\* Videos are only ever recorded: what a request carries stays recorded.
LEMMA ProjectKeeps ==
  ASSUME DeliveryInv, D!Render \/ D!RecordPreview \/ D!Edit
  PROVE  DeliveryInv' /\ UNCHANGED record
<1>1. UNCHANGED <<dest, record, pid, port, request, bridge>>
  BY DEF D!Render, D!RecordPreview, D!Edit
<1>2. /\ approved' \in [artifact : Videos, over : BOOLEAN] /\ reference' \in Videos /\ recorded' \in SUBSET Videos
      /\ recorded \subseteq recorded' /\ approved'.artifact \in recorded'
  <2>1. CASE D!Render
    BY <2>1 DEF D!Render, DeliveryInv, DeliveryType, VideosInv, Videos
  <2>2. CASE D!RecordPreview
    BY <2>2 DEF D!RecordPreview, DeliveryInv, DeliveryType, VideosInv
  <2>3. CASE D!Edit
    <3>1. approved' = [approved EXCEPT !.over = TRUE] /\ UNCHANGED <<reference, recorded>> BY <2>3 DEF D!Edit
    <3> QED BY <3>1 DEF DeliveryInv, DeliveryType, VideosInv
  <2> QED BY <2>1, <2>2, <2>3
<1>3. RecordsInv' BY <1>1 DEF DeliveryInv, RecordsInv
<1>4. VideosInv' BY <1>1, <1>2 DEF DeliveryInv, VideosInv, CarriesVideos, D!Whole, D!Nowhere
<1>5. DeliveryType' BY <1>1, <1>2 DEF DeliveryInv, DeliveryType
<1> QED BY <1>1, <1>3, <1>4, <1>5 DEF DeliveryInv

\* A request that has not begun, or that a crash has ended.
LEMMA NewIs ==
  ASSUME NEW kind \in {"export", "confirm"} \cup Asking, NEW q,
         q = D!New(kind) \/ q = [D!New(kind) EXCEPT !.at = "done"]
  PROVE  /\ q \in Requests /\ q.kind = kind
         /\ \A videos : CarriesVideos(q, videos)
         /\ \A r, p, rec : Fits(r, q, p, rec, "none")
<1> DEFINE new == D!New(kind)
<1>1. /\ new \in Requests /\ new.at = "loads" /\ new.kind = kind /\ new.artifact = None /\ new.record = None
      /\ new.saves = <<>> /\ ~new.closed
  <2>1. "loads" \in Steps BY DEF Steps
  <2>2. new \in Requests BY <2>1 DEF D!New, Requests
  <2> QED BY <2>2 DEF D!New
<1> HIDE DEF new
<1>2. /\ q \in Requests /\ q.at \in {"loads", "done"} /\ q.kind = kind /\ q.artifact = None /\ q.record = None
      /\ q.saves = <<>> /\ ~q.closed
  <2>1. CASE q = new BY <1>1, <2>1
  <2>2. CASE q = [new EXCEPT !.at = "done"]
    <3>1. "done" \in Steps BY DEF Steps
    <3> QED BY <1>1, <2>2, <3>1, Walked DEF SameDelivery, SameVideos
  <2> QED BY <2>1, <2>2 DEF new
<1>3. \A videos : CarriesVideos(q, videos) BY <1>2 DEF CarriesVideos, Exporting, Confirming
<1>4. \A r, p, rec : Fits(r, q, p, rec, "none") BY <1>2 DEF Fits, Serving, Between, Exporting
<1> QED BY <1>2, <1>3, <1>4

LEMMA CrashKeeps ==
  ASSUME DeliveryInv, D!Crash
  PROVE  DeliveryInv' /\ UNCHANGED record
<1>1. /\ pid' = 2 /\ port' = None /\ bridge' = [r \in Deliveries |-> "none"]
      /\ request' = [r \in Deliveries |->
           IF request[r].at = "loads" THEN request[r] ELSE [D!New(request[r].kind) EXCEPT !.at = "done"]]
      /\ UNCHANGED <<approved, reference, recorded, dest, record>>
  BY DEF D!Crash, D!files
<1>2. ASSUME NEW r \in Deliveries
      PROVE  /\ request'[r] \in Requests /\ request'[r].kind = request[r].kind /\ CarriesVideos(request'[r], recorded)
             /\ Fits(r, request'[r], None, record, "none")
  <2>1. /\ request[r] \in Requests /\ CarriesVideos(request[r], recorded)
        /\ Fits(r, request[r], port, record, bridge[r])
    BY DEF DeliveryInv, DeliveryType, VideosInv, RecordsInv
  <2>2. CASE request[r].at = "loads"
    <3>1. request'[r] = request[r] BY <1>1, <2>2
    <3> QED BY <2>1, <2>2, <3>1 DEF Fits, Serving, Between, Exporting
  <2>3. CASE request[r].at # "loads"
    <3>1. request'[r] = [D!New(request[r].kind) EXCEPT !.at = "done"] BY <1>1, <2>3
    <3>2. request[r].kind \in {"export", "confirm"} \cup Asking BY <2>1 DEF Requests
    <3> QED BY <3>1, <3>2, NewIs
  <2> QED BY <2>2, <2>3
<1>3. request' \in [Deliveries -> Requests] BY <1>1, <1>2
<1>4. RecordsInv' BY <1>1, <1>2 DEF RecordsInv
<1>5. VideosInv' BY <1>1, <1>2 DEF DeliveryInv, VideosInv, D!Whole, D!Nowhere
<1>6. DeliveryType' BY <1>1, <1>3 DEF DeliveryInv, DeliveryType
<1> QED BY <1>1, <1>4, <1>5, <1>6 DEF DeliveryInv

LEMMA DeliveryBegins == D!Init => DeliveryInv
<1> SUFFICES ASSUME D!Init PROVE DeliveryInv
  OBVIOUS
<1>1. PICK kind \in [Deliveries -> {"export", "confirm", "open", "copy", "drp"}] : request = [r \in Deliveries |-> D!New(kind[r])]
  BY DEF D!Init
<1>2. /\ approved = [artifact |-> First, over |-> FALSE] /\ reference = First /\ recorded = {First}
      /\ dest \in {D!Nowhere, [D!Nowhere EXCEPT !.reference = First, !.manifest = First, !.confirmed = "pending"]}
      /\ record \in {None, D!Earlier, [D!Earlier EXCEPT !.status = "running"]}
      /\ pid = 1 /\ port = None /\ bridge = [r \in Deliveries |-> "none"]
  BY DEF D!Init
<1>3. ASSUME NEW r \in Deliveries
      PROVE  /\ request[r] \in Requests /\ CarriesVideos(request[r], recorded)
             /\ Fits(r, request[r], port, record, bridge[r])
  <2>1. kind[r] \in {"export", "confirm"} \cup Asking BY DEF Asking
  <2>2. request[r] = D!New(kind[r]) BY <1>1
  <2>3. bridge[r] = "none" BY <1>2
  <2> QED BY <2>1, <2>2, <2>3, NewIs
<1>4. RecordsInv BY <1>3 DEF RecordsInv
<1>5. First # None /\ "pending" # None /\ First \in Videos BY NoneOfThem DEF NoneIsNone, Videos
<1>6. dest \in Folders /\ dest.reference \in recorded \cup {None} /\ D!Together(dest)
  <2>1. CASE dest = D!Nowhere BY <2>1 DEF D!Nowhere, Folders, D!Together
  <2>2. CASE dest = [D!Nowhere EXCEPT !.reference = First, !.manifest = First, !.confirmed = "pending"]
    <3>1. dest = [reference |-> First, manifest |-> First, confirmed |-> "pending", package |-> FALSE]
      BY <2>2 DEF D!Nowhere
    <3>2. dest \in Folders BY <1>5, <3>1 DEF Folders
    <3>3. dest.reference \in recorded /\ D!Together(dest) BY <1>2, <1>5, <3>1 DEF D!Together
    <3> QED BY <3>2, <3>3
  <2> QED BY <1>2, <2>1, <2>2
<1>7. VideosInv BY <1>2, <1>3, <1>6 DEF VideosInv
<1>8. D!Earlier \in Contents /\ [D!Earlier EXCEPT !.status = "running"] \in Contents
  BY DEF D!Earlier, Contents, Ready, Busy, D!Ready, D!Busy, D!RecordsWith
<1>9. DeliveryType
  BY <1>1, <1>2, <1>3, <1>5, <1>6, <1>8 DEF DeliveryType
<1> QED BY <1>4, <1>7, <1>9 DEF DeliveryInv

\* The steps that leave the record alone, and what the others do to it.
LEMMA RequestStep ==
  ASSUME DeliveryInv, NEW r \in Deliveries,
         \/ D!Loads(r) \/ D!Checks(r) \/ D!Locks(r) \/ D!Signs(r) \/ D!Looks(r) \/ D!Clears(r)
         \/ D!Compares(r) \/ D!Packs(r) \/ D!Copies(r) \/ D!Validates(r) \/ D!Removes(r) \/ D!Renames(r) \/ D!Unlocks(r)
         \/ D!Confirms(r) \/ D!Publishes(r)
         \/ D!Listens(r) \/ D!Reads(r) \/ D!Records(r) \/ D!Event(r) \/ D!Saves(r) \/ D!Ends(r) \/ D!TimesOut(r)
         \/ D!Finishes(r) \/ D!Catches(r) \/ D!Leaves(r)
  PROVE  /\ DeliveryInv'
         /\ UNCHANGED record \/ (CopyKept(r) /\ request[r].at \notin {"loads", "done"})
<1>1. CASE D!Loads(r) \/ D!Checks(r) \/ D!Locks(r) \/ D!Signs(r) \/ D!Looks(r) \/ D!Clears(r) \/ D!Compares(r)
           \/ D!Packs(r) \/ D!Copies(r) \/ D!Validates(r) \/ D!Removes(r) \/ D!Renames(r) \/ D!Unlocks(r)
  <2>1. DeliveryInv'
    BY <1>1, LoadsKeeps, ChecksKeeps, LocksKeeps, SignsKeeps, LooksKeeps, ClearsKeeps, ComparesKeeps, PacksKeeps,
       CopiesKeeps, ValidatesKeeps, RemovesKeeps, RenamesKeeps, UnlocksKeeps
  <2>2. UNCHANGED record
    BY <1>1 DEF D!Loads, D!Checks, D!Locks, D!Signs, D!Looks, D!Clears, D!Compares, D!Packs, D!Copies, D!Validates,
       D!Removes, D!Renames, D!Unlocks, D!files
  <2> QED BY <2>1, <2>2
<1>2. CASE D!Confirms(r) \/ D!Publishes(r) \/ D!Listens(r) \/ D!Reads(r)
  <2>1. DeliveryInv' BY <1>2, ConfirmsKeeps, PublishesKeeps, ListensKeeps, ReadsKeeps
  <2>2. UNCHANGED record BY <1>2 DEF D!Confirms, D!Publishes, D!Listens, D!Reads, D!files
  <2> QED BY <2>1, <2>2
<1>3. CASE D!Event(r) \/ D!Ends(r) \/ D!TimesOut(r) \/ D!Leaves(r)
  BY <1>3, EventKeeps, EndsKeeps, TimesOutKeeps, LeavesKeeps
<1>4. CASE D!Records(r) \/ D!Saves(r) \/ D!Finishes(r) \/ D!Catches(r)
  <2>1. DeliveryInv' /\ CopyKept(r) BY <1>4, RecordsStepKeeps, SavesKeeps, FinishesKeeps, CatchesKeeps
  <2>2. request[r].at \notin {"loads", "done"}
    <3>1. Fits(r, request[r], port, record, bridge[r]) BY DEF DeliveryInv, RecordsInv
    <3> QED BY <1>4, <3>1 DEF Fits, D!Records, D!Saves, D!Finishes, D!Catches
  <2> QED BY <2>1, <2>2
<1> QED BY <1>1, <1>2, <1>3, <1>4

LEMMA DeliveryStep ==
  ASSUME DeliveryInv, D!Next
  PROVE  /\ DeliveryInv'
         /\ CopyOf(record) # None /\ (\A r \in Deliveries : request[r].kind = "copy" => request[r].at \in {"loads", "done"})
              => CopyOf(record') = CopyOf(record)
<1>1. CASE D!Render \/ D!RecordPreview \/ D!Edit \/ D!Crash
  BY <1>1, ProjectKeeps, CrashKeeps
<1>2. CASE ~(D!Render \/ D!RecordPreview \/ D!Edit \/ D!Crash)
  <2>1. PICK r \in Deliveries :
         \/ D!Loads(r) \/ D!Checks(r) \/ D!Locks(r) \/ D!Signs(r) \/ D!Looks(r) \/ D!Clears(r)
         \/ D!Compares(r) \/ D!Packs(r) \/ D!Copies(r) \/ D!Validates(r) \/ D!Removes(r) \/ D!Renames(r) \/ D!Unlocks(r)
         \/ D!Confirms(r) \/ D!Publishes(r)
         \/ D!Listens(r) \/ D!Reads(r) \/ D!Records(r) \/ D!Event(r) \/ D!Saves(r) \/ D!Ends(r) \/ D!TimesOut(r)
         \/ D!Finishes(r) \/ D!Catches(r) \/ D!Leaves(r)
    BY <1>2 DEF D!Next
  <2>2. DeliveryInv' /\ (UNCHANGED record \/ (CopyKept(r) /\ request[r].at \notin {"loads", "done"}))
    BY <2>1, RequestStep
  <2> QED BY <2>2 DEF CopyKept
<1> QED BY <1>1, <1>2

LEMMA DeliveryStutters == DeliveryInv /\ UNCHANGED dVars => DeliveryInv'
  BY DEF dVars, DeliveryInv, DeliveryType, VideosInv, RecordsInv, D!Together

LEMMA DeliveryAlways == WorkSpec => []DeliveryInv
<1>1. WorkInit => DeliveryInv
  BY DeliveryBegins DEF WorkInit
<1>2. DeliveryInv /\ [WorkNext]_<<part, vars, tVars, dVars>> => DeliveryInv'
  BY DeliveryStep, DeliveryStutters DEF WorkNext
<1> QED BY <1>1, <1>2, PTL DEF WorkSpec

\* What passes for whole in exports/ is of a video the project has recorded, and what stands there, whole or half
\* removed by an export that failed or died, never mixes two of them while nobody confirms; for any number of exports,
\* confirmations and deliveries at once, whatever is rendered meanwhile (exportApprovedOperation).
THEOREM DeliveredVideosWereRecorded == WorkSpec => []DeliveredWasRecorded
<1>1. DeliveryInv => DeliveredWasRecorded
  BY DEF DeliveryInv, VideosInv, DeliveredWasRecorded, D!DeliveredWasRecorded, D!Whole, D!Together
<1> QED BY <1>1, DeliveryAlways, PTL

\* A delivery that reads the record finds none under way: it has the port that such a one would have
\* (readDelivery, the lock of deliverToResolve).
THEOREM InterruptedDeliveriesOpenAgain == WorkSpec => []OpensAgain
<1>1. DeliveryInv => OpensAgain
  <2> SUFFICES ASSUME DeliveryInv, NEW r \in Deliveries, request[r].at = "reads", D!Read(record) # None,
                      D!Read(record).status = "running"
               PROVE  FALSE
    BY DEF OpensAgain, D!OpensAgain
  <2>1. port = r /\ request[r].record = None
    BY DEF DeliveryInv, RecordsInv, Fits, Serving
  <2>2. record \in Contents /\ record.status = "running" /\ D!Active(record)
    <3>1. CASE record # None /\ record.status # "running" BY <3>1 DEF D!Read
    <3>2. CASE record # None /\ record.status = "running"
      <4>1. record \in Busy /\ record.ready \in Ready \cup {None} BY <3>2, RecordIs DEF DeliveryInv, DeliveryType
      <4>2. [record EXCEPT !.status = "error"].status = "error"
        BY <4>1 DEF Busy, D!Busy, D!RecordsWith
      <4>3. record.ready # None => record.ready.status = "ready" BY <4>1 DEF Ready, D!Ready, D!RecordsWith
      <4> QED BY <3>2, <4>1, <4>2, <4>3 DEF D!Read, D!Interrupted, Contents
    <3>3. record # None BY DEF D!Read
    <3> QED BY <3>1, <3>2, <3>3
  <2> DEFINE s == record.op
  <2>3. s \in Deliveries /\ request[s].record # None /\ request[s].at # "done"
    <3>1. s \in Deliveries \cup {None} BY <2>2, RecordIs DEF Busy, D!Busy, D!RecordsWith
    <3> QED BY <2>2, <3>1 DEF D!Active
  <2>4. Fits(s, request[s], port, record, bridge[s]) BY <2>3 DEF DeliveryInv, RecordsInv
  <2>5. port = s BY <2>3, <2>4 DEF Fits, Serving
  <2> QED BY <2>1, <2>3, <2>5
<1> QED BY <1>1, DeliveryAlways, PTL

\* Whoever reads the record, and whether or not its operation is still under way, names the same copy.
CopyIsThere == D!Copy = CopyOf(record)

LEMMA CopyIs == DeliveryInv => CopyIsThere
<1> SUFFICES ASSUME DeliveryInv PROVE D!Copy = CopyOf(record)
  BY DEF CopyIsThere
<1>1. CASE record = None BY <1>1 DEF D!Copy, D!Read, CopyOf
<1>2. CASE record # None /\ record.status # "running"
  BY <1>2 DEF D!Copy, D!Read, CopyOf
<1>3. CASE record # None /\ record.status = "running"
  <2>1. record \in Busy /\ record.ready \in Ready \cup {None} BY <1>3, RecordIs DEF DeliveryInv, DeliveryType
  <2>2. [record EXCEPT !.status = "error"].status = "error"
    BY <2>1 DEF Busy, D!Busy, D!RecordsWith
  <2>3. record.ready # None => record.ready.status = "ready" BY <2>1 DEF Ready, D!Ready, D!RecordsWith
  <2> QED BY <1>3, <2>2, <2>3 DEF D!Copy, D!Read, CopyOf
<1> QED BY <1>1, <1>2, <1>3

\* The copy in Resolve that a later request would open stays what it is, through failures, time-outs and
\* a crash, until somebody asks for another (deliverToResolve, its catch).
THEOREM TheCopyIsKept == WorkSpec => KeepsTheCopy
<1>1. DeliveryInv /\ [WorkNext]_<<part, vars, tVars, dVars>> /\ CopyIsThere /\ CopyIsThere'
        => [D!Copy # None /\ (\A r \in Deliveries : request[r].kind = "copy" => request[r].at \in {"loads", "done"})
              => (D!Copy)' = D!Copy]_(D!vars)
  BY DeliveryStep DEF WorkNext, dVars, D!vars, CopyOf, CopyIsThere
<1>2. WorkSpec => []CopyIsThere
  BY CopyIs, DeliveryAlways, PTL
<1> QED BY <1>1, <1>2, DeliveryAlways, PTL DEF WorkSpec, KeepsTheCopy, D!KeepsTheCopy
=============================================================================
