------------------------- MODULE EditingParts_proofs -------------------------
(***************************************************************************)
(* For any number of browsers, moments, corrections, undos and restarts:   *)
(* corrections never overlap, and aligned words lie inside the correction  *)
(* they belong to. StoreInv says why: every set of corrections there is -  *)
(* in the project, in a photo, in the hands of a request - is sound, and a *)
(* request whose revision is still current loaded the ids that are there,  *)
(* so that a merge is the set the request submits.                         *)
(*                                                                         *)
(* For any pages and requests: a fresh reservation changes hands by        *)
(* Assumir Edição only.                                                    *)
(***************************************************************************)
EXTENDS EditingParts, TLAPS

\* No overlap, and aligned words inside.
Sound(s) ==
  /\ \A a, b \in s : a.region \cap b.region # {} => a = b
  /\ \A item \in s : item.status = "aligned" => item.words.region \subseteq item.region

Total == texts + undos + saves

CountersInv ==
  /\ texts \in 0 .. MaxTexts /\ undos \in 0 .. MaxUndos
  /\ saves \in 0 .. MaxSaves /\ faults \in Nat

ProjectInv ==
  /\ project.rev \in Nat /\ project.rev <= Total
  /\ project.steps \in Seq(Revisions)
  /\ Sound(project.corrections)

HistoryInv ==
  /\ history = [n \in Revisions |-> history[n]]
  /\ \A n \in Revisions : Sound(history[n])

\* What holds of a request between its load and its save.
UnderWay(r) ==
  /\ r.rev \in Nat /\ r.rev <= project.rev /\ r.rev < Total
  /\ Sound(r.corrections)
  /\ r.rev = project.rev => IdsOf(r.corrections) = IdsOf(project.corrections)

ReqInv ==
  /\ req = [c \in Client |-> req[c]]
  /\ \A c \in Client : req[c].step # "idle" => UnderWay(req[c])

StoreInv == CountersInv /\ ProjectInv /\ HistoryInv /\ ReqInv

-----------------------------------------------------------------------------
(* Operators.                                                              *)

\* A merge with a set that has the loaded ids is the submitted set.
LEMMA MergeIsSubmitted ==
  ASSUME NEW current, NEW next, NEW base, IdsOf(base) = IdsOf(current)
  PROVE  MergeCorrections(current, next, base) = next
<1>1. \A item \in current : item.id \in IdsOf(base)
  BY DEF IdsOf
<1>2. \A item \in current :
        item.id \in (IdsOf(base) \ IdsOf(next)) \cup IdsOf(next)
  BY <1>1
<1> QED BY <1>2 DEF MergeCorrections

\* A new correction in a set that is sound leaves it sound: a correction it
\* does not overlap does not overlap those it takes in either.
LEMMA ApplySound ==
  ASSUME NEW s, NEW region, NEW text, Sound(s)
  PROVE  Sound(ApplyCorrect(s, region, text))
<1> DEFINE overlapping == {item \in s : item.region \cap region # {}}
           whole == region \cup UNION {item.region : item \in overlapping}
           new == [id |-> MintedId(s), region |-> whole, text |-> text,
                   status |-> "pending", words |-> NoWords]
           kept == s \ overlapping
<1>1. ApplyCorrect(s, region, text) = kept \cup {new}
  BY DEF ApplyCorrect
<1>2. new.region = whole /\ new.status = "pending"
  OBVIOUS
<1>3. ASSUME NEW item \in kept PROVE item \in s /\ item.region \cap whole = {}
  <2>1. item \in s /\ item.region \cap region = {}
    OBVIOUS
  <2>2. \A other \in overlapping : other \in s /\ other # item
    OBVIOUS
  <2>3. \A other \in overlapping : item.region \cap other.region = {}
    BY <2>1, <2>2 DEF Sound
  <2> HIDE DEF overlapping
  <2> QED BY <2>1, <2>3
<1> HIDE DEF new, kept, whole
<1> QED BY <1>1, <1>2, <1>3 DEF Sound

\* What a handler submits is sound when what it loaded is.
LEMMA SubmittedSound ==
  ASSUME NEW r, Sound(r.corrections)
  PROVE  Sound(Submitted(r))
  BY ApplySound DEF Submitted

\* Publishing a job's outcome keeps ids and regions, and gives a correction
\* only words of its own region.
LEMMA PublishedItem ==
  ASSUME NEW id, NEW item, NEW moments
  PROVE  LET new == Published(id, item, moments)
         IN /\ new.id = item.id /\ new.region = item.region
            /\ new # item /\ new.status = "aligned" => new.words.region \subseteq new.region
<1> DEFINE found == [region |-> moments, text |-> job[id].text]
<1>1. CASE item.id # id \/ item.status # "pending"
  BY <1>1 DEF Published
<1>2. CASE item.id = id /\ item.status = "pending"
  <2>1. Published(id, item, moments) = Settled(item, found)
    BY <1>2 DEF Published
  <2>2. /\ Settled(item, found).id = item.id
        /\ Settled(item, found).region = item.region
        /\ Settled(item, found).status = "aligned" =>
             Settled(item, found).words.region \subseteq item.region
    BY DEF Settled, WithOutcome
  <2> QED BY <2>1, <2>2
<1> QED BY <1>1, <1>2

LEMMA PublishedSound ==
  ASSUME NEW id, NEW moments, NEW s, Sound(s)
  PROVE  LET t == {Published(id, item, moments) : item \in s}
         IN Sound(t) /\ IdsOf(t) = IdsOf(s)
<1> DEFINE P(item) == Published(id, item, moments)
           t == {P(item) : item \in s}
<1>1. \A item \in s : /\ P(item).id = item.id /\ P(item).region = item.region
                      /\ P(item) # item /\ P(item).status = "aligned" =>
                           P(item).words.region \subseteq P(item).region
  BY PublishedItem
<1> HIDE DEF P
<1>2. Sound(t)
  BY <1>1 DEF Sound
<1>3. IdsOf(t) = IdsOf(s)
  BY <1>1 DEF IdsOf
<1> QED BY <1>2, <1>3 DEF P

LEMMA RevisionsNat == /\ \A n \in Revisions : n \in Nat
                      /\ \A n \in Nat : n <= MaxTexts + MaxUndos + MaxSaves => n \in Revisions
  BY CorrectionsAssumption DEF Revisions

-----------------------------------------------------------------------------
(* The invariant.                                                          *)

LEMMA StoreInit == Init => StoreInv
<1> SUFFICES ASSUME Init PROVE StoreInv
  OBVIOUS
<1>1. CountersInv
  BY CorrectionsAssumption DEF Init, CountersInv
<1>2. ProjectInv
  BY CorrectionsAssumption DEF Init, ProjectInv, Sound, Total
<1>3. HistoryInv
  BY DEF Init, HistoryInv, Sound
<1>4. ReqInv
  BY DEF Init, ReqInv, NoRequest
<1> QED BY <1>1, <1>2, <1>3, <1>4 DEF StoreInv

\* A request that has just loaded the project holds what is there.
LEMMA LoadedRequest ==
  ASSUME StoreInv, NEW c \in Client, NEW new, req' = [req EXCEPT ![c] = new],
         new.rev = project.rev, new.corrections = project.corrections,
         project' = project, Total' = Total + 1
  PROVE  ReqInv'
<1>1. \A d \in Client : req'[d] = IF d = c THEN new ELSE req[d]
  BY DEF StoreInv, ReqInv
<1>2. Total \in Nat /\ project.rev \in Nat /\ project.rev <= Total /\ Sound(project.corrections)
  BY CorrectionsAssumption DEF StoreInv, CountersInv, ProjectInv, Total
<1>3. ASSUME NEW d \in Client, req'[d].step # "idle" PROVE UnderWay(req[d])'
  <2>1. CASE d = c
    <3>1. req'[d].rev = project.rev /\ req'[d].corrections = project.corrections
      BY <1>1, <2>1
    <3> QED BY <1>2, <3>1 DEF UnderWay
  <2>2. CASE d # c
    <3>1. req'[d] = req[d] /\ UnderWay(req[d])
      BY <1>1, <1>3, <2>2 DEF StoreInv, ReqInv
    <3> QED BY <1>2, <3>1 DEF UnderWay
  <2> QED BY <2>1, <2>2
<1>4. req' = [d \in Client |-> req'[d]]
  BY DEF StoreInv, ReqInv
<1> QED BY <1>3, <1>4 DEF ReqInv

LEMMA StoreStep == StoreInv /\ [Next]_vars => StoreInv'
<1> SUFFICES ASSUME StoreInv, [Next]_vars PROVE StoreInv'
  OBVIOUS
<1> USE CorrectionsAssumption
<1>1. ASSUME NEW c \in Client, NEW region \in Region, LoadCorrect(c, region)
      PROVE  StoreInv'
  <2>1. Total' = Total + 1 /\ project' = project
    BY <1>1 DEF LoadCorrect, StoreInv, CountersInv, Total
  <2>2. CountersInv' /\ Total \in Nat
    BY <1>1 DEF LoadCorrect, StoreInv, CountersInv, Total
  <2>3. ProjectInv'
    BY <2>1, <2>2 DEF StoreInv, ProjectInv
  <2>4. HistoryInv'
    BY <1>1, <2>1, <2>2 DEF LoadCorrect, StoreInv, HistoryInv
  <2> DEFINE new == [step |-> "photo", kind |-> "Correct", region |-> region, text |-> texts + 1,
                     rev |-> project.rev, corrections |-> project.corrections]
  <2>5. req' = [req EXCEPT ![c] = new]
    BY <1>1 DEF LoadCorrect
  <2>6. new.rev = project.rev /\ new.corrections = project.corrections
    OBVIOUS
  <2> HIDE DEF new
  <2>7. ReqInv'
    BY <2>1, <2>5, <2>6, LoadedRequest
  <2> QED BY <2>2, <2>3, <2>4, <2>7 DEF StoreInv
<1>2. ASSUME NEW c \in Client, NEW kind, LoadOther(c, kind)
      PROVE  StoreInv'
  <2>1. Total' = Total + 1 /\ project' = project
    BY <1>2 DEF LoadOther, StoreInv, CountersInv, Total
  <2>2. CountersInv' /\ Total \in Nat
    BY <1>2 DEF LoadOther, StoreInv, CountersInv, Total
  <2>3. ProjectInv'
    BY <2>1, <2>2 DEF StoreInv, ProjectInv
  <2>4. HistoryInv'
    BY <1>2, <2>1, <2>2 DEF LoadOther, StoreInv, HistoryInv
  <2> DEFINE step == IF kind = "Cut" THEN "photo" ELSE "ready"
             new == [step |-> step, kind |-> kind, region |-> {}, text |-> 0,
                     rev |-> project.rev, corrections |-> project.corrections]
  <2>5. req' = [req EXCEPT ![c] = new]
    BY <1>2 DEF LoadOther
  <2>6. new.rev = project.rev /\ new.corrections = project.corrections
    OBVIOUS
  <2> HIDE DEF new
  <2>7. ReqInv'
    BY <2>1, <2>5, <2>6, LoadedRequest
  <2> QED BY <2>2, <2>3, <2>4, <2>7 DEF StoreInv
<1>3. ASSUME NEW c \in Client, Photograph(c) PROVE StoreInv'
  <2>1. UnderWay(req[c])
    BY <1>3 DEF Photograph, StoreInv, ReqInv
  <2>2. CountersInv' /\ ProjectInv'
    BY <1>3 DEF Photograph, StoreInv, CountersInv, ProjectInv, Total, counters
  <2>3. HistoryInv'
    BY <1>3, <2>1 DEF Photograph, StoreInv, HistoryInv, UnderWay
  <2>4. ReqInv'
    BY <1>3, <2>1 DEF Photograph, StoreInv, ReqInv, UnderWay, Total, counters
  <2> QED BY <2>2, <2>3, <2>4 DEF StoreInv
<1>4. ASSUME NEW c \in Client, Save(c) PROVE StoreInv'
  <2>1. UnderWay(req[c]) /\ UNCHANGED <<history, counters>>
    BY <1>4 DEF Save, StoreInv, ReqInv
  <2>2. CountersInv' /\ HistoryInv' /\ Total' = Total
    BY <2>1 DEF StoreInv, CountersInv, HistoryInv, Total, counters
  <2>3. req' = [req EXCEPT ![c] = NoRequest]
    BY <1>4 DEF Save
  <2>4. CASE req[c].rev # project.rev
    <3>1. project' = project
      BY <1>4, <2>4 DEF Save
    <3> QED BY <2>2, <2>3, <3>1
            DEF StoreInv, ProjectInv, ReqInv, UnderWay, NoRequest
  <2>5. CASE req[c].rev = project.rev
    <3> DEFINE next == Submitted(req[c])
               steps == IF req[c].kind # "Keep" THEN Append(project.steps, req[c].rev)
                        ELSE project.steps
               rev == IF req[c].kind # "Keep" THEN req[c].rev + 1 ELSE req[c].rev
    <3>1. MergeCorrections(project.corrections, next, req[c].corrections) = next
      BY <2>1, <2>5, MergeIsSubmitted DEF UnderWay
    <3>2. project' = [rev |-> rev, corrections |-> next, steps |-> steps]
      BY <1>4, <2>5, <3>1 DEF Save
    <3>3. Sound(next)
      BY <2>1, SubmittedSound DEF UnderWay
    <3>4. rev \in Nat /\ rev <= Total /\ rev >= project.rev
      BY <2>1, <2>5 DEF UnderWay, Total, StoreInv, CountersInv, ProjectInv
    <3>5. steps \in Seq(Revisions)
      <4>1. req[c].rev \in Revisions
        BY <2>1, RevisionsNat DEF UnderWay, Total, StoreInv, CountersInv
      <4> QED BY <4>1 DEF StoreInv, ProjectInv
    <3>6. ProjectInv'
      <4> HIDE DEF next, steps, rev
      <4> QED BY <2>2, <3>2, <3>3, <3>4, <3>5 DEF ProjectInv
    <3>7. req[c].kind = "Keep" =>
            rev = project.rev /\ IdsOf(next) = IdsOf(project.corrections)
      BY <2>1, <2>5 DEF UnderWay, Submitted
    <3>8. req[c].kind # "Keep" => rev = project.rev + 1
      BY <2>5
    <3>9. ReqInv'
      <4> HIDE DEF next, steps, rev
      <4>1. project'.rev = rev /\ project'.corrections = next
        BY <3>2
      <4>2. ASSUME NEW d \in Client, req'[d].step # "idle" PROVE UnderWay(req[d])'
        <5>1. d # c /\ req'[d] = req[d]
          BY <2>3, <4>2 DEF NoRequest, StoreInv, ReqInv
        <5>2. UnderWay(req[d])
          BY <4>2, <5>1 DEF StoreInv, ReqInv
        <5> QED BY <2>2, <3>4, <3>7, <3>8, <4>1, <5>1, <5>2
                DEF UnderWay, StoreInv, ProjectInv
      <4> QED BY <2>3, <4>2 DEF ReqInv, StoreInv
    <3> QED BY <2>2, <3>6, <3>9 DEF StoreInv
  <2> QED BY <2>4, <2>5
<1>5. CASE Undo
  <2>1. Last(project.steps) \in Revisions /\ Front(project.steps) \in Seq(Revisions)
    BY <1>5 DEF Undo, StoreInv, ProjectInv, Last, Front
  <2>2. /\ project'.rev = project.rev + 1
        /\ project'.corrections = history[Last(project.steps)]
        /\ project'.steps = Front(project.steps)
    BY <1>5 DEF Undo
  <2>3. CountersInv' /\ HistoryInv' /\ Total' = Total + 1 /\ req' = req
    BY <1>5 DEF Undo, StoreInv, CountersInv, HistoryInv, Total
  <2>4. ProjectInv'
    <3>1. Sound(project'.corrections)
      BY <2>1, <2>2 DEF StoreInv, HistoryInv
    <3>2. project'.rev \in Nat /\ project'.rev <= Total'
      <4>1. Total \in Nat /\ project.rev \in Nat /\ project.rev <= Total
        BY DEF StoreInv, ProjectInv, CountersInv, Total
      <4> QED BY <2>2, <2>3, <4>1
    <3>3. project'.steps \in Seq(Revisions)
      BY <2>1, <2>2
    <3> QED BY <3>1, <3>2, <3>3 DEF ProjectInv
  <2>5. ReqInv'
    <3>1. Total \in Nat
      BY DEF StoreInv, CountersInv, Total
    <3>2. ASSUME NEW c \in Client, req'[c].step # "idle" PROVE UnderWay(req[c])'
      <4>1. UnderWay(req[c]) /\ req'[c] = req[c]
        BY <2>3, <3>2 DEF StoreInv, ReqInv
      <4>2. req[c].rev # project'.rev /\ req[c].rev <= project'.rev /\ req[c].rev < Total'
        BY <2>2, <2>3, <3>1, <4>1 DEF UnderWay, StoreInv, ProjectInv
      <4> QED BY <4>1, <4>2 DEF UnderWay
    <3> QED BY <2>3, <3>2 DEF ReqInv, StoreInv
  <2> QED BY <2>3, <2>4, <2>5 DEF StoreInv
<1>6. ASSUME NEW id \in Ids, JobPublish(id) PROVE StoreInv'
  <2>1. PICK moments \in SUBSET job[id].region :
          project' = [rev |-> project.rev, steps |-> project.steps,
            corrections |-> {Published(id, item, moments) : item \in project.corrections}]
    BY <1>6 DEF JobPublish
  <2> DEFINE t == {Published(id, item, moments) : item \in project.corrections}
  <2>2. Sound(t) /\ IdsOf(t) = IdsOf(project.corrections)
    <3>1. Sound(project.corrections)
      BY DEF StoreInv, ProjectInv
    <3> QED BY <3>1, PublishedSound
  <2>3. project'.rev = project.rev /\ project'.steps = project.steps /\ project'.corrections = t
    BY <2>1
  <2>4. UNCHANGED <<history, req, counters>>
    BY <1>6 DEF JobPublish
  <2> HIDE DEF t
  <2>5. CountersInv' /\ HistoryInv' /\ Total' = Total
    BY <2>4 DEF StoreInv, CountersInv, HistoryInv, Total, counters
  <2>6. ProjectInv' /\ ReqInv'
    BY <2>2, <2>3, <2>4, <2>5 DEF StoreInv, ProjectInv, ReqInv, UnderWay
  <2> QED BY <2>5, <2>6 DEF StoreInv
<1>7. ASSUME NEW id \in Ids, Resume(id) \/ JobLoad(id) PROVE StoreInv'
  <2>1. UNCHANGED <<project, history, req, counters>>
    BY <1>7 DEF Resume, JobLoad
  <2> QED BY <2>1 DEF StoreInv, CountersInv, ProjectInv, HistoryInv, ReqInv, UnderWay,
                      Total, counters
<1>8. ASSUME NEW id \in Ids, JobInterrupted(id) PROVE StoreInv'
  <2>1. UNCHANGED <<project, history, req, texts, undos, saves>> /\ faults' = faults + 1
    BY <1>8 DEF JobInterrupted
  <2> QED BY <2>1 DEF StoreInv, CountersInv, ProjectInv, HistoryInv, ReqInv, UnderWay, Total
<1>9. CASE Restart
  <2>1. UNCHANGED <<project, history, texts, undos, saves>> /\ faults' = faults + 1
    BY <1>9 DEF Restart
  <2>2. req' = [c \in Client |-> NoRequest]
    BY <1>9 DEF Restart
  <2>3. CountersInv' /\ ProjectInv' /\ HistoryInv'
    BY <2>1 DEF StoreInv, CountersInv, ProjectInv, HistoryInv, Total
  <2> QED BY <2>2, <2>3 DEF StoreInv, ReqInv, NoRequest
<1>10. CASE UNCHANGED vars
  BY <1>10 DEF vars, StoreInv, CountersInv, ProjectInv, HistoryInv, ReqInv, UnderWay,
               Total, counters
<1> QED BY <1>1, <1>2, <1>3, <1>4, <1>5, <1>6, <1>7, <1>8, <1>9, <1>10 DEF Next

LEMMA StoreHolds == Spec => []StoreInv
  BY StoreInit, StoreStep, PTL DEF Spec

\* Corrections of a project never overlap (droppedCorrections).
THEOREM CorrectionsNeverOverlap == Spec => []NoOverlap
<1>1. StoreInv => NoOverlap
  BY DEF StoreInv, ProjectInv, Sound, NoOverlap
<1> QED BY <1>1, StoreHolds, PTL

\* Aligned words lie inside the interval of their correction (settleCorrection).
THEOREM AlignedWordsStayInside == Spec => []AlignedInsideInterval
<1>1. StoreInv => AlignedInsideInterval
  BY DEF StoreInv, ProjectInv, Sound, AlignedInsideInterval
<1> QED BY <1>1, StoreHolds, PTL

-----------------------------------------------------------------------------
(* The reservation.                                                        *)

\* The reservation is an id and an age, whenever somebody has it.
LeaseInv == file # Nobody => file = [id |-> file.id, age |-> file.age]

LEMMA OwnedIs ==
  ASSUME NEW r, E!Owns(r) PROVE LeaseInv' /\ (file' # Nobody => file'.id = r.id)
  BY DEF E!Owns, LeaseInv

\* What a step may do with a reservation whose signal is fresh.
Hands == \A p \in Page :
       file # Nobody /\ file.age <= TTL /\ file' # Nobody /\ file'.id # file.id
         => \E q \in Page : sent[q]["take"].step = "sent" /\ sent[q]["take"].id = file'.id

\* obter looks and writes in one section: it renews, or takes what is not held.
LEMMA ObterKeeps ==
  ASSUME LeaseInv, NEW p, NEW k, E!Obter(p, k)
  PROVE  LeaseInv' /\ (file # Nobody /\ file.age <= TTL /\ file' # Nobody => file'.id = file.id)
<1>1. CASE E!HeldByOther(sent[p][k])
  BY <1>1 DEF E!Obter, LeaseInv
<1>2. CASE ~E!HeldByOther(sent[p][k])
  BY <1>2, OwnedIs DEF E!Obter, E!HeldByOther
<1> QED BY <1>1, <1>2

\* The sections of a heartbeat, a takeover and a release, wherever the others are.
LEMMA SectionKeeps ==
  ASSUME LeaseInv, NEW p \in Page, E!Section(p)
  PROVE  LeaseInv' /\ Hands
<1>1. CASE E!Obter(p, "acquire") \/ E!Obter(p, "beat")
  BY <1>1, ObterKeeps DEF Hands
<1>2. CASE E!Sinal(p)
  BY <1>2, OwnedIs DEF E!Sinal, E!HeldByOther, Hands, LeaseInv
<1>3. CASE sent[p]["take"].step = "sent" /\ E!Owns(sent[p]["take"])
  BY <1>3, OwnedIs DEF Hands
<1>4. CASE file' = IF file # Nobody /\ file.id = sent[p]["release"].id THEN Nobody ELSE file
  BY <1>4 DEF Hands, LeaseInv
<1> QED BY <1>1, <1>2, <1>3, <1>4 DEF E!Section

LEMMA LeaseStep == LeaseInv /\ [EditingNext]_<<part, vars, eVars>> => LeaseInv' /\ Hands
<1> SUFFICES ASSUME LeaseInv, [EditingNext]_<<part, vars, eVars>> PROVE LeaseInv' /\ Hands
  OBVIOUS
<1>1. CASE UNCHANGED file
  BY <1>1 DEF LeaseInv, Hands
<1>2. CASE E!Next
  <2>1. ASSUME NEW p \in Page, E!Section(p) PROVE LeaseInv' /\ Hands
    BY <2>1, SectionKeeps
  <2>2. CASE E!Tick
    BY <2>2 DEF E!Tick, LeaseInv, Hands
  <2>3. ASSUME NEW p \in Page,
               E!Open(p) \/ E!Resume(p) \/ E!Take(p) \/ E!Hide(p) \/ E!Acquire(p) \/ E!Beat(p)
               \/ \E k \in E!Kind : E!Reply(p, k) \/ E!Lose(p, k)
        PROVE  UNCHANGED file
    BY <2>3 DEF E!Open, E!Resume, E!Take, E!Hide, E!Acquire, E!Beat, E!Reply, E!Lose
  <2>4. ASSUME NEW m \in hail, E!Discard(m) \/ E!Hello(m) \/ E!Conflict(m) PROVE UNCHANGED file
    BY <2>4 DEF E!Discard, E!Hello, E!Conflict
  <2> QED BY <1>1, <1>2, <2>1, <2>2, <2>3, <2>4 DEF E!Next
<1> QED BY <1>1, <1>2 DEF EditingNext, eVars

\* A fresh reservation changes hands by Assumir Edição only (obter and sinal of
\* edit-reservation.ts), whatever is late, lost, or sent with a copied id.
THEOREM FreshLeaseHolds == EditingSpec => LeaseHolds
<1>1. EditingInit => LeaseInv
  BY DEF EditingInit, E!Init, LeaseInv
<1>2. Hands => [\A p \in Page :
       file # Nobody /\ file.age <= TTL /\ file' # Nobody /\ file'.id # file.id
         => \E q \in Page : sent[q]["take"].step = "sent" /\ sent[q]["take"].id = file'.id]_<<file, E!pages, sent, hail, events>>
  BY DEF Hands
<1> QED BY <1>1, <1>2, LeaseStep, PTL DEF EditingSpec, LeaseHolds, E!LeaseHolds, E!vars
=============================================================================
