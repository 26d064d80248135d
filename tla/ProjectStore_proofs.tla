------------------------- MODULE ProjectStore_proofs -------------------------
(***************************************************************************)
(* For any number of browsers, requests, background results and crashes:   *)
(* a readable project, no lost change, no approval of what nobody watched, *)
(* no decision taken back by a save of the same revision, and an undo      *)
(* button that is an undo stack.                                           *)
(*                                                                         *)
(* StoreInv says why. Whatever a request holds is a project that was there *)
(* and that the present one follows: a later revision, or the same one     *)
(* with the same content and, once rendered, the same artifact. So a save  *)
(* that passes the revision check is computed from the present content.    *)
(* And the copy is the project itself between the two publications of a    *)
(* save, so that a crash in the second one loses nothing.                  *)
(*                                                                         *)
(* UndoInv says why undo works: every step has its photo, which no request *)
(* can spoil, because all who loaded a revision loaded one content; and a  *)
(* save does to the stack it read one of four things.                      *)
(***************************************************************************)
EXTENDS ProjectStore, SequenceTheorems, TLAPS

\* An approval is of the current revision and of what was rendered; the
\* artifact is never newer than the project and shows the content it names.
Reviewed(p) ==
  /\ p.artifact.rev <= p.rev
  /\ p.artifact.rev = p.rev => p.artifact.content = p.content
  /\ p.approved # Null => p.approved = p.rev /\ p.artifact.rev = p.rev

\* What a later state of the store keeps of an earlier one.
Follows(old, new) ==
  /\ old.rev <= new.rev
  /\ old.rev = new.rev =>
       /\ new.content = old.content
       /\ old.artifact.rev = old.rev => new.artifact = old.artifact

\* What a save of a client keeps besides.
KeepsDecisions(old, new) ==
  old.rev = new.rev =>
    /\ old.approved = old.rev => new.approved = old.rev
    /\ old.preview = old.rev => new.preview = old.rev
    /\ new.claim = old.claim

\* What the change of a save makes of the content it was computed from.
Changed(c, kind, old, new) ==
  CASE kind \in {"Edit", "Input", "Fillers"} -> new = Append(old, c)
    [] kind = "Undo" -> TRUE
    [] OTHER -> new = old

FilesInv ==
  /\ main = Torn => previous \in ProjectType
  /\ writer.step = "previous" => main # Torn
  /\ writer.step = "main" /\ main # Torn => previous = main

SaveKinds == Kinds \cup {"Stale preview"}

\* What holds of a request between its load and its answer.
UnderWay(r) ==
  /\ r.kind \in SaveKinds
  /\ Reviewed(r.loaded)
  /\ Follows(r.loaded, Project)
  /\ r.kind = "Approve" => MayApprove(r.loaded, r.loaded.rev)

ReqInv == \A c \in Client : req[c].step # "idle" => UnderWay(req[c])

\* What holds of a save in the writer.
Saving(c) ==
  /\ req[c].step = "saving"
  /\ req[c].loaded.rev = Project.rev
  /\ Changed(c, req[c].kind, req[c].loaded.content, writer.next.content)
  /\ KeepsDecisions(Project, writer.next)

WriterInv ==
  writer.step # "idle" =>
    /\ Reviewed(writer.next)
    /\ Follows(Project, writer.next)
    /\ writer.who \in Client => Saving(writer.who)

StoreInv == TypeOK /\ FilesInv /\ Reviewed(Project) /\ ReqInv /\ WriterInv

-----------------------------------------------------------------------------
(* Operators on projects.                                                  *)

\* The fields of a project.
LEMMA ProjectFields ==
  ASSUME NEW p \in ProjectType
  PROVE  /\ p.rev \in Nat /\ p.content \in Seq(Client) /\ p.analysis \in Nat /\ p.claim \in Nat
         /\ p.preview \in Nat \cup {Null} /\ p.approved \in Nat \cup {Null}
         /\ p.artifact \in [rev : Nat \cup {Null}, content : Seq(Client)]
         /\ p.artifact.rev \in Nat \cup {Null} /\ p.artifact.content \in Seq(Client)
         /\ p.undo \in [head : Nat \cup {Null}, steps : Seq(Nat)]
         /\ p.undo.steps \in Seq(Nat)
         /\ p.rev \in Int /\ p.artifact.rev \in Int /\ p.approved \in Int /\ p.preview \in Int
  BY DEF ProjectType, Null

\* A project made of well-typed parts.
LEMMA MadeProject ==
  ASSUME NEW rev \in Nat, NEW content \in Seq(Client), NEW analysis \in Nat, NEW claim \in Nat,
         NEW preview \in Nat \cup {Null},
         NEW artifact \in [rev : Nat \cup {Null}, content : Seq(Client)],
         NEW approved \in Nat \cup {Null},
         NEW undo \in [head : Nat \cup {Null}, steps : Seq(Nat)]
  PROVE  [rev |-> rev, content |-> content, analysis |-> analysis, claim |-> claim,
          preview |-> preview, artifact |-> artifact, approved |-> approved, undo |-> undo]
         \in ProjectType
  BY DEF ProjectType

LEMMA BumpType ==
  ASSUME NEW p \in ProjectType, NEW content \in Seq(Client)
  PROVE  /\ Bump(p, content) \in ProjectType
         /\ Bump(p, content).rev = p.rev + 1
         /\ Bump(p, content).content = content
         /\ Bump(p, content).artifact = p.artifact
         /\ Bump(p, content).approved = Null
<1>1. p.rev + 1 \in Nat /\ Null \in Nat \cup {Null}
  BY ProjectFields
<1>2. Bump(p, content) \in ProjectType
  BY <1>1, ProjectFields, MadeProject DEF Bump
<1> QED BY <1>2 DEF Bump

LEMMA WithReviewType ==
  ASSUME NEW p \in ProjectType, NEW preview \in Nat \cup {Null},
         NEW artifact \in [rev : Nat \cup {Null}, content : Seq(Client)],
         NEW approved \in Nat \cup {Null}
  PROVE  WithReview(p, preview, artifact, approved) \in ProjectType
  BY ProjectFields, MadeProject DEF WithReview

LEMMA WithResultsType ==
  ASSUME NEW p \in ProjectType, NEW analysis \in Nat, NEW claim \in Nat
  PROVE  WithResults(p, analysis, claim) \in ProjectType
  BY ProjectFields, MadeProject DEF WithResults

LEMMA WithUndoType ==
  ASSUME NEW p \in ProjectType, NEW steps \in Seq(Nat)
  PROVE  /\ WithUndo(p, steps) \in ProjectType
         /\ WithUndo(p, steps).rev = p.rev /\ WithUndo(p, steps).content = p.content
         /\ WithUndo(p, steps).artifact = p.artifact
         /\ WithUndo(p, steps).approved = p.approved
<1>1. [head |-> p.rev, steps |-> steps] \in [head : Nat \cup {Null}, steps : Seq(Nat)]
  BY ProjectFields
<1>2. WithUndo(p, steps) \in ProjectType
  BY <1>1, ProjectFields, MadeProject DEF WithUndo
<1> QED BY <1>2 DEF WithUndo

\* What is live of a stack, and what is left of it, are steps.
LEMMA StepsType ==
  ASSUME NEW p \in ProjectType
  PROVE  /\ LiveSteps(p) \in Seq(Nat)
         /\ Front(LiveSteps(p)) \in Seq(Nat)
         /\ LiveSteps(p) # <<>> => UndoTop(p) \in Nat
<1> DEFINE s == LiveSteps(p)
<1>1. s \in Seq(Nat)
  BY ProjectFields DEF LiveSteps
<1> HIDE DEF s
<1>2. Len(s) \in Nat /\ \A i \in 1 .. Len(s) : s[i] \in Nat
  BY <1>1
<1>3. Len(s) - 1 \in Int /\ \A i \in 1 .. Len(s) - 1 : s[i] \in Nat
  BY <1>2
<1>4. Front(s) \in Seq(Nat)
  BY <1>3, SubSeqProperties DEF Front
<1>5. s # <<>> => Last(s) \in Nat
  BY <1>1, <1>2 DEF Last
<1> QED BY <1>1, <1>4, <1>5 DEF s, UndoTop

\* Forgetting the oldest steps leaves steps.
LEMMA NewestType ==
  ASSUME NEW s \in Seq(Nat), UndoLimit \in Nat
  PROVE  Newest(s) \in Seq(Nat)
<1> DEFINE m == IF Len(s) > UndoLimit THEN Len(s) - UndoLimit + 1 ELSE 1
<1>1. Len(s) \in Int /\ m \in Int /\ m >= 1
  OBVIOUS
<1> HIDE DEF m
<1>2. \A i \in m .. Len(s) : s[i] \in Nat
  BY <1>1
<1>3. SubSeq(s, m, Len(s)) \in Seq(Nat)
  BY <1>1, <1>2, SubSeqProperties
<1> QED BY <1>3 DEF Newest, m

\* An undoable change.
LEMMA RecordedType ==
  ASSUME NEW before \in ProjectType, NEW content \in Seq(Client), UndoLimit \in Nat
  PROVE  LET q == RecordUndo(before, Bump(before, content))
         IN /\ q \in ProjectType /\ q.rev = before.rev + 1 /\ q.content = content
            /\ q.artifact = before.artifact /\ q.approved = Null
<1> DEFINE steps == Newest(Append(LiveSteps(before), before.rev))
           b == Bump(before, content)
<1>1. Append(LiveSteps(before), before.rev) \in Seq(Nat)
  BY StepsType, ProjectFields
<1>2. steps \in Seq(Nat)
  BY <1>1, NewestType
<1>3. RecordUndo(before, b) = WithUndo(b, steps)
  BY DEF RecordUndo
<1>4. /\ b \in ProjectType /\ b.rev = before.rev + 1 /\ b.content = content
      /\ b.artifact = before.artifact /\ b.approved = Null
  BY BumpType
<1> HIDE DEF steps, b
<1> QED BY <1>2, <1>3, <1>4, WithUndoType DEF b

LEMMA PoppedType ==
  ASSUME NEW before \in ProjectType, NEW content \in Seq(Client)
  PROVE  LET q == PopUndo(before, Bump(before, content))
         IN /\ q \in ProjectType /\ q.rev = before.rev + 1 /\ q.content = content
            /\ q.artifact = before.artifact /\ q.approved = Null
<1> DEFINE b == Bump(before, content)
<1>1. PopUndo(before, b) = WithUndo(b, Front(LiveSteps(before)))
  BY DEF PopUndo
<1>2. /\ b \in ProjectType /\ b.rev = before.rev + 1 /\ b.content = content
      /\ b.artifact = before.artifact /\ b.approved = Null
  BY BumpType
<1>3. Front(LiveSteps(before)) \in Seq(Nat)
  BY StepsType
<1> DEFINE steps == Front(LiveSteps(before))
<1>4. PopUndo(before, b) = WithUndo(b, steps) /\ steps \in Seq(Nat)
  BY <1>1, <1>3
<1> HIDE DEF b, steps
<1>5. WithUndo(b, steps) \in ProjectType /\ WithUndo(b, steps).rev = b.rev
      /\ WithUndo(b, steps).content = b.content /\ WithUndo(b, steps).artifact = b.artifact
      /\ WithUndo(b, steps).approved = b.approved
  BY <1>2, <1>4, WithUndoType
<1> QED BY <1>2, <1>4, <1>5 DEF b

-----------------------------------------------------------------------------
(* What a save publishes.                                                  *)

\* A new revision, whose artifact is of an older one, loses nothing.
LEMMA NewRevision ==
  ASSUME NEW p \in ProjectType, NEW base \in ProjectType, NEW q \in ProjectType,
         Reviewed(base), base.rev = p.rev,
         q.rev = base.rev + 1, q.artifact = base.artifact, q.approved = Null
  PROVE  Reviewed(q) /\ Follows(p, q) /\ KeepsDecisions(p, q)
<1>1. p.rev \in Int /\ base.artifact.rev \in Int /\ q.rev = p.rev + 1
  BY ProjectFields
<1>2. base.artifact.rev <= p.rev
  BY DEF Reviewed
<1>3. q.artifact.rev = base.artifact.rev
  OBVIOUS
<1>4. q.artifact.rev <= q.rev /\ q.artifact.rev # q.rev
  BY <1>1, <1>2, <1>3
<1>5. p.rev <= q.rev /\ p.rev # q.rev
  BY <1>1
<1> QED BY <1>4, <1>5 DEF Reviewed, Follows, KeepsDecisions

\* A merge of a new revision is that revision.
LEMMA MergeOfNewRevision ==
  ASSUME NEW current \in ProjectType, NEW next \in ProjectType, NEW base \in ProjectType,
         next.rev > current.rev
  PROVE  LET q == Merge(current, next, base)
         IN /\ q \in ProjectType /\ q.rev = next.rev /\ q.content = next.content
            /\ q.artifact = next.artifact /\ q.approved = next.approved
<1> DEFINE a == MergeAnalyses(current.analysis, next.analysis)
<1>1. a \in Nat
  BY ProjectFields DEF MergeAnalyses
<1>2. Merge(current, next, base) = WithResults(next, a, next.claim)
  BY DEF Merge
<1> HIDE DEF a
<1>3. WithResults(next, a, next.claim) \in ProjectType
  BY <1>1, ProjectFields, WithResultsType
<1> QED BY <1>2, <1>3 DEF WithResults

\* A merge at the same revision is the present project with what the request
\* changed.
LEMMA MergeOfSameRevision ==
  ASSUME NEW current \in ProjectType, NEW next \in ProjectType, NEW base \in ProjectType,
         next.rev = current.rev
  PROVE  LET q == Merge(current, next, base)
         IN /\ q \in ProjectType /\ q.rev = current.rev /\ q.content = current.content
            /\ q.claim = IF next.claim # base.claim THEN next.claim ELSE current.claim
            /\ q.preview = IF next.preview # base.preview THEN next.preview ELSE current.preview
            /\ q.artifact = IF next.artifact # base.artifact THEN next.artifact
                            ELSE current.artifact
            /\ q.approved = IF next.approved # base.approved THEN next.approved
                            ELSE current.approved
<1> DEFINE a == MergeAnalyses(current.analysis, next.analysis)
           claim == IF next.claim # base.claim THEN next.claim ELSE current.claim
           preview == IF next.preview # base.preview THEN next.preview ELSE current.preview
           artifact == IF next.artifact # base.artifact THEN next.artifact
                       ELSE current.artifact
           approved == IF next.approved # base.approved THEN next.approved
                       ELSE current.approved
           r == WithResults(current, a, claim)
<1>1. /\ a \in Nat /\ claim \in Nat /\ preview \in Nat \cup {Null}
      /\ artifact \in [rev : Nat \cup {Null}, content : Seq(Client)]
      /\ approved \in Nat \cup {Null}
  BY ProjectFields DEF MergeAnalyses
<1>2. ~(next.rev > current.rev)
  BY ProjectFields
<1>3. Merge(current, next, base) = WithReview(r, preview, artifact, approved)
  BY <1>2 DEF Merge
<1>4. r \in ProjectType /\ r.rev = current.rev /\ r.content = current.content /\ r.claim = claim
  BY <1>1, WithResultsType DEF WithResults
<1> HIDE DEF a, claim, preview, artifact, approved, r
<1>5. WithReview(r, preview, artifact, approved) \in ProjectType
  BY <1>1, <1>4, WithReviewType
<1> QED BY <1>3, <1>4, <1>5 DEF WithReview, claim, preview, artifact, approved
\* A save that passes publishes a sound project that follows the present one,
\* made from the content its request loaded.
LEMMA OutcomeFollows ==
  ASSUME StoreAssumption, NEW c \in Client, NEW p \in ProjectType, Reviewed(p),
         req[c].loaded \in ProjectType, req[c].snap \in Seq(Client), req[c].kind \in SaveKinds,
         Reviewed(req[c].loaded), Follows(req[c].loaded, p),
         req[c].kind = "Approve" => MayApprove(req[c].loaded, req[c].loaded.rev),
         Passes(c, p)
  PROVE  LET q == Outcome(c, p)
         IN /\ q \in ProjectType /\ Reviewed(q) /\ Follows(p, q) /\ KeepsDecisions(p, q)
            /\ Changed(c, req[c].kind, req[c].loaded.content, q.content)
<1> DEFINE l == req[c].loaded
           kind == req[c].kind
           q == Outcome(c, p)
<1>1. UndoLimit \in Nat
  BY DEF StoreAssumption
<1>2. l \in ProjectType /\ l.rev = p.rev /\ p.content = l.content
      /\ (l.artifact.rev = l.rev => p.artifact = l.artifact)
  BY DEF Passes, Follows
<1>3. /\ l.rev \in Int /\ p.rev \in Int /\ l.content \in Seq(Client) /\ p.content \in Seq(Client)
      /\ Append(l.content, c) \in Seq(Client) /\ Append(p.content, c) \in Seq(Client)
  BY <1>2, ProjectFields
<1>4. CASE kind = "Edit"
  <2> DEFINE s == RecordUndo(l, Bump(l, Append(l.content, c)))
  <2>1. /\ s \in ProjectType /\ s.rev = l.rev + 1 /\ s.content = Append(l.content, c)
        /\ s.artifact = l.artifact /\ s.approved = Null
    BY <1>1, <1>2, <1>3, RecordedType
  <2>2. q = Merge(p, s, l)
    BY <1>4 DEF Outcome, Submitted, Functional
  <2> HIDE DEF s
  <2>3. s.rev > p.rev
    BY <1>2, <1>3, <2>1
  <2>4. /\ q \in ProjectType /\ q.rev = s.rev /\ q.content = s.content
        /\ q.artifact = s.artifact /\ q.approved = s.approved
    BY <1>2, <2>1, <2>2, <2>3, MergeOfNewRevision
  <2>5. Reviewed(q) /\ Follows(p, q) /\ KeepsDecisions(p, q)
    BY <1>2, <2>1, <2>4, NewRevision
  <2> QED BY <1>4, <2>1, <2>4, <2>5 DEF Changed
<1>5. CASE kind = "Input"
  <2> DEFINE s == Bump(l, Append(l.content, c))
  <2>1. /\ s \in ProjectType /\ s.rev = l.rev + 1 /\ s.content = Append(l.content, c)
        /\ s.artifact = l.artifact /\ s.approved = Null
    BY <1>2, <1>3, BumpType
  <2>2. q = Merge(p, s, l)
    BY <1>5 DEF Outcome, Submitted, Functional
  <2> HIDE DEF s
  <2>3. s.rev > p.rev
    BY <1>2, <1>3, <2>1
  <2>4. /\ q \in ProjectType /\ q.rev = s.rev /\ q.content = s.content
        /\ q.artifact = s.artifact /\ q.approved = s.approved
    BY <1>2, <2>1, <2>2, <2>3, MergeOfNewRevision
  <2>5. Reviewed(q) /\ Follows(p, q) /\ KeepsDecisions(p, q)
    BY <1>2, <2>1, <2>4, NewRevision
  <2> QED BY <1>5, <2>1, <2>4, <2>5 DEF Changed
<1>6. CASE kind = "Fillers"
  <2> DEFINE s == RecordUndo(p, Bump(p, Append(p.content, c)))
  <2>1. q = s
    BY <1>6 DEF Outcome, Updated, Functional
  <2>0. /\ s \in ProjectType /\ s.rev = p.rev + 1 /\ s.content = Append(p.content, c)
        /\ s.artifact = p.artifact /\ s.approved = Null
    BY <1>1, <1>3, RecordedType
  <2> HIDE DEF s
  <2>2. /\ q \in ProjectType /\ q.rev = p.rev + 1 /\ q.content = Append(p.content, c)
        /\ q.artifact = p.artifact /\ q.approved = Null
    BY <2>1, <2>0
  <2>3. Reviewed(q) /\ Follows(p, q) /\ KeepsDecisions(p, q)
    BY <2>2, NewRevision
  <2> QED BY <1>2, <1>6, <2>2, <2>3 DEF Changed
<1>7. CASE kind = "Undo"
  <2>1. q = PopUndo(p, Bump(p, req[c].snap))
    BY <1>7 DEF Outcome, Updated, Functional
  <2>2. /\ q \in ProjectType /\ q.rev = p.rev + 1
        /\ q.artifact = p.artifact /\ q.approved = Null
    BY <2>1, PoppedType
  <2>3. Reviewed(q) /\ Follows(p, q) /\ KeepsDecisions(p, q)
    BY <2>2, NewRevision
  <2> QED BY <1>7, <2>2, <2>3 DEF Changed
<1>8. CASE kind = "Preview"
  <2> DEFINE art == [rev |-> l.rev, content |-> l.content]
             s == WithReview(l, l.rev, art, l.approved)
  <2>1. /\ art \in [rev : Nat \cup {Null}, content : Seq(Client)]
        /\ l.rev \in Nat \cup {Null} /\ l.approved \in Nat \cup {Null}
    BY <1>2, ProjectFields
  <2>2. q = Merge(p, s, l)
    BY <1>8 DEF Outcome, Submitted, Functional, RecordPreview
  <2>3. /\ s \in ProjectType /\ s.rev = p.rev /\ s.claim = l.claim /\ s.preview = l.rev
        /\ s.artifact = art /\ s.approved = l.approved
    BY <1>2, <2>1, WithReviewType DEF WithReview
  <2>4. art.rev = p.rev /\ art.content = p.content
    BY <1>2
  <2> HIDE DEF s, art
  <2>5. /\ q \in ProjectType /\ q.rev = p.rev /\ q.content = p.content /\ q.claim = p.claim
        /\ q.preview \in {p.rev, p.preview} /\ (p.preview = p.rev => q.preview = p.rev)
        /\ q.approved = p.approved
        /\ q.artifact = IF s.artifact # l.artifact THEN s.artifact ELSE p.artifact
    BY <1>2, <2>2, <2>3, MergeOfSameRevision
  <2>6. q.artifact = art
    <3>1. CASE art # l.artifact
      BY <3>1, <2>3, <2>5
    <3>2. CASE art = l.artifact
      BY <3>2, <1>2, <2>3, <2>4, <2>5
    <3> QED BY <3>1, <3>2
  <2>7. p.artifact.rev = p.rev => p.artifact = art
    BY <2>4, ProjectFields DEF Reviewed, art
  <2>8. Reviewed(q)
    BY <2>4, <2>5, <2>6, ProjectFields DEF Reviewed
  <2>9. Follows(p, q)
    BY <2>5, <2>6, <2>7, ProjectFields DEF Follows
  <2> QED BY <1>2, <1>8, <2>5, <2>8, <2>9 DEF Changed, KeepsDecisions
<1>9. CASE kind \in {"Stale preview", "Approve"}
  <2> DEFINE s == IF kind = "Approve" THEN Approve(l) ELSE l
  <2>1. q = Merge(p, s, l)
    BY <1>9 DEF Outcome, Submitted, Functional
  <2>2. /\ s \in ProjectType /\ s.rev = p.rev /\ s.claim = l.claim /\ s.preview = l.preview
        /\ s.artifact = l.artifact
        /\ s.approved = IF kind = "Approve" THEN l.rev ELSE l.approved
    <3>1. l.rev \in Nat \cup {Null}
      BY <1>2, ProjectFields
    <3> QED BY <1>2, <3>1, ProjectFields, WithReviewType DEF Approve, WithReview
  <2> HIDE DEF s
  <2>3. /\ q \in ProjectType /\ q.rev = p.rev /\ q.content = p.content /\ q.claim = p.claim
        /\ q.preview = p.preview /\ q.artifact = p.artifact
        /\ q.approved = IF s.approved # l.approved THEN s.approved ELSE p.approved
    BY <1>2, <2>1, <2>2, MergeOfSameRevision
  <2>4. q.approved = p.approved \/ (kind = "Approve" /\ q.approved = p.rev)
    BY <1>2, <2>2, <2>3
  <2>5. kind = "Approve" => p.artifact.rev = p.rev
    BY <1>2 DEF MayApprove
  <2>6. Reviewed(q)
    BY <2>3, <2>4, <2>5 DEF Reviewed
  <2>7. Follows(p, q)
    BY <1>3, <2>3 DEF Follows
  <2>8. KeepsDecisions(p, q)
    BY <2>3, <2>4 DEF KeepsDecisions
  <2> QED BY <1>2, <1>9, <2>3, <2>6, <2>7, <2>8 DEF Changed
<1> QED BY <1>4, <1>5, <1>6, <1>7, <1>8, <1>9 DEF SaveKinds, Kinds, Bumping, Photographed
\* The results of a background writer change nothing a browser named.
LEMMA ResultsFollow ==
  ASSUME NEW p \in ProjectType, Reviewed(p), NEW analysis \in Nat, NEW claim \in Nat
  PROVE  LET q == WithResults(p, analysis, claim)
         IN q \in ProjectType /\ Reviewed(q) /\ Follows(p, q)
<1> DEFINE q == WithResults(p, analysis, claim)
<1>1. /\ q.rev = p.rev /\ q.content = p.content /\ q.artifact = p.artifact
      /\ q.approved = p.approved
  BY DEF WithResults
<1>2. q \in ProjectType
  BY WithResultsType
<1> HIDE DEF q
<1>3. q.rev \in Int /\ p.rev \in Int
  BY <1>2, ProjectFields
<1>4. Reviewed(q)
  BY <1>1 DEF Reviewed
<1>5. Follows(p, q)
  BY <1>1, <1>3 DEF Follows
<1> QED BY <1>2, <1>4, <1>5 DEF q

LEMMA FollowsItself ==
  ASSUME NEW p \in ProjectType
  PROVE  Follows(p, p)
  BY ProjectFields DEF Follows

LEMMA FollowsFurther ==
  ASSUME NEW p \in ProjectType, NEW q \in ProjectType, NEW r \in ProjectType,
         Follows(p, q), Follows(q, r)
  PROVE  Follows(p, r)
<1>1. p.rev \in Int /\ q.rev \in Int /\ r.rev \in Int
  BY ProjectFields
<1>2. p.rev <= q.rev /\ q.rev <= r.rev /\ p.rev <= r.rev
  BY <1>1 DEF Follows
<1>3. ASSUME p.rev = r.rev
      PROVE  r.content = p.content /\ (p.artifact.rev = p.rev => r.artifact = p.artifact)
  <2>1. p.rev = q.rev /\ q.rev = r.rev
    BY <1>1, <1>2, <1>3
  <2> QED BY <2>1 DEF Follows
<1> QED BY <1>2, <1>3 DEF Follows

-----------------------------------------------------------------------------
(* The store.                                                              *)

\* There is always a project to read.
LEMMA ProjectThere ==
  ASSUME StoreInv
  PROVE  Project \in ProjectType
  BY DEF StoreInv, TypeOK, FilesInv, Project

\* A step that writes no file and leaves the save in the writer alone.
LEMMA FilesUntouched ==
  ASSUME StoreInv, main' = main, previous' = previous, writer' = writer,
         \A c \in Client : req'[c].step # "idle" => UnderWay(req'[c]),
         \A c \in Client : req[c].step = "saving" => req'[c] = req[c]
  PROVE  FilesInv' /\ Reviewed(Project)' /\ ReqInv' /\ WriterInv'
<1>1. Project' = Project
  BY DEF Project
<1>2. FilesInv'
  BY DEF StoreInv, FilesInv
<1>3. Reviewed(Project)'
  BY <1>1 DEF StoreInv, Reviewed
<1>4. ReqInv'
  BY <1>1 DEF ReqInv, UnderWay, Follows
<1>5. ASSUME NEW c \in Client, Saving(c) PROVE Saving(c)'
  BY <1>1, <1>5 DEF Saving, KeepsDecisions
<1>6. WriterInv'
  BY <1>1, <1>5 DEF StoreInv, WriterInv, Reviewed, Follows
<1> QED BY <1>2, <1>3, <1>4, <1>6

LEMMA BlankIsProject == BlankProject \in ProjectType
<1>1. <<>> \in Seq(Client) /\ <<>> \in Seq(Nat)
  OBVIOUS
<1>2. /\ NoArtifact \in [rev : Nat \cup {Null}, content : Seq(Client)]
      /\ NoUndo \in [head : Nat \cup {Null}, steps : Seq(Nat)]
  BY <1>1 DEF NoArtifact, NoUndo
<1> QED BY <1>1, <1>2, MadeProject DEF BlankProject

LEMMA InitStoreInv ==
  ASSUME Init
  PROVE  StoreInv
<1>1. <<>> \in Seq(Client)
  OBVIOUS
<1>3. BlankProject \in ProjectType
  BY BlankIsProject
<1>4. Project = BlankProject
  BY <1>3, StoreAssumption DEF Init, Project, StoreAssumption
<1>5. main # Torn
  BY <1>3, StoreAssumption DEF Init, StoreAssumption
<1>6. Reviewed(BlankProject)
  BY DEF Reviewed, BlankProject, NoArtifact, Null
<1> HIDE DEF BlankProject
<1>7. history = <<>> => DOMAIN history = {}
  <2>1. <<>> \in Seq(Nat) /\ Len(<<>>) = 0
    OBVIOUS
  <2>2. DOMAIN <<>> = 1 .. 0
    BY <2>1, LenProperties
  <2> QED BY <2>2
<1>8. DOMAIN history \subseteq Nat /\ \A n \in DOMAIN history : history[n] \in Seq(Client)
  BY <1>7 DEF Init
<1>9. writer \in [step : {"idle", "previous", "main"}, who : Writers, next : ProjectType]
  BY <1>3 DEF Init, Idle, Writers
<1>10. req \in [Client -> [step : Step, kind : Kind, loaded : ProjectType, snap : Seq(Client)]]
  BY <1>1, <1>3 DEF Init, NoRequest, Step, Kind
<1>11. /\ latest \in Client \cup {Nobody} /\ analysing \subseteq 1 .. analyses
       /\ analyses \in 0 .. MaxAnalyses /\ claims \in 0 .. MaxClaims
       /\ claiming \subseteq 1 .. claims
       /\ requests \in 0 .. MaxRequests /\ crashes \in 0 .. MaxCrashes
  <2>1. MaxAnalyses \in Nat /\ MaxClaims \in Nat /\ MaxRequests \in Nat /\ MaxCrashes \in Nat
    BY StoreAssumption DEF StoreAssumption
  <2>2. latest \in Client \cup {Nobody} /\ analysing = {} /\ claiming = {}
    BY DEF Init, Writers
  <2> QED BY <2>1, <2>2 DEF Init
<1>12. TypeOK
  BY <1>3, <1>8, <1>9, <1>10, <1>11 DEF TypeOK, Init
<1>13. /\ writer.step = "idle" /\ \A c \in Client : req[c].step = "idle"
  BY DEF Init, Idle, NoRequest
<1> QED
  BY <1>4, <1>5, <1>6, <1>12, <1>13
  DEF StoreInv, FilesInv, ReqInv, WriterInv, Init

\* A request that goes on holds the present project.
LEMMA LoadStep ==
  ASSUME StoreInv, NEW c \in Client, NEW kind \in Kinds, Load(c, kind)
  PROVE  StoreInv'
<1> DEFINE snap == IF kind = "Undo" THEN history[UndoTop(Project)] ELSE <<>>
           new == [step |-> AfterLoad(kind), kind |-> kind, loaded |-> Project, snap |-> snap]
<1>1. Project \in ProjectType /\ TypeOK
  BY ProjectThere DEF StoreInv
<1>2. snap \in Seq(Client)
  BY <1>1 DEF Load, TypeOK
<1>3. AfterLoad(kind) \in Step /\ kind \in Kind /\ kind \in SaveKinds
  BY DEF AfterLoad, Step, Kind, SaveKinds
<1>4. req' = [req EXCEPT ![c] = new]
  BY DEF Load
<1> HIDE DEF snap
<1>5. new \in [step : Step, kind : Kind, loaded : ProjectType, snap : Seq(Client)]
  BY <1>1, <1>2, <1>3
<1>6. new.kind = kind /\ new.loaded = Project
  OBVIOUS
<1> HIDE DEF new
<1>7. \A d \in Client : req'[d] = IF d = c THEN new ELSE req[d]
  BY <1>1, <1>4 DEF TypeOK
<1>8. req' \in [Client -> [step : Step, kind : Kind, loaded : ProjectType, snap : Seq(Client)]]
  BY <1>1, <1>4, <1>5 DEF TypeOK
<1>9. UnderWay(new)
  BY <1>1, <1>3, <1>6, FollowsItself DEF UnderWay, StoreInv, Load
<1>10. req[c].step = "idle"
  BY DEF Load
<1>11. \A d \in Client : req'[d].step # "idle" => UnderWay(req'[d])
  BY <1>7, <1>9 DEF StoreInv, ReqInv
<1>12. \A d \in Client : req[d].step = "saving" => req'[d] = req[d]
  BY <1>7, <1>10
<1>13. TypeOK'
  <2>1. requests' \in 0 .. MaxRequests
    BY <1>1, StoreAssumption DEF Load, TypeOK, StoreAssumption
  <2>2. latest' \in Client \cup {Nobody}
    BY <1>1 DEF Load, TypeOK, Writers
  <2> QED BY <1>1, <1>8, <2>1, <2>2 DEF Load, TypeOK, files
<1> QED BY <1>11, <1>12, <1>13, FilesUntouched DEF Load, StoreInv, files

\* What a step that touches no file does to one request.
LEMMA GoesStep ==
  ASSUME StoreInv, NEW c \in Client, NEW step \in Step, NEW kind \in Kind,
         req[c].step # "idle", req[c].step # "saving", Goes(c, step, kind),
         kind = req[c].kind \/ kind \in {"Preview", "Stale preview"}
  PROVE  /\ req' \in [Client -> [step : Step, kind : Kind, loaded : ProjectType,
                                 snap : Seq(Client)]]
         /\ \A d \in Client : req'[d].step # "idle" => UnderWay(req'[d])
         /\ \A d \in Client : req[d].step = "saving" => req'[d] = req[d]
         /\ req'[c].step = step /\ req'[c].kind = kind /\ req'[c].loaded = req[c].loaded
<1> DEFINE new == [step |-> step, kind |-> kind, loaded |-> req[c].loaded, snap |-> req[c].snap]
<1>1. TypeOK /\ UnderWay(req[c])
  BY DEF StoreInv, ReqInv
<1>2. req' = [req EXCEPT ![c] = new]
  BY DEF Goes
<1>3. new \in [step : Step, kind : Kind, loaded : ProjectType, snap : Seq(Client)]
  BY <1>1 DEF TypeOK
<1>4. new.step = step /\ new.kind = kind /\ new.loaded = req[c].loaded
  OBVIOUS
<1> HIDE DEF new
<1>5. \A d \in Client : req'[d] = IF d = c THEN new ELSE req[d]
  BY <1>1, <1>2 DEF TypeOK
<1>6. UnderWay(new)
  BY <1>1, <1>4 DEF UnderWay, SaveKinds, Kinds, MayApprove
<1>7. req' \in [Client -> [step : Step, kind : Kind, loaded : ProjectType, snap : Seq(Client)]]
  BY <1>1, <1>2, <1>3 DEF TypeOK
<1> QED BY <1>4, <1>5, <1>6, <1>7 DEF StoreInv, ReqInv

LEMMA PhotographStep ==
  ASSUME StoreInv, NEW c \in Client, Photograph(c)
  PROVE  StoreInv'
<1> DEFINE l == req[c].loaded
<1>1. TypeOK /\ l \in ProjectType /\ req[c].kind \in Kind /\ req[c].step = "photo"
  BY DEF StoreInv, TypeOK, Photograph
<1>2. /\ req' \in [Client -> [step : Step, kind : Kind, loaded : ProjectType, snap : Seq(Client)]]
      /\ \A d \in Client : req'[d].step # "idle" => UnderWay(req'[d])
      /\ \A d \in Client : req[d].step = "saving" => req'[d] = req[d]
  <2>1. "ready" \in Step /\ req[c].step # "idle" /\ req[c].step # "saving"
    BY <1>1 DEF Step
  <2> QED BY <1>1, <2>1, GoesStep DEF Photograph
<1>3. l.rev \in Nat /\ l.content \in Seq(Client)
  BY <1>1, ProjectFields
<1>4. DOMAIN history' = DOMAIN history \cup {l.rev}
      /\ \A n \in DOMAIN history \cup {l.rev} :
           history'[n] = IF n = l.rev THEN l.content ELSE history[n]
  BY DEF Photograph
<1>5. DOMAIN history' \subseteq Nat /\ \A n \in DOMAIN history' : history'[n] \in Seq(Client)
  BY <1>1, <1>3, <1>4 DEF TypeOK
<1>6. TypeOK'
  BY <1>1, <1>2, <1>5 DEF Photograph, TypeOK, jobs, bounds
<1> QED BY <1>2, <1>6, FilesUntouched DEF Photograph, StoreInv

LEMMA RenderedStep ==
  ASSUME StoreInv, NEW c \in Client, Rendered(c)
  PROVE  StoreInv'
<1> DEFINE kind == IF latest = c THEN "Preview" ELSE "Stale preview"
<1>1. TypeOK
  BY DEF StoreInv
<1>2. /\ req' \in [Client -> [step : Step, kind : Kind, loaded : ProjectType, snap : Seq(Client)]]
      /\ \A d \in Client : req'[d].step # "idle" => UnderWay(req'[d])
      /\ \A d \in Client : req[d].step = "saving" => req'[d] = req[d]
  <2>1. /\ "ready" \in Step /\ kind \in Kind /\ kind \in {"Preview", "Stale preview"}
        /\ req[c].step # "idle" /\ req[c].step # "saving"
    BY DEF Step, Kind, Kinds, Rendered
  <2>2. Goes(c, "ready", kind)
    BY DEF Rendered
  <2> HIDE DEF kind
  <2> QED BY <2>1, <2>2, GoesStep
<1>3. TypeOK'
  BY <1>1, <1>2 DEF Rendered, TypeOK, jobs, bounds, files
<1> QED BY <1>2, <1>3, FilesUntouched DEF Rendered, StoreInv, files

\* Aborted renders leave no request under way that was not.
LEMMA AbortKeeps ==
  ASSUME StoreInv, AbortPreviews
  PROVE  /\ req' \in [Client -> [step : Step, kind : Kind, loaded : ProjectType,
                                 snap : Seq(Client)]]
         /\ \A d \in Client : req'[d].step # "idle" => UnderWay(req'[d])
         /\ \A d \in Client : req[d].step = "saving" => req'[d] = req[d]
<1>1. NoRequest \in [step : Step, kind : Kind, loaded : ProjectType, snap : Seq(Client)]
      /\ NoRequest.step = "idle"
  BY BlankIsProject DEF NoRequest, Step, Kind
<1> HIDE DEF NoRequest
<1>2. \A d \in Client : req'[d] = req[d] \/ (req[d].step = "rendering" /\ req'[d] = NoRequest)
  BY DEF AbortPreviews
<1>3. req' \in [Client -> [step : Step, kind : Kind, loaded : ProjectType, snap : Seq(Client)]]
  BY <1>1 DEF AbortPreviews, StoreInv, TypeOK
<1> QED BY <1>1, <1>2, <1>3 DEF StoreInv, ReqInv

LEMMA JobStep ==
  ASSUME StoreInv, StartAnalysis \/ StartPreparation \/ \E c \in Client : RefusePreview(c)
  PROVE  StoreInv'
<1>1. TypeOK
  BY DEF StoreInv
<1>2. CASE StartAnalysis
  <2>1. MaxAnalyses \in Nat
    BY StoreAssumption DEF StoreAssumption
  <2>2. analyses' \in 0 .. MaxAnalyses /\ analysing' \subseteq 1 .. analyses'
    BY <1>1, <1>2, <2>1 DEF StartAnalysis, TypeOK
  <2>3. TypeOK'
    BY <1>1, <1>2, <2>2, AbortKeeps DEF StartAnalysis, TypeOK, bounds, files, Writers
  <2> QED BY <1>2, <2>3, AbortKeeps, FilesUntouched DEF StartAnalysis, StoreInv, files
<1>3. CASE StartPreparation
  <2>1. MaxClaims \in Nat
    BY StoreAssumption DEF StoreAssumption
  <2>2. claims' \in 0 .. MaxClaims /\ claiming' \subseteq 1 .. claims'
    BY <1>1, <1>3, <2>1 DEF StartPreparation, TypeOK
  <2>3. TypeOK'
    BY <1>1, <1>3, <2>2, AbortKeeps DEF StartPreparation, TypeOK, bounds, files, Writers
  <2> QED BY <1>3, <2>3, AbortKeeps, FilesUntouched DEF StartPreparation, StoreInv, files
<1>4. CASE \E c \in Client : RefusePreview(c)
  <2>1. TypeOK'
    BY <1>1, <1>4 DEF RefusePreview, TypeOK, bounds, files, Writers
  <2>2. \A d \in Client : req'[d].step # "idle" => UnderWay(req'[d])
    BY <1>4 DEF RefusePreview, StoreInv, ReqInv
  <2> QED BY <1>4, <2>1, <2>2, FilesUntouched DEF RefusePreview, StoreInv, files
<1> QED BY <1>2, <1>3, <1>4

\* A save enters the writer with a project that follows the present one.
LEMMA EnteredWriter ==
  ASSUME StoreInv, main' = main, previous' = previous, writer.step = "idle",
         NEW who \in Writers, NEW next \in ProjectType, EnterWriter(who, next),
         Reviewed(next), Follows(Project, next),
         \A c \in Client : req'[c].step # "idle" => UnderWay(req'[c]),
         who \in Client =>
           /\ req'[who].step = "saving"
           /\ req'[who].loaded.rev = Project.rev
           /\ Changed(who, req'[who].kind, req'[who].loaded.content, next.content)
           /\ KeepsDecisions(Project, next)
  PROVE  /\ writer' \in [step : {"idle", "previous", "main"}, who : Writers, next : ProjectType]
         /\ FilesInv' /\ Reviewed(Project)' /\ ReqInv' /\ WriterInv'
<1>1. Project' = Project
  BY DEF Project
<1>2. /\ writer' = [step |-> FirstStep, who |-> who, next |-> next]
      /\ FirstStep = IF main = Torn THEN "main" ELSE "previous"
  BY DEF EnterWriter, FirstStep
<1>3. /\ writer' \in [step : {"idle", "previous", "main"}, who : Writers, next : ProjectType]
      /\ writer'.who = who /\ writer'.next = next
      /\ writer'.step = "previous" => main # Torn
      /\ writer'.step = "main" => main = Torn
  BY <1>2
<1>4. FilesInv'
  BY <1>3 DEF StoreInv, FilesInv
<1>5. Reviewed(Project)'
  BY <1>1 DEF StoreInv, Reviewed
<1>6. ReqInv'
  BY <1>1 DEF ReqInv, UnderWay, Follows
<1>7. who \in Client => Saving(who)'
  BY <1>1, <1>3 DEF Saving
<1>8. WriterInv'
  BY <1>1, <1>3, <1>7 DEF WriterInv
<1> QED BY <1>3, <1>4, <1>5, <1>6, <1>8

LEMMA BeginSaveStep ==
  ASSUME StoreInv, NEW c \in Client, BeginSave(c)
  PROVE  StoreInv'
<1> DEFINE q == Outcome(c, Project)
<1>1. /\ TypeOK /\ Project \in ProjectType /\ Reviewed(Project) /\ UnderWay(req[c])
      /\ req[c].step = "ready" /\ writer.step = "idle"
      /\ main' = main /\ previous' = previous
  BY ProjectThere DEF StoreInv, ReqInv, BeginSave, files
<1>2. CASE Passes(c, Project)
  <2>1. EnterWriter(c, q) /\ Goes(c, "saving", req[c].kind)
    BY <1>2 DEF BeginSave
  <2>2. /\ q \in ProjectType /\ Reviewed(q) /\ Follows(Project, q) /\ KeepsDecisions(Project, q)
        /\ Changed(c, req[c].kind, req[c].loaded.content, q.content)
    <3>1. /\ req[c].loaded \in ProjectType /\ req[c].snap \in Seq(Client)
          /\ req[c].kind \in SaveKinds
          /\ Reviewed(req[c].loaded) /\ Follows(req[c].loaded, Project)
          /\ req[c].kind = "Approve" => MayApprove(req[c].loaded, req[c].loaded.rev)
      BY <1>1 DEF TypeOK, UnderWay
    <3> QED BY <1>1, <1>2, <3>1, OutcomeFollows, StoreAssumption
  <2> HIDE DEF q
  <2>3. /\ "saving" \in Step /\ req[c].kind \in Kind
        /\ req[c].step # "idle" /\ req[c].step # "saving"
    BY <1>1 DEF Step, TypeOK
  <2>4. /\ req' \in [Client -> [step : Step, kind : Kind, loaded : ProjectType,
                               snap : Seq(Client)]]
        /\ \A d \in Client : req'[d].step # "idle" => UnderWay(req'[d])
        /\ req'[c].step = "saving" /\ req'[c].kind = req[c].kind
        /\ req'[c].loaded = req[c].loaded
    BY <2>1, <2>3, GoesStep
  <2>5. req'[c].loaded.rev = Project.rev
    BY <1>2, <2>4 DEF Passes
  <2>6. c \in Writers
    BY DEF Writers
  <2>7. /\ writer' \in [step : {"idle", "previous", "main"}, who : Writers, next : ProjectType]
        /\ FilesInv' /\ Reviewed(Project)' /\ ReqInv' /\ WriterInv'
    BY <1>1, <2>1, <2>2, <2>4, <2>5, <2>6, EnteredWriter
  <2>8. TypeOK'
    BY <1>1, <2>4, <2>7 DEF BeginSave, TypeOK, files, jobs, bounds
  <2> QED BY <2>7, <2>8 DEF StoreInv
<1>3. CASE ~Passes(c, Project)
  <2>1. writer' = writer /\ req' = [req EXCEPT ![c] = NoRequest]
    BY <1>3 DEF BeginSave
  <2>2. NoRequest \in [step : Step, kind : Kind, loaded : ProjectType, snap : Seq(Client)]
        /\ NoRequest.step = "idle"
    BY BlankIsProject DEF NoRequest, Step, Kind
  <2> HIDE DEF NoRequest
  <2>3. \A d \in Client : req'[d] = IF d = c THEN NoRequest ELSE req[d]
    BY <1>1, <2>1 DEF TypeOK
  <2>4. /\ \A d \in Client : req'[d].step # "idle" => UnderWay(req'[d])
        /\ \A d \in Client : req[d].step = "saving" => req'[d] = req[d]
    BY <1>1, <2>2, <2>3 DEF StoreInv, ReqInv
  <2>5. TypeOK'
    BY <1>1, <2>1, <2>2 DEF BeginSave, TypeOK, files, jobs, bounds
  <2> QED BY <1>1, <2>1, <2>4, <2>5, FilesUntouched DEF StoreInv
<1> QED BY <1>2, <1>3

\* The background writers save what they computed over the present project.
LEMMA ResultStep ==
  ASSUME StoreInv,
         (\E n \in analysing : SaveAnalysis(n)) \/ (\E n \in claiming : SaveClaim(n))
  PROVE  StoreInv'
<1>1. /\ TypeOK /\ Project \in ProjectType /\ Reviewed(Project)
      /\ \A d \in Client : req[d].step # "idle" => UnderWay(req[d])
      /\ Project.claim \in Nat /\ Project.analysis \in Nat
  BY ProjectThere, ProjectFields DEF StoreInv, ReqInv
<1>2. /\ Analysis \in Writers /\ Preparation \in Writers
      /\ Analysis \notin Client /\ Preparation \notin Client
  BY StoreAssumption DEF Writers, StoreAssumption
<1>3. ASSUME NEW n \in analysing, SaveAnalysis(n) PROVE StoreInv'
  <2> DEFINE q == WithResults(Project, n, Project.claim)
  <2>1. n \in Nat /\ analysing \ {n} \subseteq 1 .. analyses
    BY <1>1 DEF TypeOK
  <2>2. q \in ProjectType /\ Reviewed(q) /\ Follows(Project, q)
    BY <1>1, <2>1, ResultsFollow
  <2>3. /\ EnterWriter(Analysis, q) /\ writer.step = "idle"
        /\ main' = main /\ previous' = previous /\ history' = history
        /\ req' = req /\ latest' = latest
        /\ analysing' = analysing \ {n} /\ analyses' = analyses
        /\ claiming' = claiming /\ claims' = claims
        /\ requests' = requests /\ crashes' = crashes
    BY <1>3 DEF SaveAnalysis, files, bounds
  <2> HIDE DEF q
  <2>4. /\ writer' \in [step : {"idle", "previous", "main"}, who : Writers, next : ProjectType]
        /\ FilesInv' /\ Reviewed(Project)' /\ ReqInv' /\ WriterInv'
    BY <1>1, <1>2, <2>2, <2>3, EnteredWriter
  <2>5. TypeOK'
    BY <1>1, <2>1, <2>3, <2>4 DEF TypeOK
  <2> QED BY <2>4, <2>5 DEF StoreInv
<1>4. ASSUME NEW n \in claiming, SaveClaim(n) PROVE StoreInv'
  <2> DEFINE q == WithResults(Project, Project.analysis, n)
  <2>1. n \in Nat /\ claiming \ {n} \subseteq 1 .. claims
    BY <1>1 DEF TypeOK
  <2>2. q \in ProjectType /\ Reviewed(q) /\ Follows(Project, q)
    BY <1>1, <2>1, ResultsFollow
  <2>3. /\ EnterWriter(Preparation, q) /\ writer.step = "idle"
        /\ main' = main /\ previous' = previous /\ history' = history
        /\ req' = req /\ latest' = latest /\ analysing' = analysing /\ analyses' = analyses
        /\ claiming' = claiming \ {n} /\ claims' = claims
        /\ requests' = requests /\ crashes' = crashes
    BY <1>4 DEF SaveClaim, files, bounds
  <2> HIDE DEF q
  <2>4. /\ writer' \in [step : {"idle", "previous", "main"}, who : Writers, next : ProjectType]
        /\ FilesInv' /\ Reviewed(Project)' /\ ReqInv' /\ WriterInv'
    BY <1>1, <1>2, <2>2, <2>3, EnteredWriter
  <2>5. TypeOK'
    BY <1>1, <2>1, <2>3, <2>4 DEF TypeOK
  <2> QED BY <2>4, <2>5 DEF StoreInv
<1> QED BY <1>3, <1>4

LEMMA KeepPreviousStep ==
  ASSUME StoreInv, KeepPrevious
  PROVE  StoreInv'
<1>1. TypeOK /\ main # Torn /\ main \in ProjectType /\ writer.step = "previous"
  BY DEF StoreInv, TypeOK, FilesInv, KeepPrevious
<1>2. /\ main' = main /\ previous' = main /\ history' = history /\ req' = req
      /\ writer' = [step |-> "main", who |-> writer.who, next |-> writer.next]
      /\ latest' = latest /\ analysing' = analysing /\ analyses' = analyses
      /\ claiming' = claiming /\ claims' = claims
      /\ requests' = requests /\ crashes' = crashes
  BY DEF KeepPrevious, jobs, bounds
<1>3. writer'.step = "main" /\ writer'.who = writer.who /\ writer'.next = writer.next
      /\ writer' \in [step : {"idle", "previous", "main"}, who : Writers, next : ProjectType]
  BY <1>1, <1>2 DEF TypeOK
<1>4. Project' = Project
  BY <1>1, <1>2 DEF Project
<1>5. TypeOK'
  BY <1>1, <1>2, <1>3 DEF TypeOK
<1>6. FilesInv' /\ Reviewed(Project)'
  BY <1>1, <1>2, <1>3, <1>4 DEF StoreInv, FilesInv, Reviewed
<1>7. ReqInv'
  BY <1>2, <1>4 DEF StoreInv, ReqInv, UnderWay, Follows
<1>8. writer.who \in Client => Saving(writer.who)'
  BY <1>1, <1>2, <1>3, <1>4 DEF StoreInv, WriterInv, Saving
<1>9. Reviewed(writer.next) /\ Follows(Project, writer.next)
  BY <1>1 DEF StoreInv, WriterInv
<1>10. WriterInv'
  BY <1>3, <1>4, <1>8, <1>9 DEF WriterInv
<1> QED BY <1>5, <1>6, <1>7, <1>10 DEF StoreInv

\* Every request follows the project that was, and so the one published.
LEMMA PublishStep ==
  ASSUME StoreInv, Publish
  PROVE  StoreInv'
<1> DEFINE q == writer.next
<1>1. /\ TypeOK /\ Project \in ProjectType /\ writer.step = "main"
      /\ q \in ProjectType /\ Reviewed(q) /\ Follows(Project, q)
  BY ProjectThere DEF StoreInv, WriterInv, TypeOK, Publish
<1>2. /\ main' = q /\ previous' = previous /\ history' = history /\ writer' = Idle
      /\ req' = IF writer.who \in Client THEN [req EXCEPT ![writer.who] = NoRequest] ELSE req
      /\ latest' = latest /\ analysing' = analysing /\ analyses' = analyses
      /\ claiming' = claiming /\ claims' = claims
      /\ requests' = requests /\ crashes' = crashes
  BY DEF Publish, jobs, bounds
<1> HIDE DEF q
<1>3. main' # Torn
  BY <1>1, <1>2, StoreAssumption DEF StoreAssumption
<1>4. Project' = q
  BY <1>2, <1>3 DEF Project
<1>5. /\ Idle.step = "idle" /\ NoRequest.step = "idle"
      /\ Idle \in [step : {"idle", "previous", "main"}, who : Writers, next : ProjectType]
      /\ NoRequest \in [step : Step, kind : Kind, loaded : ProjectType, snap : Seq(Client)]
  BY BlankIsProject DEF Idle, NoRequest, Writers, Step, Kind
<1> HIDE DEF Idle, NoRequest
<1>6. \A d \in Client : req'[d] \in {req[d], NoRequest}
  BY <1>1, <1>2 DEF TypeOK
<1>7. req' \in [Client -> [step : Step, kind : Kind, loaded : ProjectType, snap : Seq(Client)]]
  BY <1>1, <1>2, <1>5 DEF TypeOK
<1>8. TypeOK'
  BY <1>1, <1>2, <1>5, <1>7 DEF TypeOK
<1>9. FilesInv' /\ WriterInv'
  BY <1>2, <1>3, <1>5 DEF FilesInv, StoreInv, WriterInv
<1>10. Reviewed(Project)'
  BY <1>1, <1>4 DEF Reviewed
<1>11. ASSUME NEW d \in Client, req'[d].step # "idle"
       PROVE  UnderWay(req[d]) /\ Follows(req[d].loaded, q) /\ req'[d] = req[d]
  <2>1. req'[d] = req[d] /\ req[d].step # "idle"
    BY <1>5, <1>6, <1>11
  <2>2. UnderWay(req[d]) /\ req[d].loaded \in ProjectType
    BY <1>1, <2>1 DEF StoreInv, ReqInv, TypeOK
  <2>3. Follows(req[d].loaded, q)
    BY <1>1, <2>2, FollowsFurther DEF UnderWay
  <2> QED BY <2>1, <2>2, <2>3
<1>12. ReqInv'
  BY <1>4, <1>11 DEF ReqInv, UnderWay, Follows
<1> QED BY <1>8, <1>9, <1>10, <1>12 DEF StoreInv

\* Whichever file a crash destroys, the project read afterwards is the same.
LEMMA CrashStep ==
  ASSUME StoreInv, Crash
  PROVE  StoreInv'
<1>1. TypeOK /\ FilesInv /\ Project \in ProjectType
  BY ProjectThere DEF StoreInv
<1>2. /\ main' = main \/ (writer.step = "main" /\ main' = Torn /\ previous' = previous)
      /\ previous' = previous \/ (writer.step = "previous" /\ previous' = Torn /\ main' = main)
      /\ writer' = Idle /\ req' = [c \in Client |-> NoRequest] /\ history' = history
      /\ latest' = Nobody /\ analysing' = {} /\ analyses' = analyses
      /\ claiming' = {} /\ claims' = claims
      /\ requests' = requests /\ crashes < MaxCrashes /\ crashes' = crashes + 1
  BY DEF Crash
<1>3. Project' = Project
  BY <1>1, <1>2 DEF Project, FilesInv
<1>4. /\ Idle.step = "idle" /\ NoRequest.step = "idle"
      /\ Idle \in [step : {"idle", "previous", "main"}, who : Writers, next : ProjectType]
      /\ NoRequest \in [step : Step, kind : Kind, loaded : ProjectType, snap : Seq(Client)]
  BY BlankIsProject DEF Idle, NoRequest, Writers, Step, Kind
<1> HIDE DEF Idle, NoRequest
<1>5. req' \in [Client -> [step : Step, kind : Kind, loaded : ProjectType, snap : Seq(Client)]]
      /\ \A c \in Client : req'[c].step = "idle"
  BY <1>2, <1>4
<1>6. crashes' \in 0 .. MaxCrashes
  <2>1. MaxCrashes \in Nat
    BY StoreAssumption DEF StoreAssumption
  <2> QED BY <1>1, <1>2, <2>1 DEF TypeOK
<1>7. TypeOK'
  <2>1. /\ main' \in ProjectType \cup {Torn} /\ previous' \in ProjectType \cup {Missing, Torn}
        /\ Nobody \in Writers
    BY <1>1, <1>2 DEF TypeOK, Writers
  <2>2. analysing' \subseteq 1 .. analyses' /\ claiming' \subseteq 1 .. claims'
    BY <1>2
  <2> QED BY <1>1, <1>2, <1>4, <1>5, <1>6, <2>1, <2>2 DEF TypeOK
<1>8. main' = Torn => previous' \in ProjectType
  <2>1. CASE main' = main /\ previous' = previous
    BY <1>1, <2>1 DEF FilesInv
  <2>2. CASE writer.step = "main" /\ main' = Torn /\ previous' = previous
    BY <1>1, <2>2 DEF FilesInv, TypeOK
  <2>3. CASE writer.step = "previous" /\ previous' = Torn /\ main' = main
    BY <1>1, <2>3 DEF FilesInv
  <2> QED BY <1>2, <2>1, <2>2, <2>3
<1>9. FilesInv' /\ WriterInv' /\ ReqInv'
  BY <1>2, <1>4, <1>5, <1>8 DEF FilesInv, WriterInv, ReqInv
<1>10. Reviewed(Project)'
  BY <1>3 DEF StoreInv, Reviewed
<1> QED BY <1>7, <1>9, <1>10 DEF StoreInv

LEMMA StutterStep ==
  ASSUME StoreInv, UNCHANGED vars
  PROVE  StoreInv'
<1>1. TypeOK'
  BY DEF vars, files, jobs, bounds, StoreInv, TypeOK
<1>2. \A c \in Client : req'[c].step # "idle" => UnderWay(req'[c])
  BY DEF vars, StoreInv, ReqInv
<1> QED BY <1>1, <1>2, FilesUntouched DEF vars, files, StoreInv

LEMMA NextStoreInv ==
  ASSUME StoreInv, [Next]_vars
  PROVE  StoreInv'
  BY LoadStep, PhotographStep, RenderedStep, JobStep, BeginSaveStep, ResultStep,
     KeepPreviousStep, PublishStep, CrashStep, StutterStep DEF Next

-----------------------------------------------------------------------------
(* The undo stack. Its contents are the photos of its steps.               *)

Photos(h, s) == [i \in 1 .. Len(s) |-> h[s[i]]]
Steps(p) == {LiveSteps(p)[i] : i \in 1 .. Len(LiveSteps(p))}

HasPhotos(h, s, T) == \A i \in 1 .. Len(s) : h[s[i]] \in T

LEMMA PhotosSeq ==
  ASSUME NEW h, NEW T, NEW s \in Seq(Nat), HasPhotos(h, s, T)
  PROVE  /\ Photos(h, s) \in Seq(T) /\ Len(Photos(h, s)) = Len(s) /\ Len(s) \in Nat
         /\ \A i \in 1 .. Len(s) : Photos(h, s)[i] = h[s[i]]
<1>1. Len(s) \in Nat /\ Photos(h, s) \in [1 .. Len(s) -> T]
  BY DEF Photos, HasPhotos
<1>2. Photos(h, s) \in Seq(T)
  BY <1>1, SeqDef
<1>3. DOMAIN Photos(h, s) = 1 .. Len(s)
  BY <1>1
<1>4. Len(Photos(h, s)) = Len(s)
  BY <1>1, <1>2, <1>3, LenProperties
<1> QED BY <1>1, <1>2, <1>4 DEF Photos

\* Equal photos make equal stacks.
LEMMA SamePhotos ==
  ASSUME NEW h, NEW g, NEW s \in Seq(Nat), \A i \in 1 .. Len(s) : g[s[i]] = h[s[i]]
  PROVE  Photos(g, s) = Photos(h, s)
  BY DEF Photos

LEMMA PhotosOfAppend ==
  ASSUME NEW h, NEW T, NEW s \in Seq(Nat), NEW n \in Nat,
         HasPhotos(h, s, T), h[n] \in T
  PROVE  Photos(h, Append(s, n)) = Append(Photos(h, s), h[n])
<1> DEFINE a == Append(s, n)
           b == Append(Photos(h, s), h[n])
<1>1. /\ a \in Seq(Nat) /\ Len(a) = Len(s) + 1 /\ a[Len(s) + 1] = n
      /\ \A i \in 1 .. Len(s) : a[i] = s[i]
  OBVIOUS
<1>2. /\ Photos(h, s) \in Seq(T) /\ Len(Photos(h, s)) = Len(s) /\ Len(s) \in Nat
      /\ \A i \in 1 .. Len(s) : Photos(h, s)[i] = h[s[i]]
  BY PhotosSeq
<1>3. /\ b \in Seq(T) /\ Len(b) = Len(s) + 1 /\ b[Len(s) + 1] = h[n]
      /\ \A i \in 1 .. Len(s) : b[i] = h[s[i]]
  BY <1>2
<1> HIDE DEF a, b
<1>4. \A i \in 1 .. Len(a) : i \in 1 .. Len(s) \/ i = Len(s) + 1
  BY <1>1, <1>2
<1>5. HasPhotos(h, a, T) /\ \A i \in 1 .. Len(a) : b[i] = h[a[i]]
  BY <1>1, <1>3, <1>4 DEF HasPhotos
<1>6. Photos(h, a) \in Seq(T) /\ Len(Photos(h, a)) = Len(a)
      /\ \A i \in 1 .. Len(a) : Photos(h, a)[i] = h[a[i]]
  BY <1>1, <1>5, PhotosSeq
<1>7. Len(Photos(h, a)) = Len(b) /\ \A i \in 1 .. Len(Photos(h, a)) : Photos(h, a)[i] = b[i]
  BY <1>1, <1>3, <1>5, <1>6
<1>8. Photos(h, a) = b
  BY <1>3, <1>6, <1>7, SeqEqual
<1> QED BY <1>8 DEF a, b

\* A part of the steps has the same part of the photos.
SameParts(h, s, m, n) == Photos(h, SubSeq(s, m, n)) = SubSeq(Photos(h, s), m, n)

LEMMA PhotosOfPart ==
  ASSUME NEW h, NEW T, NEW s \in Seq(Nat), NEW m, NEW n, m \in Nat \ {0}, n \in Int, n <= Len(s),
         HasPhotos(h, s, T)
  PROVE  SameParts(h, s, m, n)
<1> DEFINE a == SubSeq(s, m, n)
           b == SubSeq(Photos(h, s), m, n)
<1>1. Len(s) \in Nat /\ \A i \in m .. n : i \in 1 .. Len(s) /\ s[i] \in Nat
  OBVIOUS
<1>2. /\ Photos(h, s) \in Seq(T) /\ Len(Photos(h, s)) = Len(s)
      /\ \A i \in 1 .. Len(s) : Photos(h, s)[i] = h[s[i]]
  BY PhotosSeq
<1>3. \A i \in m .. n : Photos(h, s)[i] \in T /\ Photos(h, s)[i] = h[s[i]]
  BY <1>1, <1>2
<1>4. /\ a \in Seq(Nat) /\ Len(a) = (IF m <= n THEN n - m + 1 ELSE 0)
      /\ \A i \in 1 .. n - m + 1 : a[i] = s[m + i - 1]
  BY <1>1, SubSeqProperties
<1>5. /\ b \in Seq(T) /\ Len(b) = (IF m <= n THEN n - m + 1 ELSE 0)
      /\ \A i \in 1 .. n - m + 1 : b[i] = Photos(h, s)[m + i - 1]
  BY <1>3, SubSeqProperties
<1> HIDE DEF a, b
<1>6. \A i \in 1 .. Len(a) : i \in 1 .. n - m + 1 /\ m + i - 1 \in m .. n
  BY <1>4
<1>7. HasPhotos(h, a, T) /\ \A i \in 1 .. Len(a) : b[i] = h[a[i]]
  BY <1>1, <1>3, <1>4, <1>5, <1>6 DEF HasPhotos
<1>8. Photos(h, a) \in Seq(T) /\ Len(Photos(h, a)) = Len(a)
      /\ \A i \in 1 .. Len(a) : Photos(h, a)[i] = h[a[i]]
  <2>1. a \in Seq(Nat) /\ HasPhotos(h, a, T)
    BY <1>4, <1>7
  <2> QED BY <2>1, PhotosSeq
<1>9. Len(Photos(h, a)) = Len(b) /\ \A i \in 1 .. Len(Photos(h, a)) : Photos(h, a)[i] = b[i]
  BY <1>4, <1>5, <1>7, <1>8
<1>10. Photos(h, a) = b
  BY <1>5, <1>8, <1>9, SeqEqual
<1> QED BY <1>10 DEF a, b, SameParts

LEMMA PhotosOfNewest ==
  ASSUME NEW h, NEW T, NEW s \in Seq(Nat), UndoLimit \in Nat \ {0},
         HasPhotos(h, s, T)
  PROVE  Photos(h, Newest(s)) = Newest(Photos(h, s))
<1> DEFINE m == IF Len(s) > UndoLimit THEN Len(s) - UndoLimit + 1 ELSE 1
<1>1. m \in Nat \ {0} /\ Len(s) \in Nat
  OBVIOUS
<1>2. Len(Photos(h, s)) = Len(s)
  BY PhotosSeq
<1> HIDE DEF m
<1>3. Photos(h, SubSeq(s, m, Len(s))) = SubSeq(Photos(h, s), m, Len(s))
  <2>1. PICK n \in Int : n = Len(s) /\ n <= Len(s)
    BY <1>1
  <2>2. SameParts(h, s, m, n)
    BY <1>1, <2>1, PhotosOfPart
  <2> QED BY <2>1, <2>2 DEF SameParts
<1> QED BY <1>2, <1>3 DEF Newest, m

LEMMA PhotosOfFront ==
  ASSUME NEW h, NEW T, NEW s \in Seq(Nat), s # <<>>, HasPhotos(h, s, T)
  PROVE  /\ Photos(h, s) # <<>>
         /\ Last(Photos(h, s)) = h[Last(s)]
         /\ Photos(h, Front(s)) = Front(Photos(h, s))
<1>1. Len(s) \in Nat \ {0}
  BY EmptySeq
<1>2. /\ Photos(h, s) \in Seq(T) /\ Len(Photos(h, s)) = Len(s)
      /\ \A i \in 1 .. Len(s) : Photos(h, s)[i] = h[s[i]]
  BY PhotosSeq
<1>3. Photos(h, s) # <<>>
  BY <1>1, <1>2, EmptySeq
<1>4. Last(Photos(h, s)) = h[Last(s)]
  BY <1>1, <1>2 DEF Last
<1>5. Photos(h, SubSeq(s, 1, Len(s) - 1)) = SubSeq(Photos(h, s), 1, Len(s) - 1)
  <2>1. PICK m \in Nat \ {0}, n \in Int : m = 1 /\ n = Len(s) - 1 /\ n <= Len(s)
    BY <1>1
  <2>2. SameParts(h, s, m, n)
    BY <2>1, PhotosOfPart
  <2> QED BY <2>1, <2>2 DEF SameParts
<1> QED BY <1>2, <1>3, <1>4, <1>5 DEF Front

\* The newest steps and all but the newest are steps.
PartOf(t, s) == \A i \in 1 .. Len(t) : \E j \in 1 .. Len(s) : t[i] = s[j]

LEMMA PartOfSteps ==
  ASSUME NEW s \in Seq(Nat), UndoLimit \in Nat \ {0}
  PROVE  PartOf(Newest(s), s) /\ (s # <<>> => PartOf(Front(s), s))
<1> DEFINE m == IF Len(s) > UndoLimit THEN Len(s) - UndoLimit + 1 ELSE 1
<1>1. m \in Nat \ {0} /\ Len(s) \in Nat
  OBVIOUS
<1> HIDE DEF m
<1>2. ASSUME NEW k, NEW n, k \in Nat \ {0}, n \in Int, n <= Len(s)
      PROVE  \A i \in 1 .. Len(SubSeq(s, k, n)) : \E j \in 1 .. Len(s) : SubSeq(s, k, n)[i] = s[j]
  <2>1. \A i \in k .. n : s[i] \in Nat
    BY <1>1, <1>2
  <2>2. /\ Len(SubSeq(s, k, n)) = (IF k <= n THEN n - k + 1 ELSE 0)
        /\ \A i \in 1 .. n - k + 1 : SubSeq(s, k, n)[i] = s[k + i - 1]
    BY <1>2, <2>1, SubSeqProperties
  <2>3. \A i \in 1 .. Len(SubSeq(s, k, n)) : i \in 1 .. n - k + 1 /\ k + i - 1 \in 1 .. Len(s)
    BY <1>1, <1>2, <2>2
  <2> QED BY <2>2, <2>3
<1>3. \A i \in 1 .. Len(Newest(s)) : \E j \in 1 .. Len(s) : Newest(s)[i] = s[j]
  <2>1. Newest(s) = SubSeq(s, m, Len(s))
    BY <1>1 DEF Newest, m
  <2>2. PICK n \in Int : n = Len(s) /\ n <= Len(s)
    BY <1>1
  <2>3. \A i \in 1 .. Len(SubSeq(s, m, n)) : \E j \in 1 .. Len(s) : SubSeq(s, m, n)[i] = s[j]
    BY <1>1, <1>2, <2>2
  <2> QED BY <2>1, <2>2, <2>3
<1>4. \A i \in 1 .. Len(Front(s)) : \E j \in 1 .. Len(s) : Front(s)[i] = s[j]
  <2>1. Front(s) = SubSeq(s, 1, Len(s) - 1) /\ Len(s) - 1 \in Int /\ Len(s) - 1 <= Len(s)
    BY <1>1 DEF Front
  <2>2. 1 \in Nat \ {0}
    OBVIOUS
  <2> QED BY <1>2, <2>1, <2>2
<1> QED BY <1>3, <1>4 DEF PartOf

-----------------------------------------------------------------------------
(* The store is an undo stack.                                             *)

\* The photo of revision n is there, is what the project says if it is at that
\* revision, and is what a request that loaded that revision would photograph.
PhotoFits(n) ==
  /\ n \in DOMAIN history
  /\ n = Project.rev => history[n] = Project.content
  /\ \A c \in Client : req[c].step # "idle" /\ req[c].loaded.rev = n =>
       history[n] = req[c].loaded.content

\* The steps of p are of older revisions and have their photos.
StepsFit(p) ==
  /\ p.undo.head <= p.rev
  /\ \A n \in Steps(p) : n < p.rev /\ PhotoFits(n)

\* What a save does to the stack: nothing, one more step, one step less, or
\* its end.
Pushed(old, new) ==
  /\ LiveSteps(new) = Newest(Append(LiveSteps(old), old.rev))
  /\ PhotoFits(old.rev)
  /\ \E c \in Client : new.content = Append(old.content, c)
Popped(old, new) ==
  /\ LiveSteps(old) # <<>> /\ LiveSteps(new) = Front(LiveSteps(old))
  /\ new.content = history[UndoTop(old)]
Replaced(old, new) ==
  /\ LiveSteps(new) = <<>>
  /\ \E c \in Client : new.content = Append(old.content, c)
SameStack(old, new) == new.rev = old.rev /\ new.content = old.content /\ new.undo = old.undo
NewStack(old, new) ==
  /\ new.rev = old.rev + 1 /\ new.undo.head <= new.rev
  /\ Pushed(old, new) \/ Popped(old, new) \/ Replaced(old, new)
Undoing(old, new) == SameStack(old, new) \/ NewStack(old, new)

\* What a request knows of the stack: its own while nobody saved, the photo
\* of the revision it changes, the photo it goes back to.
Undoes(c) ==
  /\ req[c].step = "photo" => req[c].kind \in Photographed
  /\ req[c].loaded.rev = Project.rev => req[c].loaded.undo = Project.undo
  /\ req[c].kind \in Photographed /\ req[c].step \in {"ready", "saving"} =>
       PhotoFits(req[c].loaded.rev)
  /\ req[c].kind = "Undo" /\ req[c].loaded.rev = Project.rev =>
       LiveSteps(req[c].loaded) # <<>> /\ req[c].snap = history[UndoTop(req[c].loaded)]

CopyFits == previous \in ProjectType => previous.rev <= Project.rev /\ StepsFit(previous)
RequestsUndo == \A c \in Client : req[c].step # "idle" => Undoes(c)
RequestsAgree ==
  \A c, d \in Client :
    req[c].step # "idle" /\ req[d].step # "idle" /\ req[c].loaded.rev = req[d].loaded.rev
    => req[c].loaded.content = req[d].loaded.content
WriterUndoes == writer.step # "idle" => Undoing(Project, writer.next)

UndoInv == StepsFit(Project) /\ CopyFits /\ RequestsUndo /\ RequestsAgree /\ WriterUndoes

\* What every step keeps: the content and stack of a revision, the revision a
\* request loaded, and the photos that fit.
Lasts ==
  /\ Project.rev <= Project'.rev
  /\ Project'.rev = Project.rev =>
       Project'.content = Project.content /\ Project'.undo = Project.undo
  /\ \A c \in Client : req'[c].step # "idle" =>
       \/ req[c].step # "idle" /\ req'[c].loaded = req[c].loaded
       \/ req'[c].loaded = Project
  /\ \A n \in DOMAIN history : n \in DOMAIN history' /\ (PhotoFits(n) => history'[n] = history[n])

LEMMA PhotoStays ==
  ASSUME Lasts, Project \in ProjectType, Project' \in ProjectType, NEW n \in Nat,
         n <= Project.rev, PhotoFits(n)
  PROVE  PhotoFits(n)' /\ history'[n] = history[n]
<1>1. n \in DOMAIN history /\ n \in DOMAIN history' /\ history'[n] = history[n]
  BY DEF Lasts, PhotoFits
<1>2. ASSUME n = Project'.rev PROVE history'[n] = Project'.content
  <2>1. Project.rev \in Int /\ Project'.rev \in Int /\ Project.rev <= Project'.rev
    BY ProjectFields DEF Lasts
  <2>2. n = Project.rev
    BY <1>2, <2>1
  <2> QED BY <1>1, <1>2, <2>2 DEF Lasts, PhotoFits
<1>3. ASSUME NEW c \in Client, req'[c].step # "idle", req'[c].loaded.rev = n
      PROVE  history'[n] = req'[c].loaded.content
  <2>1. CASE req[c].step # "idle" /\ req'[c].loaded = req[c].loaded
    BY <1>1, <1>3, <2>1 DEF PhotoFits
  <2>2. CASE req'[c].loaded = Project
    BY <1>1, <1>3, <2>2 DEF PhotoFits
  <2> QED BY <1>3, <2>1, <2>2 DEF Lasts
<1> QED BY <1>1, <1>2, <1>3 DEF PhotoFits

\* A stack that fits goes on fitting, and its photos stay what they are.
LEMMA StepsStay ==
  ASSUME Lasts, Project \in ProjectType, Project' \in ProjectType, NEW p \in ProjectType,
         StepsFit(p), \A n \in Steps(p) : n <= Project.rev
  PROVE  StepsFit(p)' /\ \A n \in Steps(p) : history'[n] = history[n]
<1>1. \A n \in Steps(p) : n \in Nat
  BY StepsType DEF Steps
<1>2. ASSUME NEW n \in Steps(p)
      PROVE  PhotoFits(n)' /\ history'[n] = history[n]
  <2>1. n \in Nat /\ n <= Project.rev /\ PhotoFits(n)
    BY <1>1 DEF StepsFit
  <2> QED BY <2>1, PhotoStays
<1>3. p.undo.head <= p.rev /\ \A n \in Steps(p) : n < p.rev
  BY DEF StepsFit
<1> QED BY <1>2, <1>3 DEF StepsFit

\* Steps of an older stack are of older revisions.
LEMMA OlderSteps ==
  ASSUME NEW p \in ProjectType, NEW r \in Nat, p.rev <= r, StepsFit(p)
  PROVE  \A n \in Steps(p) : n <= r /\ n \in Nat
<1>1. \A n \in Steps(p) : n \in Nat /\ n < p.rev
  BY StepsType DEF Steps, StepsFit
<1> QED BY <1>1, ProjectFields

LEMMA TopIsStep ==
  ASSUME NEW p \in ProjectType, LiveSteps(p) # <<>>
  PROVE  UndoTop(p) \in Steps(p)
<1> DEFINE s == LiveSteps(p)
<1>1. s \in Seq(Nat) /\ s # <<>>
  BY StepsType
<1> HIDE DEF s
<1>2. Len(s) \in 1 .. Len(s) /\ Last(s) = s[Len(s)]
  BY <1>1, EmptySeq DEF Last
<1>3. UndoTop(p) = s[Len(s)]
  BY <1>1, <1>2 DEF UndoTop, s
<1> QED BY <1>2, <1>3 DEF Steps, s

\* The stack a save leaves fits.
LEMMA NewStackFits ==
  ASSUME UndoLimit \in Nat \ {0}, NEW old \in ProjectType, NEW new \in ProjectType,
         StepsFit(old), Undoing(old, new)
  PROVE  StepsFit(new) /\ \A n \in Steps(new) : n <= old.rev
<1>1. old.rev \in Nat /\ new.rev \in Nat /\ LiveSteps(old) \in Seq(Nat)
  BY ProjectFields, StepsType
<1>2. \A n \in Steps(old) : n < old.rev /\ PhotoFits(n) /\ n \in Nat
  <2>1. \A n \in Steps(old) : n \in Nat
    BY StepsType DEF Steps
  <2> QED BY <2>1 DEF StepsFit
<1>3. CASE SameStack(old, new)
  <2>1. Steps(new) = Steps(old) /\ new.undo = old.undo /\ new.rev = old.rev
    BY <1>3 DEF SameStack, Steps, LiveSteps
  <2> QED BY <1>1, <1>2, <2>1 DEF StepsFit
<1>4. CASE NewStack(old, new) /\ Pushed(old, new)
  <2> DEFINE a == Append(LiveSteps(old), old.rev)
  <2>1. a \in Seq(Nat) /\ \A i \in 1 .. Len(a) : a[i] \in Steps(old) \cup {old.rev}
    BY <1>1 DEF Steps
  <2>2. LiveSteps(new) = Newest(a) /\ PhotoFits(old.rev) /\ new.rev = old.rev + 1
        /\ new.undo.head <= new.rev
    BY <1>4 DEF Pushed, NewStack
  <2> HIDE DEF a
  <2>3. PartOf(Newest(a), a)
    BY <2>1, PartOfSteps
  <2>4. ASSUME NEW n \in Steps(new) PROVE n \in Steps(old) \cup {old.rev}
    <3>1. PICK i \in 1 .. Len(Newest(a)) : n = Newest(a)[i]
      BY <2>2 DEF Steps
    <3>2. PICK j \in 1 .. Len(a) : Newest(a)[i] = a[j]
      BY <2>3 DEF PartOf
    <3> QED BY <2>1, <3>1, <3>2
  <2>5. ASSUME NEW n \in Steps(new) PROVE n < new.rev /\ n <= old.rev /\ PhotoFits(n)
    <3>1. CASE n \in Steps(old)
      BY <1>1, <1>2, <2>2, <3>1
    <3>2. CASE n = old.rev
      BY <1>1, <2>2, <3>2
    <3> QED BY <2>4, <3>1, <3>2
  <2> QED BY <2>2, <2>5 DEF StepsFit
<1>5. CASE NewStack(old, new) /\ Popped(old, new)
  <2> DEFINE a == LiveSteps(old)
  <2>1. a \in Seq(Nat) /\ a # <<>> /\ \A i \in 1 .. Len(a) : a[i] \in Steps(old)
    BY <1>1, <1>5 DEF Steps, Popped
  <2>2. LiveSteps(new) = Front(a) /\ new.rev = old.rev + 1 /\ new.undo.head <= new.rev
    BY <1>5 DEF Popped, NewStack
  <2> HIDE DEF a
  <2>3. PartOf(Front(a), a)
    BY <2>1, PartOfSteps
  <2>4. ASSUME NEW n \in Steps(new) PROVE n \in Steps(old)
    <3>1. PICK i \in 1 .. Len(Front(a)) : n = Front(a)[i]
      BY <2>2 DEF Steps
    <3>2. PICK j \in 1 .. Len(a) : Front(a)[i] = a[j]
      BY <2>3 DEF PartOf
    <3> QED BY <2>1, <3>1, <3>2
  <2>5. \A n \in Steps(new) : n < new.rev /\ n <= old.rev /\ PhotoFits(n)
    BY <1>1, <1>2, <2>2, <2>4
  <2> QED BY <2>2, <2>5 DEF StepsFit
<1>6. CASE NewStack(old, new) /\ Replaced(old, new)
  <2>1. Steps(new) = {}
    BY <1>6, EmptySeq DEF Replaced, Steps
  <2> QED BY <1>6, <2>1 DEF StepsFit, NewStack
<1> QED BY <1>3, <1>4, <1>5, <1>6 DEF Undoing, NewStack

\* What a save in the writer does to the stack does not change under it.
LEMMA UndoingStays ==
  ASSUME Lasts, Project \in ProjectType, Project' \in ProjectType,
         NEW old \in ProjectType, NEW new \in ProjectType, old = Project,
         StepsFit(old), Undoing(old, new)
  PROVE  Undoing(old, new)'
<1>1. old.rev \in Nat /\ old.rev <= Project.rev /\ \A n \in Steps(old) : n <= Project.rev
  <2>1. old.rev \in Nat /\ old.rev <= old.rev
    BY ProjectFields
  <2>2. \A n \in Steps(old) : n <= old.rev
    BY <2>1, OlderSteps
  <2> QED BY <2>1, <2>2
<1>2. \A n \in Steps(old) : history'[n] = history[n]
  BY <1>1, StepsStay
<1>3. Pushed(old, new) => Pushed(old, new)'
  <2>1. PhotoFits(old.rev) => PhotoFits(old.rev)'
    BY <1>1, PhotoStays
  <2> QED BY <2>1 DEF Pushed
<1>4. Popped(old, new) => Popped(old, new)'
  <2>1. LiveSteps(old) # <<>> => history'[UndoTop(old)] = history[UndoTop(old)]
    BY <1>2, TopIsStep
  <2> QED BY <2>1 DEF Popped
<1>5. Replaced(old, new) => Replaced(old, new)'
  BY DEF Replaced
<1> QED BY <1>3, <1>4, <1>5 DEF Undoing, NewStack, SameStack

\* What a request knows of the stack does not change under it.
SameRequest(c) ==
  /\ req[c].step # "idle" /\ req'[c].loaded = req[c].loaded /\ req'[c].snap = req[c].snap
  /\ req'[c].kind = "Undo" => req[c].kind = "Undo"
  /\ req'[c].step = "photo" => req[c].step = "photo" /\ req'[c].kind = req[c].kind
  /\ req'[c].kind \in Photographed /\ req'[c].step \in {"ready", "saving"} =>
       req[c].kind \in Photographed /\ req[c].step \in {"ready", "saving"}

LEMMA RequestStays ==
  ASSUME StoreInv, Lasts, Project' \in ProjectType, StepsFit(Project),
         NEW c \in Client, SameRequest(c), Undoes(c)
  PROVE  Undoes(c)'
<1>1. /\ Project \in ProjectType /\ req[c].loaded \in ProjectType
      /\ Follows(req[c].loaded, Project)
  BY ProjectThere DEF StoreInv, TypeOK, ReqInv, UnderWay, SameRequest
<1>2. PICK l \in ProjectType : l = req[c].loaded
  BY <1>1
<1>3. PICK p \in ProjectType : p = Project
  BY <1>1
<1>4. /\ req'[c].loaded = l /\ l.rev \in Nat /\ p.rev \in Nat /\ l.rev <= p.rev
      /\ l.rev \in Int /\ Project'.rev \in Int /\ p.rev <= Project'.rev
      /\ (Project'.rev = p.rev => Project'.undo = p.undo)
  BY <1>1, <1>2, <1>3, ProjectFields DEF Follows, Lasts, SameRequest
<1>5. l.rev = Project'.rev => l.rev = p.rev /\ Project'.undo = p.undo
  BY <1>4
<1>6. l.rev = Project'.rev => l.undo = Project'.undo
  BY <1>2, <1>3, <1>5 DEF Undoes
<1>7. req'[c].kind \in Photographed /\ req'[c].step \in {"ready", "saving"} => PhotoFits(l.rev)'
  <2>1. PhotoFits(l.rev) => PhotoFits(l.rev)'
    BY <1>1, <1>3, <1>4, PhotoStays
  <2> QED BY <1>2, <2>1 DEF SameRequest, Undoes
<1>8. ASSUME req'[c].kind = "Undo", l.rev = Project'.rev
      PROVE  LiveSteps(l) # <<>> /\ req'[c].snap = history'[UndoTop(l)]
  <2>1. l.rev = p.rev /\ l.undo = p.undo /\ LiveSteps(l) # <<>>
        /\ req[c].snap = history[UndoTop(l)]
    BY <1>2, <1>3, <1>5, <1>8 DEF SameRequest, Undoes
  <2>2. LiveSteps(p) # <<>> /\ UndoTop(p) = UndoTop(l)
    BY <2>1 DEF LiveSteps, UndoTop
  <2>3. StepsFit(p) /\ p.rev <= p.rev /\ UndoTop(p) \in Steps(p)
    BY <1>3, <1>4, <2>2, TopIsStep
  <2>4. \A n \in Steps(p) : n <= Project.rev
    BY <1>3, <1>4, <2>3, OlderSteps
  <2>5. history'[UndoTop(p)] = history[UndoTop(p)]
    BY <1>1, <2>3, <2>4, StepsStay
  <2> QED BY <2>1, <2>2, <2>5 DEF SameRequest
<1>9. req'[c].step = "photo" => req'[c].kind \in Photographed
  BY DEF SameRequest, Undoes
<1> QED BY <1>4, <1>6, <1>7, <1>8, <1>9 DEF Undoes

LEMMA AgreeStays ==
  ASSUME StoreInv, RequestsAgree, Lasts
  PROVE  RequestsAgree'
<1>1. ASSUME NEW c \in Client, NEW d \in Client, req'[c].step # "idle", req'[d].step # "idle",
             req'[c].loaded.rev = req'[d].loaded.rev
      PROVE  req'[c].loaded.content = req'[d].loaded.content
  <2>1. \A e \in Client : req[e].step # "idle" => Follows(req[e].loaded, Project)
    BY DEF StoreInv, ReqInv, UnderWay
  <2>2. /\ (req[c].step # "idle" /\ req'[c].loaded = req[c].loaded) \/ req'[c].loaded = Project
        /\ (req[d].step # "idle" /\ req'[d].loaded = req[d].loaded) \/ req'[d].loaded = Project
    BY <1>1 DEF Lasts
  <2>3. CASE req'[c].loaded = req[c].loaded /\ req'[d].loaded = req[d].loaded
             /\ req[c].step # "idle" /\ req[d].step # "idle"
    BY <1>1, <2>3 DEF RequestsAgree
  <2>4. CASE req'[c].loaded = Project
    BY <1>1, <2>1, <2>2, <2>4 DEF Follows
  <2>5. CASE req'[d].loaded = Project
    BY <1>1, <2>1, <2>2, <2>5 DEF Follows
  <2> QED BY <2>2, <2>3, <2>4, <2>5
<1> QED BY <1>1 DEF RequestsAgree

\* A step that changes no file, or only the copy of the same project, leaves a
\* stack that fits, and a copy that fits, with the same photos.
LEMMA FilesFit ==
  ASSUME StoreInv, StoreInv', UndoInv, Lasts, Project' = Project,
         previous' \in {previous, Project, Torn}
  PROVE  /\ StepsFit(Project)' /\ CopyFits'
         /\ \A n \in Steps(Project) : history'[n] = history[n]
         /\ previous \in ProjectType => \A n \in Steps(previous) : history'[n] = history[n]
<1>1. Project \in ProjectType /\ Project' \in ProjectType
  BY ProjectThere
<1>2. PICK p \in ProjectType : p = Project
  BY <1>1
<1>3. p.rev \in Nat /\ p.rev <= p.rev
  BY ProjectFields
<1>4. StepsFit(p)' /\ \A n \in Steps(p) : history'[n] = history[n]
  <2>1. StepsFit(p) /\ \A n \in Steps(p) : n <= Project.rev
    BY <1>2, <1>3, OlderSteps DEF UndoInv
  <2> QED BY <1>1, <2>1, StepsStay
<1>5. StepsFit(Project)'
  BY <1>1, <1>2, <1>4 DEF StepsFit
<1>6. ASSUME NEW q \in ProjectType, q = previous
      PROVE  q.rev <= Project.rev /\ StepsFit(q)' /\ \A n \in Steps(q) : history'[n] = history[n]
  <2>1. q.rev <= p.rev /\ StepsFit(q)
    BY <1>2, <1>6 DEF UndoInv, CopyFits
  <2>2. \A n \in Steps(q) : n <= Project.rev
    BY <1>2, <1>3, <2>1, OlderSteps
  <2>3. StepsFit(q)' /\ \A n \in Steps(q) : history'[n] = history[n]
    BY <1>1, <2>1, <2>2, StepsStay
  <2> QED BY <1>2, <2>1, <2>3
<1>7. CopyFits'
  <2>1. CASE previous' = previous
    BY <1>6, <2>1 DEF CopyFits, StepsFit
  <2>2. CASE previous' = Project
    BY <1>2, <1>3, <1>5, <2>2 DEF CopyFits, StepsFit
  <2>3. CASE previous' = Torn
    BY <2>3, StoreAssumption DEF CopyFits, StoreAssumption
  <2> QED BY <2>1, <2>2, <2>3
<1> QED BY <1>1, <1>2, <1>4, <1>5, <1>6, <1>7

\* A step that leaves files and photos alone.
LEMMA QuietLasts ==
  ASSUME StoreInv, main' = main, previous' = previous, history' = history,
         \A c \in Client : req'[c].step # "idle" => SameRequest(c) \/ req'[c].loaded = Project
  PROVE  Lasts
<1>1. Project' = Project /\ Project \in ProjectType
  BY ProjectThere DEF Project
<1>2. Project.rev \in Int
  BY <1>1, ProjectFields
<1> QED BY <1>1, <1>2 DEF Lasts, SameRequest

\* A save in the writer stays what it was.
LEMMA WriterStays ==
  ASSUME StoreInv, StoreInv', UndoInv, Lasts, main' = main, previous' = previous,
         writer.step # "idle", writer'.next = writer.next
  PROVE  WriterUndoes'
<1>1. Project' = Project /\ Project \in ProjectType /\ Project' \in ProjectType
      /\ writer.next \in ProjectType
  BY ProjectThere DEF Project, StoreInv, TypeOK
<1>2. PICK p \in ProjectType, q \in ProjectType : p = Project /\ q = writer.next
  BY <1>1
<1>3. Undoing(p, q)'
  BY <1>1, <1>2, UndoingStays DEF UndoInv, WriterUndoes
<1> QED BY <1>1, <1>2, <1>3 DEF WriterUndoes, Undoing, SameStack, NewStack, Pushed, Popped, Replaced

LEMMA ProjectStaysThere ==
  ASSUME StoreInv'
  PROVE  Project' \in ProjectType
  BY DEF StoreInv, TypeOK, FilesInv, Project

LEMMA RequestsStay ==
  ASSUME StoreInv, StoreInv', UndoInv, Lasts,
         \A c \in Client : req'[c].step # "idle" => SameRequest(c) \/ Undoes(c)'
  PROVE  RequestsUndo'
<1>1. Project' \in ProjectType /\ StepsFit(Project) /\ RequestsUndo
  BY ProjectStaysThere DEF UndoInv
<1>2. ASSUME NEW c \in Client, SameRequest(c) PROVE Undoes(c)'
  <2>1. Undoes(c)
    BY <1>1, <1>2 DEF SameRequest, RequestsUndo
  <2> QED BY <1>1, <1>2, <2>1, RequestStays
<1> QED BY <1>2 DEF RequestsUndo

\* The parts of the invariant after a step that leaves both files alone.
LEMMA QuietUndoInv ==
  ASSUME StoreInv, StoreInv', UndoInv, Lasts, main' = main, previous' = previous,
         \A c \in Client : req'[c].step # "idle" => SameRequest(c) \/ Undoes(c)',
         WriterUndoes' \/ (writer.step # "idle" /\ writer'.next = writer.next)
                       \/ writer'.step = "idle"
  PROVE  UndoInv'
<1>1. StepsFit(Project)' /\ CopyFits'
  <2>1. Project' = Project /\ previous' \in {previous, Project, Torn}
    BY DEF Project
  <2> QED BY <2>1, FilesFit
<1>2. RequestsUndo'
  BY RequestsStay
<1>3. RequestsAgree'
  BY AgreeStays DEF UndoInv
<1>4. WriterUndoes'
  <2>1. CASE writer.step # "idle" /\ writer'.next = writer.next
    BY <2>1, WriterStays
  <2>2. CASE writer'.step = "idle"
    BY <2>2 DEF WriterUndoes
  <2> QED BY <2>1, <2>2
<1> QED BY <1>1, <1>2, <1>3, <1>4 DEF UndoInv

\* What an aborted, refused or rendered preview, a job and a stuttering step
\* do: no request learns anything of the stack.
LEMMA QuietStep ==
  ASSUME StoreInv, StoreInv', UndoInv,
         main' = main, previous' = previous, history' = history,
         \A c \in Client : req'[c].step # "idle" => SameRequest(c),
         writer' = writer
  PROVE  UndoInv' /\ Lasts
<1>1. Lasts
  BY QuietLasts
<1>2. (writer.step # "idle" /\ writer'.next = writer.next) \/ writer'.step = "idle"
  OBVIOUS
<1> QED BY <1>1, <1>2, QuietUndoInv

LEMMA PreviewsUndo ==
  ASSUME StoreInv, StoreInv', UndoInv,
         \/ \E c \in Client : RefusePreview(c) \/ Rendered(c)
         \/ StartAnalysis \/ StartPreparation \/ UNCHANGED vars
  PROVE  UndoInv' /\ Lasts /\ main' = main /\ previous' = previous
<1>1. /\ main' = main /\ previous' = previous /\ history' = history /\ writer' = writer
  BY DEF RefusePreview, Rendered, StartAnalysis, StartPreparation, vars, files
<1>2. NoRequest.step = "idle"
  BY DEF NoRequest
<1> HIDE DEF NoRequest
<1>3. ASSUME NEW d \in Client, req'[d].step # "idle" PROVE SameRequest(d)
  <2>1. CASE \E c \in Client : RefusePreview(c)
    BY <1>3, <2>1 DEF RefusePreview, SameRequest
  <2>2. CASE UNCHANGED vars
    BY <1>3, <2>2 DEF vars, SameRequest
  <2>3. CASE StartAnalysis \/ StartPreparation
    BY <1>2, <1>3, <2>3 DEF StartAnalysis, StartPreparation, AbortPreviews, SameRequest
  <2>4. ASSUME NEW c \in Client, Rendered(c) PROVE SameRequest(d)
    <3> DEFINE kind == IF latest = c THEN "Preview" ELSE "Stale preview"
               new == [step |-> "ready", kind |-> kind, loaded |-> req[c].loaded,
                       snap |-> req[c].snap]
    <3>1. req' = [req EXCEPT ![c] = new] /\ req[c].step = "rendering"
      BY <2>4 DEF Rendered, Goes
    <3>2. kind \notin Photographed /\ kind # "Undo" /\ new.kind = kind /\ new.step = "ready"
          /\ new.loaded = req[c].loaded /\ new.snap = req[c].snap
      BY DEF Photographed
    <3> HIDE DEF new, kind
    <3>3. req'[d] = IF d = c THEN new ELSE req[d]
      BY <3>1 DEF StoreInv, TypeOK
    <3> QED BY <1>3, <3>1, <3>2, <3>3 DEF SameRequest
  <2> QED BY <2>1, <2>2, <2>3, <2>4
<1> QED BY <1>1, <1>3, QuietStep

LEMMA LoadUndo ==
  ASSUME StoreInv, StoreInv', UndoInv, NEW c \in Client, NEW kind \in Kinds, Load(c, kind)
  PROVE  UndoInv' /\ Lasts /\ main' = main /\ previous' = previous
<1> DEFINE snap == IF kind = "Undo" THEN history[UndoTop(Project)] ELSE <<>>
           new == [step |-> AfterLoad(kind), kind |-> kind, loaded |-> Project, snap |-> snap]
<1>1. /\ main' = main /\ previous' = previous /\ history' = history /\ writer' = writer
      /\ req' = [req EXCEPT ![c] = new] /\ Project' = Project
      /\ (kind = "Undo" => LiveSteps(Project) # <<>>)
  BY DEF Load, files, Project
<1>2. /\ new.step = AfterLoad(kind) /\ new.kind = kind /\ new.loaded = Project /\ new.snap = snap
  OBVIOUS
<1>3. /\ kind \in Photographed => AfterLoad(kind) = "photo"
      /\ AfterLoad(kind) = "photo" => kind \in Photographed
  <2>1. kind \in Photographed => AfterLoad(kind) = "photo"
    BY DEF AfterLoad, Photographed
  <2>2. kind \notin Photographed => AfterLoad(kind) \in {"rendering", "ready"}
    BY DEF AfterLoad
  <2> QED BY <2>1, <2>2
<1>4. kind = "Undo" => snap = history[UndoTop(Project)]
  OBVIOUS
<1> HIDE DEF new, snap
<1>5. \A d \in Client : req'[d] = IF d = c THEN new ELSE req[d]
  BY <1>1 DEF StoreInv, TypeOK
<1>6. \A d \in Client \ {c} : req'[d].step # "idle" => SameRequest(d)
  BY <1>5 DEF SameRequest
<1>7. req'[c].loaded = Project
  BY <1>2, <1>5
<1>8. Undoes(c)'
  BY <1>1, <1>2, <1>3, <1>4, <1>5 DEF Undoes
<1>9. Lasts
  BY <1>1, <1>6, <1>7, QuietLasts
<1>10. (writer.step # "idle" /\ writer'.next = writer.next) \/ writer'.step = "idle"
  BY <1>1
<1> QED BY <1>1, <1>6, <1>8, <1>9, <1>10, QuietUndoInv

\* Whoever photographs a revision writes the same photo.
LEMMA PhotographUndo ==
  ASSUME StoreInv, StoreInv', UndoInv, NEW c \in Client, Photograph(c)
  PROVE  UndoInv' /\ Lasts /\ main' = main /\ previous' = previous
<1>1. /\ main' = main /\ previous' = previous /\ writer' = writer /\ Project' = Project
      /\ Project \in ProjectType /\ req[c].loaded \in ProjectType
      /\ req[c].step # "idle" /\ Follows(req[c].loaded, Project)
  BY ProjectThere DEF Photograph, Project, StoreInv, TypeOK, ReqInv, UnderWay
<1>2. PICK l \in ProjectType : l = req[c].loaded
  BY <1>1
<1>3. /\ DOMAIN history' = DOMAIN history \cup {l.rev}
      /\ \A n \in DOMAIN history \cup {l.rev} :
           history'[n] = IF n = l.rev THEN l.content ELSE history[n]
  BY <1>2 DEF Photograph
<1> DEFINE new == [step |-> "ready", kind |-> req[c].kind, loaded |-> req[c].loaded,
                   snap |-> req[c].snap]
<1>4. /\ req' = [req EXCEPT ![c] = new] /\ new.step = "ready" /\ new.kind = req[c].kind
      /\ new.loaded = l /\ new.snap = req[c].snap
  BY <1>2 DEF Photograph, Goes
<1> HIDE DEF new
<1>5. \A d \in Client : req'[d] = IF d = c THEN new ELSE req[d]
  BY <1>4 DEF StoreInv, TypeOK
<1>6. \A d \in Client \ {c} : req'[d].step # "idle" => SameRequest(d)
  BY <1>5 DEF SameRequest
<1>7. \A d \in Client : req'[d].step # "idle" =>
        req[d].step # "idle" /\ req'[d].loaded = req[d].loaded
  BY <1>1, <1>2, <1>4, <1>5
<1>8. Lasts
  <2>1. \A n \in DOMAIN history : PhotoFits(n) => history'[n] = history[n]
    BY <1>1, <1>2, <1>3 DEF PhotoFits
  <2>2. Project.rev \in Int
    BY <1>1, ProjectFields
  <2> QED BY <1>1, <1>3, <1>7, <2>1, <2>2 DEF Lasts
<1>9. PhotoFits(l.rev)'
  <2>1. l.rev \in DOMAIN history' /\ history'[l.rev] = l.content
    BY <1>3
  <2>2. l.rev = Project'.rev => l.content = Project'.content
    BY <1>1, <1>2 DEF Follows
  <2>3. ASSUME NEW d \in Client, req'[d].step # "idle", req'[d].loaded.rev = l.rev
        PROVE  l.content = req'[d].loaded.content
    BY <1>1, <1>2, <1>7, <2>3 DEF UndoInv, RequestsAgree
  <2> QED BY <2>1, <2>2, <2>3 DEF PhotoFits
<1>10. Undoes(c)'
  <2>1. Undoes(c) /\ req'[c].loaded = l /\ req'[c].snap = req[c].snap
        /\ req'[c].kind = req[c].kind
    BY <1>1, <1>4, <1>5 DEF UndoInv, RequestsUndo
  <2>2. req[c].kind # "Undo"
    <3>1. req[c].kind \in Photographed
      BY <2>1 DEF Undoes, Photograph
    <3> QED BY <3>1 DEF Photographed
  <2>3. req'[c].step = "ready"
    BY <1>4, <1>5
  <2> QED BY <1>1, <1>2, <1>9, <2>1, <2>2, <2>3 DEF Undoes
<1>11. (writer.step # "idle" /\ writer'.next = writer.next) \/ writer'.step = "idle"
  BY <1>1
<1> QED BY <1>1, <1>6, <1>8, <1>10, <1>11, QuietUndoInv

\* A change with its step recorded.
LEMMA RecordedPushes ==
  ASSUME NEW p \in ProjectType, NEW before \in ProjectType, NEW c \in Client, NEW new,
         UndoLimit \in Nat \ {0},
         before.rev = p.rev, before.content = p.content, before.undo = p.undo, PhotoFits(p.rev),
         new.rev = RecordUndo(before, Bump(before, Append(before.content, c))).rev,
         new.content = RecordUndo(before, Bump(before, Append(before.content, c))).content,
         new.undo = RecordUndo(before, Bump(before, Append(before.content, c))).undo
  PROVE  NewStack(p, new)
<1> DEFINE steps == Newest(Append(LiveSteps(before), before.rev))
<1>1. /\ new.rev = before.rev + 1 /\ new.content = Append(before.content, c)
      /\ new.undo = [head |-> before.rev + 1, steps |-> steps]
  BY DEF RecordUndo, WithUndo, Bump
<1>2. steps = Newest(Append(LiveSteps(p), p.rev))
  BY DEF LiveSteps
<1> HIDE DEF steps
<1>3. new.undo.head = new.rev /\ new.undo.steps = steps
  BY <1>1
<1>4. LiveSteps(new) = steps
  BY <1>3 DEF LiveSteps
<1>5. Pushed(p, new)
  BY <1>1, <1>2, <1>4 DEF Pushed
<1>6. new.rev = p.rev + 1 /\ new.rev \in Nat
  BY <1>1, ProjectFields
<1> QED BY <1>3, <1>5, <1>6 DEF NewStack

\* A save that passes the check does one thing to the stack.
LEMMA OutcomeUndoes ==
  ASSUME StoreAssumption, NEW c \in Client, NEW p \in ProjectType, p = Project, StepsFit(p),
         req[c].loaded \in ProjectType, req[c].kind \in SaveKinds, req[c].step = "ready",
         Follows(req[c].loaded, p), Undoes(c), Passes(c, p)
  PROVE  Undoing(p, Outcome(c, p))
<1> DEFINE q == Outcome(c, p)
<1>1. PICK l \in ProjectType, kind \in SaveKinds : l = req[c].loaded /\ kind = req[c].kind
  OBVIOUS
<1>2. UndoLimit \in Nat \ {0}
  BY DEF StoreAssumption
<1>3. /\ l.rev = p.rev /\ p.content = l.content /\ l.undo = p.undo
      /\ l.rev \in Int /\ p.rev \in Int
      /\ (kind \in Photographed => PhotoFits(p.rev))
      /\ (kind = "Undo" => LiveSteps(l) # <<>> /\ req[c].snap = history[UndoTop(l)])
  BY <1>1, ProjectFields DEF Passes, Follows, Undoes
<1>4. CASE kind = "Edit"
  <2> DEFINE s == RecordUndo(l, Bump(l, Append(l.content, c)))
  <2>1. q = Merge(p, s, l)
    BY <1>1, <1>4 DEF Outcome, Submitted, Functional
  <2>2. s.rev > p.rev
    BY <1>3 DEF RecordUndo, WithUndo, Bump
  <2>3. q.rev = s.rev /\ q.content = s.content /\ q.undo = s.undo
    BY <2>1, <2>2 DEF Merge, WithResults
  <2> HIDE DEF q
  <2>4. kind \in Photographed
    BY <1>4 DEF Photographed
  <2>5. NewStack(p, q)
    BY <1>2, <1>3, <2>3, <2>4, RecordedPushes
  <2> QED BY <2>5 DEF Undoing, q
<1>5. CASE kind = "Fillers"
  <2>1. q = RecordUndo(p, Bump(p, Append(p.content, c)))
    BY <1>1, <1>5 DEF Outcome, Updated, Functional
  <2> HIDE DEF q
  <2>2. kind \in Photographed
    BY <1>5 DEF Photographed
  <2>3. NewStack(p, q)
    BY <1>2, <1>3, <2>1, <2>2, RecordedPushes
  <2> QED BY <2>3 DEF Undoing, q
<1>6. CASE kind = "Input"
  <2> DEFINE s == Bump(l, Append(l.content, c))
  <2>1. q = Merge(p, s, l)
    BY <1>1, <1>6 DEF Outcome, Submitted, Functional
  <2>2. s.rev > p.rev
    BY <1>3 DEF Bump
  <2>3. q.rev = p.rev + 1 /\ q.content = Append(p.content, c) /\ q.undo = p.undo
    BY <1>3, <2>1, <2>2 DEF Merge, WithResults, Bump
  <2> HIDE DEF q
  <2>4. p.undo.head <= p.rev /\ p.undo.head \in Int
    BY ProjectFields DEF StepsFit, Null
  <2>5. q.undo.head <= q.rev /\ q.undo.head # q.rev
    BY <1>3, <2>3, <2>4
  <2>6. LiveSteps(q) = <<>>
    BY <2>5 DEF LiveSteps
  <2>7. Replaced(p, q)
    BY <2>3, <2>6 DEF Replaced
  <2> QED BY <2>3, <2>5, <2>7 DEF Undoing, NewStack, q
<1>7. CASE kind = "Undo"
  <2>1. q = PopUndo(p, Bump(p, req[c].snap))
    BY <1>1, <1>7 DEF Outcome, Updated, Functional
  <2>2. /\ q.rev = p.rev + 1 /\ q.content = req[c].snap
        /\ q.undo = [head |-> p.rev + 1, steps |-> Front(LiveSteps(p))]
    BY <2>1 DEF PopUndo, WithUndo, Bump
  <2> HIDE DEF q
  <2>3. q.undo.head = q.rev /\ q.undo.steps = Front(LiveSteps(p))
    BY <2>2
  <2>4. LiveSteps(q) = Front(LiveSteps(p))
    BY <2>3 DEF LiveSteps
  <2>5. LiveSteps(l) = LiveSteps(p) /\ UndoTop(l) = UndoTop(p)
    BY <1>3 DEF LiveSteps, UndoTop
  <2>6. Popped(p, q)
    BY <1>3, <1>7, <2>2, <2>4, <2>5 DEF Popped
  <2>7. q.undo.head <= q.rev
    BY <1>3, <2>2, <2>3
  <2> QED BY <2>2, <2>6, <2>7 DEF Undoing, NewStack, q
<1>8. CASE kind \in {"Preview", "Stale preview", "Approve"}
  <2> DEFINE s == IF kind = "Preview" THEN RecordPreview(l)
                  ELSE IF kind = "Approve" THEN Approve(l) ELSE l
  <2>1. q = Merge(p, s, l)
    BY <1>1, <1>8 DEF Outcome, Submitted, Functional
  <2>2. s.rev = p.rev
    BY <1>3 DEF RecordPreview, Approve, WithReview
  <2> HIDE DEF s
  <2>3. ~(s.rev > p.rev)
    BY <1>3, <2>2
  <2>4. q.rev = p.rev /\ q.content = p.content /\ q.undo = p.undo
    BY <2>1, <2>3 DEF Merge, WithReview, WithResults
  <2> QED BY <2>4 DEF Undoing, SameStack
<1> QED BY <1>4, <1>5, <1>6, <1>7, <1>8 DEF SaveKinds, Kinds, Bumping, Photographed

\* The save enters the writer.
LEMMA BeginUndo ==
  ASSUME StoreInv, StoreInv', UndoInv, NEW c \in Client, BeginSave(c)
  PROVE  UndoInv' /\ Lasts /\ main' = main /\ previous' = previous
<1>1. /\ main' = main /\ previous' = previous /\ history' = history
      /\ Project' = Project /\ Project \in ProjectType /\ Project' \in ProjectType
      /\ req[c].step = "ready" /\ writer.step = "idle" /\ UnderWay(req[c])
      /\ req[c].loaded \in ProjectType
  BY ProjectThere DEF BeginSave, files, Project, StoreInv, ReqInv, TypeOK
<1>2. PICK p \in ProjectType : p = Project
  BY <1>1
<1>3. StepsFit(p) /\ Undoes(c) /\ Follows(req[c].loaded, p) /\ req[c].kind \in SaveKinds
  BY <1>1, <1>2 DEF UndoInv, RequestsUndo, UnderWay
<1>4. CASE Passes(c, Project)
  <2> DEFINE new == [step |-> "saving", kind |-> req[c].kind, loaded |-> req[c].loaded,
                     snap |-> req[c].snap]
  <2>1. PICK q : q = Outcome(c, p)
    OBVIOUS
  <2>2. Undoing(p, q)
    BY <1>1, <1>2, <1>3, <1>4, <2>1, OutcomeUndoes, StoreAssumption
  <2>3. /\ writer'.next = q /\ req' = [req EXCEPT ![c] = new]
        /\ new.step = "saving" /\ new.kind = req[c].kind /\ new.loaded = req[c].loaded
        /\ new.snap = req[c].snap
    BY <1>2, <1>4, <2>1 DEF BeginSave, EnterWriter, Goes
  <2> HIDE DEF new
  <2>4. \A d \in Client : req'[d] = IF d = c THEN new ELSE req[d]
    BY <2>3 DEF StoreInv, TypeOK
  <2>5. \A d \in Client : req'[d].step # "idle" => SameRequest(d)
    BY <1>1, <2>3, <2>4 DEF SameRequest
  <2>6. Lasts
    BY <1>1, <2>5, QuietLasts
  <2>7. q \in ProjectType
    BY <2>3 DEF StoreInv, TypeOK
  <2>8. Undoing(p, q)'
    BY <1>1, <1>2, <1>3, <2>2, <2>6, <2>7, UndoingStays
  <2>9. WriterUndoes'
    BY <1>1, <1>2, <2>3, <2>8
    DEF WriterUndoes, Undoing, SameStack, NewStack, Pushed, Popped, Replaced
  <2> QED BY <1>1, <2>5, <2>6, <2>9, QuietUndoInv
<1>5. CASE ~Passes(c, Project)
  <2>1. writer' = writer /\ req' = [req EXCEPT ![c] = NoRequest]
    BY <1>5 DEF BeginSave
  <2>2. NoRequest.step = "idle"
    BY DEF NoRequest
  <2> HIDE DEF NoRequest
  <2>3. \A d \in Client : req'[d] = IF d = c THEN NoRequest ELSE req[d]
    BY <2>1 DEF StoreInv, TypeOK
  <2>4. \A d \in Client : req'[d].step # "idle" => SameRequest(d)
    BY <2>2, <2>3 DEF SameRequest
  <2> QED BY <1>1, <2>1, <2>4, QuietStep
<1> QED BY <1>4, <1>5

\* The background writers leave the stack alone.
LEMMA ResultUndo ==
  ASSUME StoreInv, StoreInv', UndoInv,
         (\E n \in analysing : SaveAnalysis(n)) \/ (\E n \in claiming : SaveClaim(n))
  PROVE  UndoInv' /\ Lasts /\ main' = main /\ previous' = previous
<1>1. /\ main' = main /\ previous' = previous /\ history' = history /\ req' = req
      /\ Project' = Project
  BY DEF SaveAnalysis, SaveClaim, files, Project
<1>2. PICK analysis, claim : writer'.next = WithResults(Project, analysis, claim)
  BY DEF SaveAnalysis, SaveClaim, EnterWriter
<1>3. \A d \in Client : req'[d].step # "idle" => SameRequest(d)
  BY <1>1 DEF SameRequest
<1>4. Lasts
  BY <1>1, <1>3, QuietLasts
<1>5. WriterUndoes'
  BY <1>1, <1>2 DEF WriterUndoes, Undoing, SameStack, WithResults
<1> QED BY <1>1, <1>3, <1>4, <1>5, QuietUndoInv

\* The copy becomes the project.
LEMMA KeepUndo ==
  ASSUME StoreInv, StoreInv', UndoInv, KeepPrevious
  PROVE  UndoInv' /\ Lasts /\ Project' = Project /\ previous' = Project /\ previous' \in ProjectType
<1>1. /\ main' = main /\ previous' = main /\ history' = history /\ req' = req
      /\ main # Torn /\ main = Project /\ Project' = Project
      /\ Project \in ProjectType /\ Project' \in ProjectType /\ writer.next \in ProjectType
      /\ writer.step # "idle" /\ writer'.next = writer.next
  BY ProjectThere DEF KeepPrevious, StoreInv, FilesInv, TypeOK, Project
<1>2. \A d \in Client : req'[d].step # "idle" => SameRequest(d)
  BY <1>1 DEF SameRequest
<1>3. Lasts
  <2>1. Project.rev \in Int
    BY <1>1, ProjectFields
  <2> QED BY <1>1, <1>2, <2>1 DEF Lasts, SameRequest
<1>4. StepsFit(Project)' /\ CopyFits'
  BY <1>1, <1>3, FilesFit
<1>5. RequestsUndo'
  BY <1>2, <1>3, RequestsStay
<1>6. RequestsAgree'
  BY <1>3, AgreeStays DEF UndoInv
<1>7. WriterUndoes'
  <2>1. PICK p \in ProjectType, q \in ProjectType : p = Project /\ q = writer.next
    BY <1>1
  <2>2. Undoing(p, q)'
    BY <1>1, <1>3, <2>1, UndoingStays DEF UndoInv, WriterUndoes
  <2> QED BY <1>1, <2>1, <2>2
          DEF WriterUndoes, Undoing, SameStack, NewStack, Pushed, Popped, Replaced
<1> QED BY <1>1, <1>3, <1>4, <1>5, <1>6, <1>7 DEF UndoInv

\* Whichever file a crash destroys, the stack read afterwards is the same.
LEMMA CrashUndo ==
  ASSUME StoreInv, StoreInv', UndoInv, Crash
  PROVE  UndoInv' /\ Lasts /\ Project' = Project /\ previous' \in {previous, Torn}
<1>1. /\ main' = main \/ (writer.step = "main" /\ main' = Torn /\ previous' = previous)
      /\ previous' = previous \/ (writer.step = "previous" /\ previous' = Torn /\ main' = main)
      /\ writer' = Idle /\ req' = [c \in Client |-> NoRequest] /\ history' = history
  BY DEF Crash
<1>2. Project' = Project /\ Project \in ProjectType /\ Project' \in ProjectType
  BY <1>1, ProjectThere DEF Project, StoreInv, FilesInv
<1>3. /\ previous' \in {previous, Torn} /\ previous' \in {previous, Project, Torn}
      /\ writer'.step = "idle" /\ \A d \in Client : req'[d].step = "idle"
  BY <1>1 DEF Idle, NoRequest
<1>4. Lasts
  <2>1. Project.rev \in Int
    BY <1>2, ProjectFields
  <2> QED BY <1>1, <1>2, <1>3, <2>1 DEF Lasts
<1>5. StepsFit(Project)' /\ CopyFits'
  BY <1>2, <1>3, <1>4, FilesFit
<1> QED BY <1>2, <1>3, <1>4, <1>5 DEF UndoInv, RequestsUndo, RequestsAgree, WriterUndoes

\* The stack of the project published is what the save made of it.
LEMMA PublishUndo ==
  ASSUME StoreInv, StoreInv', UndoInv, Publish
  PROVE  /\ UndoInv' /\ Lasts
         /\ Project' = writer.next /\ writer.next \in ProjectType /\ Undoing(Project, writer.next)
         /\ previous = Project /\ previous' = previous /\ history' = history
<1>1. /\ main' = writer.next /\ previous' = previous /\ history' = history /\ writer' = Idle
      /\ req' = IF writer.who \in Client THEN [req EXCEPT ![writer.who] = NoRequest] ELSE req
      /\ writer.step = "main"
  BY DEF Publish
<1>2. /\ Project \in ProjectType /\ writer.next \in ProjectType /\ Follows(Project, writer.next)
      /\ Undoing(Project, writer.next) /\ StepsFit(Project)
  BY <1>1, ProjectThere DEF StoreInv, TypeOK, WriterInv, UndoInv, WriterUndoes
<1>3. PICK p \in ProjectType, q \in ProjectType : p = Project /\ q = writer.next
  BY <1>2
<1>4. Project' = q /\ previous = p
  BY <1>1, <1>2, <1>3, StoreAssumption DEF Project, StoreInv, FilesInv, StoreAssumption
<1>5. NoRequest.step = "idle" /\ Idle.step = "idle"
  BY DEF NoRequest, Idle
<1> HIDE DEF NoRequest, Idle
<1>6. \A d \in Client : req'[d] \in {req[d], NoRequest}
  BY <1>1 DEF StoreInv, TypeOK
<1>7. \A d \in Client : req'[d].step # "idle" => SameRequest(d)
  BY <1>5, <1>6 DEF SameRequest
<1>8. q.rev = p.rev => q.undo = p.undo
  <2>1. p.rev \in Int
    BY ProjectFields
  <2> QED BY <1>2, <1>3, <2>1 DEF Undoing, SameStack, NewStack
<1>9. Lasts
  BY <1>1, <1>2, <1>3, <1>4, <1>7, <1>8 DEF Lasts, Follows, SameRequest
<1>10. StepsFit(Project)'
  <2>1. UndoLimit \in Nat \ {0} /\ StepsFit(p) /\ Undoing(p, q)
    BY <1>2, <1>3, StoreAssumption DEF StoreAssumption
  <2>2. StepsFit(q) /\ \A n \in Steps(q) : n <= Project.rev
    BY <1>3, <2>1, NewStackFits
  <2>3. StepsFit(q)'
    BY <1>2, <1>3, <1>4, <1>9, <2>2, StepsStay
  <2> QED BY <1>4, <2>3 DEF StepsFit
<1>11. CopyFits'
  <2>1. p.rev \in Nat /\ p.rev <= p.rev /\ StepsFit(p)
    BY <1>2, <1>3, ProjectFields
  <2>2. \A n \in Steps(p) : n <= Project.rev
    BY <1>3, <2>1, OlderSteps
  <2>3. StepsFit(p)'
    BY <1>2, <1>3, <1>4, <1>9, <2>1, <2>2, StepsStay
  <2>4. p.rev <= q.rev
    BY <1>2, <1>3 DEF Follows
  <2> QED BY <1>1, <1>4, <2>3, <2>4 DEF CopyFits, StepsFit
<1>12. RequestsUndo'
  BY <1>7, <1>9, RequestsStay
<1>13. RequestsAgree'
  BY <1>9, AgreeStays DEF UndoInv
<1>14. WriterUndoes'
  BY <1>1, <1>5 DEF WriterUndoes
<1> QED BY <1>1, <1>2, <1>3, <1>4, <1>9, <1>10, <1>11, <1>12, <1>13, <1>14 DEF UndoInv

LEMMA InitUndoInv ==
  ASSUME Init
  PROVE  UndoInv /\ Project = BlankProject /\ previous = Missing /\ LiveSteps(BlankProject) = <<>>
<1>1. Project = BlankProject /\ previous = Missing
  BY BlankIsProject, StoreAssumption DEF Init, Project, StoreAssumption
<1>2. BlankProject.rev = 0 /\ BlankProject.undo.head = -1
  BY DEF BlankProject, NoUndo, Null
<1>3. LiveSteps(BlankProject) = <<>>
  BY <1>2 DEF LiveSteps
<1>4. Steps(BlankProject) = {}
  BY <1>3, EmptySeq DEF Steps
<1>5. StepsFit(Project)
  BY <1>1, <1>2, <1>4 DEF StepsFit
<1>6. CopyFits
  BY <1>1, StoreAssumption DEF CopyFits, StoreAssumption
<1>7. writer.step = "idle" /\ \A d \in Client : req[d].step = "idle"
  BY DEF Init, Idle, NoRequest
<1> QED BY <1>1, <1>3, <1>5, <1>6, <1>7 DEF UndoInv, RequestsUndo, RequestsAgree, WriterUndoes

LEMMA NextUndoInv ==
  ASSUME StoreInv, StoreInv', UndoInv, [Next]_vars
  PROVE  UndoInv' /\ Lasts
  BY PreviewsUndo, LoadUndo, PhotographUndo, BeginUndo, ResultUndo, KeepUndo, PublishUndo,
     CrashUndo DEF Next

-----------------------------------------------------------------------------
(* Every step of the store is a step of the undo stack, or none.           *)

LEMMA PastIsPhotos ==
  ASSUME NEW p
  PROVE  Past(p) = Photos(history, LiveSteps(p))
  BY DEF Past, Photos

LEMMA PastStays ==
  ASSUME NEW p \in ProjectType, \A n \in Steps(p) : history'[n] = history[n]
  PROVE  Past(p)' = Past(p)
<1>1. \A i \in 1 .. Len(LiveSteps(p)) : history'[LiveSteps(p)[i]] = history[LiveSteps(p)[i]]
  BY DEF Steps
<1> QED BY <1>1 DEF Past

\* A step that leaves the project and the copy is none.
LEMMA QuietRefines ==
  ASSUME StoreInv, StoreInv', UndoInv, Lasts, Project' = Project, previous' = previous
  PROVE  UNCHANGED Undoable!vars /\ Past(Project)' = Past(Project)
<1>1. Project \in ProjectType /\ previous \in ProjectType \cup {Missing, Torn}
  BY ProjectThere DEF StoreInv, TypeOK
<1>2. /\ \A n \in Steps(Project) : history'[n] = history[n]
      /\ previous \in ProjectType => \A n \in Steps(previous) : history'[n] = history[n]
  BY FilesFit
<1>3. PICK p \in ProjectType : p = Project
  BY <1>1
<1>4. Past(p)' = Past(p)
  BY <1>2, <1>3, PastStays
<1>5. Past(Project)' = Past(Project)
  BY <1>3, <1>4 DEF Past
<1>6. Kept' = Kept
  <2>1. CASE previous \in {Missing, Torn}
    BY <1>5, <2>1 DEF Kept
  <2>2. CASE previous \in ProjectType
    <3>1. PICK q \in ProjectType : q = previous
      BY <2>2
    <3>2. Past(q)' = Past(q)
      BY <1>2, <3>1, PastStays
    <3>3. q \notin {Missing, Torn}
      BY StoreAssumption DEF StoreAssumption
    <3>4. Kept = <<q.content, Past(q)>> /\ Kept' = <<q.content, Past(q)'>>
      BY <3>1, <3>3 DEF Kept, Past
    <3> QED BY <3>2, <3>4
  <2> QED BY <1>1, <2>1, <2>2
<1> QED BY <1>5, <1>6 DEF Undoable!vars

\* The copy set to the project, or lost, is the state put aside.
LEMMA KeepRefines ==
  ASSUME StoreInv, StoreInv', UndoInv, Lasts, Project' = Project, previous' \in {Project, Torn}
  PROVE  Undoable!Keep
<1>1. Project \in ProjectType
  BY ProjectThere
<1>2. \A n \in Steps(Project) : history'[n] = history[n]
  BY FilesFit
<1>3. PICK p \in ProjectType : p = Project
  BY <1>1
<1>4. Past(p)' = Past(p)
  BY <1>2, <1>3, PastStays
<1>5. Past(Project)' = Past(Project)
  BY <1>3, <1>4 DEF Past
<1>6. p \notin {Missing, Torn}
  BY StoreAssumption DEF StoreAssumption
<1>7. Kept' = <<p.content, Past(p)'>>
  BY <1>3, <1>6 DEF Kept, Past
<1>8. Kept' = <<Project.content, Past(Project)>>
  BY <1>3, <1>4, <1>7
<1> QED BY <1>5, <1>8 DEF Undoable!Keep, Undoable!Now

\* The photos of a stack that fits are contents.
LEMMA StackHasPhotos ==
  ASSUME StoreInv, NEW p \in ProjectType, StepsFit(p)
  PROVE  HasPhotos(history, LiveSteps(p), Seq(Client)) /\ LiveSteps(p) \in Seq(Nat)
<1>1. \A n \in Steps(p) : history[n] \in Seq(Client)
  BY DEF StoreInv, TypeOK, StepsFit, PhotoFits
<1> QED BY <1>1, StepsType DEF HasPhotos, Steps

\* What a save did to the steps is what the abstract stack does to contents.
LEMMA ChangeRefines ==
  ASSUME StoreInv, NEW p \in ProjectType, NEW q \in ProjectType, p = Project, Undoing(p, q),
         StepsFit(p)
  PROVE  \/ q.content = p.content /\ Past(q) = Past(p)
         \/ /\ Past(p) # <<>> /\ q.content = Last(Past(p)) /\ Past(q) = Front(Past(p))
         \/ \E e \in Client :
              /\ q.content = Append(p.content, e)
              /\ Past(q) \in {Newest(Append(Past(p), p.content)), <<>>}
<1> DEFINE s == LiveSteps(p)
<1>1. /\ HasPhotos(history, s, Seq(Client)) /\ s \in Seq(Nat) /\ p.rev \in Nat
      /\ UndoLimit \in Nat \ {0} /\ p.content \in Seq(Client)
  BY StackHasPhotos, ProjectFields, StoreAssumption DEF StoreAssumption
<1>2. Past(p) = Photos(history, s)
  BY PastIsPhotos
<1>3. CASE SameStack(p, q)
  <2>1. LiveSteps(q) = LiveSteps(p)
    BY <1>3 DEF SameStack, LiveSteps
  <2> QED BY <1>3, <2>1 DEF SameStack, Past
<1>4. CASE Pushed(p, q)
  <2>1. history[p.rev] = p.content /\ LiveSteps(q) = Newest(Append(s, p.rev))
    BY <1>4 DEF Pushed, PhotoFits
  <2> HIDE DEF s
  <2> DEFINE a == Append(s, p.rev)
  <2>2. Photos(history, a) = Append(Photos(history, s), p.content)
    BY <1>1, <2>1, PhotosOfAppend
  <2>3. a \in Seq(Nat) /\ HasPhotos(history, a, Seq(Client))
    <3>1. a \in Seq(Nat) /\ \A i \in 1 .. Len(a) : a[i] = p.rev \/ \E j \in 1 .. Len(s) : a[i] = s[j]
      BY <1>1
    <3> HIDE DEF a
    <3> QED BY <1>1, <2>1, <3>1 DEF HasPhotos
  <2> HIDE DEF a
  <2>4. Photos(history, Newest(a)) = Newest(Photos(history, a))
    BY <1>1, <2>3, PhotosOfNewest
  <2>5. Past(q) = Photos(history, Newest(a))
    BY <2>1, PastIsPhotos DEF a
  <2>6. Past(q) = Newest(Append(Past(p), p.content))
    BY <1>2, <2>2, <2>4, <2>5
  <2> QED BY <1>4, <2>6 DEF Pushed
<1>5. CASE Popped(p, q)
  <2>1. s # <<>> /\ LiveSteps(q) = Front(s) /\ q.content = history[Last(s)]
    BY <1>5 DEF Popped, UndoTop
  <2> HIDE DEF s
  <2>2. /\ Photos(history, s) # <<>> /\ Last(Photos(history, s)) = history[Last(s)]
        /\ Photos(history, Front(s)) = Front(Photos(history, s))
    BY <1>1, <2>1, PhotosOfFront
  <2>3. Past(q) = Photos(history, Front(s))
    BY <2>1, PastIsPhotos
  <2> QED BY <1>2, <2>1, <2>2, <2>3
<1>6. CASE Replaced(p, q)
  <2>1. Past(q) = <<>>
    <3>1. Photos(history, <<>>) = <<>>
      <4>1. <<>> \in Seq(Nat) /\ Len(<<>>) = 0
        BY EmptySeq
      <4>2. HasPhotos(history, <<>>, Seq(Client))
        BY <4>1 DEF HasPhotos
      <4>3. Photos(history, <<>>) \in Seq(Seq(Client)) /\ Len(Photos(history, <<>>)) = 0
        BY <4>1, <4>2, PhotosSeq
      <4> QED BY <4>3, EmptySeq
    <3> QED BY <1>6, <3>1, PastIsPhotos DEF Replaced
  <2> QED BY <1>6, <2>1 DEF Replaced
<1> QED BY <1>3, <1>4, <1>5, <1>6 DEF Undoing, NewStack

LEMMA PublishRefines ==
  ASSUME StoreInv, StoreInv', UndoInv, Publish
  PROVE  [Undoable!Next]_Undoable!vars
<1>1. /\ Lasts /\ Project \in ProjectType /\ Project' \in ProjectType
      /\ Project' = writer.next /\ writer.next \in ProjectType /\ Undoing(Project, writer.next)
      /\ previous = Project /\ previous' = previous /\ history' = history
      /\ StepsFit(Project)
  BY PublishUndo, ProjectThere DEF UndoInv
<1>2. PICK p \in ProjectType, q \in ProjectType : p = Project /\ q = writer.next
  BY <1>1
<1>3. p \notin {Missing, Torn}
  BY StoreAssumption DEF StoreAssumption
<1>4. Past(p)' = Past(p) /\ Past(q)' = Past(q)
  BY <1>1 DEF Past
<1>5. Kept = <<p.content, Past(p)>> /\ Kept' = <<p.content, Past(p)>>
  BY <1>1, <1>2, <1>3, <1>4 DEF Kept, Past
<1>6. /\ Project.content = p.content /\ Project'.content = q.content
      /\ Past(Project) = Past(p) /\ Past(Project)' = Past(q)
  BY <1>1, <1>2, <1>4 DEF Past
<1>7. \/ q.content = p.content /\ Past(q) = Past(p)
      \/ /\ Past(p) # <<>> /\ q.content = Last(Past(p)) /\ Past(q) = Front(Past(p))
      \/ \E e \in Client :
           /\ q.content = Append(p.content, e)
           /\ Past(q) \in {Newest(Append(Past(p), p.content)), <<>>}
  BY <1>1, <1>2, ChangeRefines
<1>8. CASE q.content = p.content /\ Past(q) = Past(p)
  BY <1>5, <1>6, <1>8 DEF Undoable!vars
<1>9. CASE Past(p) # <<>> /\ q.content = Last(Past(p)) /\ Past(q) = Front(Past(p))
  <2>1. Undoable!Undo
    BY <1>6, <1>9 DEF Undoable!Undo, Undoable!Last, Undoable!Front, Last, Front
  <2> QED BY <1>5, <1>6, <2>1 DEF Undoable!Next, Undoable!Change, Undoable!Now
<1>10. ASSUME NEW e \in Client, q.content = Append(p.content, e),
              Past(q) \in {Newest(Append(Past(p), p.content)), <<>>}
       PROVE  Undoable!Next
  <2>1. Undoable!Edit(e) \/ Undoable!Replace(e)
    BY <1>6, <1>10 DEF Undoable!Edit, Undoable!Replace, Undoable!Newest, Newest
  <2> QED BY <1>5, <1>6, <2>1 DEF Undoable!Next, Undoable!Change, Undoable!Now
<1> QED BY <1>7, <1>8, <1>9, <1>10

LEMMA StepRefines ==
  ASSUME StoreInv, StoreInv', UndoInv, [Next]_vars
  PROVE  [Undoable!Next]_Undoable!vars
<1>1. CASE Publish
  BY <1>1, PublishRefines
<1>2. CASE KeepPrevious
  <2>1. Undoable!Keep
    BY <1>2, KeepUndo, KeepRefines
  <2> QED BY <2>1 DEF Undoable!Next
<1>3. CASE Crash
  <2>1. Lasts /\ Project' = Project /\ previous' \in {previous, Torn}
    BY <1>3, CrashUndo
  <2>2. Undoable!Keep \/ UNCHANGED Undoable!vars
    BY <2>1, KeepRefines, QuietRefines
  <2> QED BY <2>2 DEF Undoable!Next
<1>4. CASE ~(Publish \/ KeepPrevious \/ Crash)
  <2>1. Lasts /\ main' = main /\ previous' = previous
    BY <1>4, PreviewsUndo, LoadUndo, PhotographUndo, BeginUndo, ResultUndo DEF Next
  <2>2. Project' = Project
    BY <2>1 DEF Project
  <2> QED BY <2>1, <2>2, QuietRefines
<1> QED BY <1>1, <1>2, <1>3, <1>4

LEMMA InitRefines ==
  ASSUME Init
  PROVE  Undoable!Init
<1>1. Project = BlankProject /\ previous = Missing /\ LiveSteps(BlankProject) = <<>>
  BY InitUndoInv
<1>2. BlankProject.content = <<>>
  BY DEF BlankProject
<1>3. Past(BlankProject) = <<>>
  <2>1. <<>> \in Seq(Nat) /\ Len(<<>>) = 0
    BY EmptySeq
  <2>2. HasPhotos(history, <<>>, Seq(Client))
    BY <2>1 DEF HasPhotos
  <2>3. Photos(history, <<>>) \in Seq(Seq(Client)) /\ Len(Photos(history, <<>>)) = 0
    BY <2>1, <2>2, PhotosSeq
  <2> QED BY <1>1, <2>3, EmptySeq, PastIsPhotos
<1>4. Past(Project) = <<>> /\ Kept = <<Project.content, Past(Project)>>
  BY <1>1, <1>3 DEF Kept
<1> QED BY <1>1, <1>2, <1>4 DEF Undoable!Init, Undoable!Now

-----------------------------------------------------------------------------
(* Theorems.                                                               *)

\* Every reachable state is the one project the strengthening describes.
THEOREM StoreIsSound == Spec => []StoreInv
<1>1. Init => StoreInv
  BY InitStoreInv
<1>2. StoreInv /\ [Next]_vars => StoreInv'
  BY NextStoreInv
<1> QED BY <1>1, <1>2, PTL DEF Spec

\* Files, writer, requests and jobs always have the shape of the code's data.
THEOREM StoreTypeCorrect == Spec => []TypeOK
<1>1. StoreInv => TypeOK
  BY DEF StoreInv
<1> QED BY <1>1, StoreIsSound, PTL

\* readProjectBytes always finds a project, whatever a crash interrupted.
THEOREM ProjectAlwaysReadable == Spec => []AlwaysReadable
<1>1. StoreInv => AlwaysReadable
  BY StoreAssumption DEF StoreInv, FilesInv, AlwaysReadable, StoreAssumption
<1> QED BY <1>1, StoreIsSound, PTL

\* approveFinal never leaves an approval of what was not rendered.
THEOREM OnlyWatchedIsApproved == Spec => []ApprovedIsWatched
<1>1. ASSUME StoreInv PROVE ApprovedIsWatched
  <2>1. Project \in ProjectType /\ Reviewed(Project)
    BY <1>1, ProjectThere DEF StoreInv
  <2>2. Project.artifact = [rev |-> Project.artifact.rev, content |-> Project.artifact.content]
    BY <2>1, ProjectFields
  <2> QED BY <2>1, <2>2 DEF Reviewed, ApprovedIsWatched
<1> QED BY <1>1, StoreIsSound, PTL

\* No save lands on content its author did not name, and none is lost.
THEOREM NoChangeIsLost == Spec => SavesBuildOnNamedRevision
<1>1. ASSUME StoreInv, NEW c \in Client, Commits(c)
      PROVE  BuildsOnNamedRevision(c)
  <2>1. Saving(c) /\ UnderWay(req[c]) /\ main' = writer.next
    BY <1>1 DEF StoreInv, WriterInv, ReqInv, Saving, Commits
  <2>2. Project.content = req[c].loaded.content
    BY <2>1 DEF Saving, UnderWay, Follows
  <2> QED BY <2>1, <2>2 DEF Saving, Changed, BuildsOnNamedRevision
<1>2. StoreInv => [\A c \in Client : Commits(c) => BuildsOnNamedRevision(c)]_vars
  BY <1>1
<1> QED BY <1>2, StoreIsSound, PTL DEF SavesBuildOnNamedRevision

\* At the same revision no save of a browser takes an approval, a preview or
\* a claim back, although it was computed from an older state.
THEOREM DecisionsAreKept == Spec => SameRevisionKeepsDecisions
<1>1. ASSUME StoreInv, NEW c \in Client, Commits(c), main'.rev = Project.rev
      PROVE  DecisionsStay
  <2>1. Saving(c) /\ Follows(Project, writer.next) /\ main' = writer.next
    BY <1>1 DEF StoreInv, WriterInv, Commits
  <2> QED BY <1>1, <2>1 DEF Saving, Follows, KeepsDecisions, DecisionsStay
<1>2. StoreInv =>
        [\A c \in Client : Commits(c) /\ main'.rev = Project.rev => DecisionsStay]_vars
  BY <1>1
<1> QED BY <1>2, StoreIsSound, PTL DEF SameRevisionKeepsDecisions

\* The undo stack of every reachable state fits the photos.
THEOREM StackIsSound == Spec => []UndoInv
<1>1. Init => UndoInv
  BY InitUndoInv
<1>2. StoreInv /\ StoreInv' /\ UndoInv /\ [Next]_vars => UndoInv'
  BY NextUndoInv
<1> QED BY <1>1, <1>2, StoreIsSound, PTL DEF Spec

\* The undo button goes back, step by step, to exactly what each undoable
\* change replaced: whatever requests, background saves and crashes do, every
\* step of the store is a step of the abstract undo stack.
THEOREM UndoIsAStack == Spec => ImplementsUndoStack
<1>1. Init => Undoable!Init
  BY InitRefines
<1>2. StoreInv /\ StoreInv' /\ UndoInv /\ [Next]_vars => [Undoable!Next]_Undoable!vars
  BY StepRefines
<1> QED BY <1>1, <1>2, StoreIsSound, StackIsSound, PTL DEF Spec, ImplementsUndoStack, Undoable!Spec
=============================================================================
